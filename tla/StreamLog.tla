------------------------------ MODULE StreamLog ------------------------------
(***************************************************************************)
(* What the DVR recorder of mi-player promises, without a ring, a lock or  *)
(* a writer thread: a lossy log.  Whole frames are accepted, in the order  *)
(* they are offered; what reaches the stick is the accepted stream, byte   *)
(* by byte and in order; a recording that is closed without an I/O error   *)
(* holds everything that was accepted.                                     *)
(***************************************************************************)
EXTENDS Naturals, Sequences

CONSTANT Frames     \* the byte sequences that may be offered as one frame

VARIABLES
    phase,          \* "idle", "open", "failed" or "closed"
    log,            \* the stream accepted so far
    stored          \* the file on the stick

vars == <<phase, log, stored>>

Init ==
    /\ phase = "idle"
    /\ log = <<>>
    /\ stored = <<>>

Open ==
    /\ phase = "idle"
    /\ phase' = "open"
    /\ UNCHANGED <<log, stored>>

\* Recording is optional: it may never start.
NeverOpen ==
    /\ phase = "idle"
    /\ phase' = "closed"
    /\ UNCHANGED <<log, stored>>

Accept(f) ==
    /\ phase = "open"
    /\ log' = log \o f
    /\ UNCHANGED <<phase, stored>>

Store ==
    /\ phase = "open"
    /\ Len(stored) < Len(log)
    /\ stored' = Append(stored, log[Len(stored) + 1])
    /\ UNCHANGED <<phase, log>>

Fail ==
    /\ phase = "open"
    /\ phase' = "failed"
    /\ UNCHANGED <<log, stored>>

Close ==
    /\ \/ phase = "open" /\ Len(stored) = Len(log)
       \/ phase = "failed"
    /\ phase' = "closed"
    /\ UNCHANGED <<log, stored>>

Next ==
    \/ Open \/ NeverOpen
    \/ \E f \in Frames : Accept(f)
    \/ Store \/ Fail \/ Close

Spec == Init /\ [][Next]_vars
==============================================================================
