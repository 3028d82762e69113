------------------------------- MODULE Station --------------------------------
(***************************************************************************)
(* The ground station over either of its links: wfb-ng, with the link loop,*)
(* or apfpv, with the scripts of wpa_cli and udhcpc; and dvr-play in both. *)
(* (`mode' of wfb.conf; S70link starts the one or the other.)              *)
(*                                                                         *)
(* Of /tmp/fpv.hold only the link loop takes notice.                       *)
(***************************************************************************)
EXTENDS WfbGround, ApfpvScripts

CONSTANTS
    Modes,          \* the links it may have been configured for
    MaxPending      \* bound: events that wpa_cli may be behind

ASSUME StationAssumption ==
    /\ Modes \subseteq {"wfb", "apfpv"} /\ MaxPending \in Nat
    /\ Scripts = Loops \cup Viewers \cup Clients \cup {Action}
    /\ (Clients \cup {Action}) \cap (Loops \cup Viewers) = {}

\* One link loop (what two do: WfbGround), and one recording at a time.
ASSUME OneOfEach ==
    /\ \A l, m \in Loops : l = m
    /\ \A v, w \in Viewers : v = w

VARIABLES
    mode,
    replays,        \* bound: whether there are any in this behaviour
    flights         \* bound: what is left of changes of the association if so

bounds == <<mode, replays, flights>>
stationVars == <<vars, apfpvVars, mode, replays, flights>>

StationInit ==
    /\ FpvInit /\ ApfpvInit
    /\ mode \in Modes /\ replays \in {TRUE, mode = "wfb"} /\ flights = 2
    /\ pc = [p \in Scripts |-> IF p \in Loops /\ mode = "wfb" THEN "loop.top" ELSE "idle"]
    /\ status = "down" /\ hold = FALSE
    /\ down = [l \in Loops |-> 0] /\ last = [l \in Loops |-> FALSE]
    /\ resume = [v \in Viewers |-> "idle"]

Calm == race = "none"
Rests == Calm \/ \A p \in Scripts : pc[p] = "idle"

\* The air unit appears or disappears; wpa_supplicant tells wpa_cli.
Association ==
    /\ mode = "apfpv" /\ Calm
    /\ pending < MaxPending
    /\ replays /\ status = "up" => hold
    /\ flights > 0 /\ flights' = IF replays THEN flights - 1 ELSE flights
    /\ UNCHANGED <<mode, replays>>
    /\ pending' = pending + 1
    /\ status' \in {"up", "down"} \ {status}
    /\ UNCHANGED <<fpvVars, hold, down, last, resume, reported, client, udhcpc_pid>>

\* History: a script that begins during a replay, or beside another.
Crosses(p) ==
    race' = IF hold THEN First("intruded")
            ELSE IF \E q \in Scripts \ {p} : Busy(q) THEN First("overlap")
            ELSE race

Apfpv ==
    /\ mode = "apfpv"
    /\ \/ EventBegins /\ Crosses(Action)
       \/ StartsClient /\ Crosses(Action)
       \/ EventEnds
       \/ \E d \in Clients :
            \/ Lease(d) /\ Rests /\ status = "up" /\ Crosses(d)
            \/ LeaseLost(d) /\ Calm /\ status = "down" /\ Crosses(d)
            \/ ClientEnds(d)
       \/ \E p \in Clients \cup {Action} : Handler(p) /\ UNCHANGED apfpvVars
    /\ UNCHANGED groundVars

Wfb ==
    /\ mode = "wfb"
    /\ Radio \/ \E l \in Loops : Loop(l)
    /\ UNCHANGED apfpvVars

Either ==
    /\ \/ \E v \in Viewers : (replays /\ ReplayHolds(v)) \/ Viewer(v) \/ ReplayInterrupted(v)
       \/ ProcessStep /\ UNCHANGED groundVars
    /\ UNCHANGED apfpvVars

StationNext == Association \/ ((Wfb \/ Apfpv \/ Either) /\ UNCHANGED bounds)

\* The kernel schedules every process; a player that was told to ends, and a
\* recording has an end; udhcpc goes into the background, and with an air unit
\* on the air its leases are granted and renewed.  The radio, the pilot and a
\* live player do as they like.
StationFairness ==
    LET Rest == <<groundVars, apfpvVars, bounds>>
        Others == <<apfpvVars, bounds>>
        Own(A) == A /\ UNCHANGED <<groundVars, bounds>>
    IN  /\ \A l \in Loops : WF_stationVars(Loop(l) /\ UNCHANGED Others)
        /\ \A v \in Viewers : WF_stationVars(Viewer(v) /\ UNCHANGED Others)
        /\ \A s \in Sups : WF_stationVars(Supervisor(s) /\ UNCHANGED Rest)
        /\ \A q \in Players :
              WF_stationVars((PlayerExecs(q) \/ PlayerExits(q)) /\ UNCHANGED Rest)
        /\ WF_stationVars(PlayerStops(Replay) /\ UNCHANGED Rest)
        /\ WF_stationVars(Own((EventBegins \/ StartsClient) /\ Crosses(Action)))
        /\ SF_stationVars(Own(EventEnds))
        /\ \A p \in Clients \cup {Action} :
              WF_stationVars(Own(Handler(p) /\ UNCHANGED apfpvVars))
        /\ \A d \in Clients :
              /\ WF_stationVars(Own(ClientEnds(d)))
              /\ SF_stationVars(Own(Lease(d) /\ Rests /\ status = "up" /\ Crosses(d)))

StationSpec == StationInit /\ [][StationNext]_stationVars
FairStationSpec == StationSpec /\ StationFairness

----------------------------------------------------------------------------
(* The properties are those of WfbGround, of a link that is either. *)

StationTypeOK ==
    /\ FpvTypeOK /\ GroundTypeOK /\ ApfpvTypeOK
    /\ pc \in [Scripts -> Labels \cup {"action.dhcp", "action.wait"}]
    /\ pending \in 0 .. MaxPending /\ mode \in Modes
==============================================================================
