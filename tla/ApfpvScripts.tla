---------------------------- MODULE ApfpvScripts -----------------------------
(***************************************************************************)
(* The scripts that apfpv leaves to wpa_cli and udhcpc: apfpv-action.sh    *)
(* for every association and its loss, apfpv.script for every lease.       *)
(*                                                                         *)
(* wpa_cli (external) runs its script for one event after the other.       *)
(* udhcpc (external) runs its own and waits for it, so that a SIGTERM      *)
(* counts only when the script has returned; started, it calls it with     *)
(* deconfig first, and goes into the background with a lease or without.   *)
(* Left out: addresses, among them one that is refused because eth0 has    *)
(* its subnet; a station that has no FPV_URL to play; /tmp/wifi-status.    *)
(***************************************************************************)
EXTENDS FpvScripts

CONSTANTS
    Action,         \* the process of apfpv-action.sh
    Clients         \* pids that udhcpc can get

ASSUME ApfpvAssumption == Clients \cup {Action} \subseteq Scripts /\ Action \notin Clients

VARIABLES
    reported,       \* the last event wpa_cli ran the script for was CONNECTED
    pending,        \* how many more there are; they alternate
    client,         \* udhcpc: "none", "asks", "bound", or "killed" and not yet gone
    udhcpc_pid      \* /var/run/udhcpc.$IFACE.pid

apfpvVars == <<reported, pending, client, udhcpc_pid>>

ApfpvInit ==
    /\ reported = FALSE /\ pending = 0
    /\ client = [d \in Clients |-> "none"] /\ udhcpc_pid = NoPid

Serves(d) == client[d] \in {"asks", "bound"} /\ pc[d] = "idle"

\* kill "$(cat /var/run/udhcpc.$IFACE.pid)"
KillClient ==
    client' = [d \in Clients |->
                  IF d = udhcpc_pid /\ client[d] # "none" THEN "killed" ELSE client[d]]

EventBeginsMutant ==                        \* DISCONNECTED leaves the player alone
    /\ pc[Action] = "idle" /\ pending > 0
    /\ pending' = pending - 1 /\ reported' = ~reported
    /\ KillClient
    /\ Goto(Action, IF reported THEN "idle" ELSE "action.dhcp")
    /\ UNCHANGED <<udhcpc_pid, forked, fileVars, procVars, screenVars>>

\* Both events begin with that; then CONNECTED asks for a lease, and
\* DISCONNECTED runs fpv-stop.
EventBegins ==
    /\ pc[Action] = "idle" /\ pending > 0
    /\ pending' = pending - 1 /\ reported' = ~reported
    /\ KillClient
    /\ Goto(Action, IF reported THEN "stop" ELSE "action.dhcp")
    /\ UNCHANGED <<udhcpc_pid, forked, fileVars, procVars, screenVars>>

\* The next udhcpc, with deconfig: fpv-stop.
StartsClient ==
    LET free == {d \in Clients : client[d] = "none"}
        next == CHOOSE d \in free : TRUE
    IN  /\ pc[Action] = "action.dhcp" /\ free # {}
        /\ client' = [client EXCEPT ![next] = "asks"]
        /\ udhcpc_pid' = next
        /\ pc' = [pc EXCEPT ![Action] = "action.wait", ![next] = "stop"]
        /\ UNCHANGED <<reported, pending, forked, fileVars, procVars, screenVars>>

\* udhcpc is in the background.
EventEnds ==
    /\ pc[Action] = "action.wait" /\ pc[udhcpc_pid] = "idle"
    /\ Goto(Action, "idle")
    /\ UNCHANGED <<apfpvVars, forked, fileVars, procVars, screenVars, race>>

\* bound or renew: fpv-start, whether or not anything has changed.
Lease(d) ==
    /\ Serves(d)
    /\ client' = [client EXCEPT ![d] = "bound"]
    /\ Goto(d, "start")
    /\ UNCHANGED <<reported, pending, udhcpc_pid, forked, fileVars, procVars, screenVars>>

\* It has run out: deconfig.
LeaseLost(d) ==
    /\ Serves(d) /\ client[d] = "bound"
    /\ client' = [client EXCEPT ![d] = "asks"]
    /\ Goto(d, "stop")
    /\ UNCHANGED <<reported, pending, udhcpc_pid, forked, fileVars, procVars, screenVars>>

ClientEnds(d) ==
    /\ client[d] = "killed" /\ pc[d] = "idle"
    /\ client' = [client EXCEPT ![d] = "none"]
    /\ UNCHANGED <<reported, pending, udhcpc_pid, fpvVars>>

\* What the two scripts go on with once they have begun.
Handler(p) == FpvStart(p, "idle") \/ FpvStop(p, FALSE, "idle")

ApfpvTypeOK ==
    /\ reported \in BOOLEAN /\ pending \in Nat
    /\ client \in [Clients -> {"none", "asks", "bound", "killed"}]
    /\ udhcpc_pid \in Clients \cup {NoPid}
==============================================================================
