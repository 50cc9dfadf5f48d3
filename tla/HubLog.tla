------------------------------- MODULE HubLog -------------------------------
(***************************************************************************)
(* What the Hub's audit log promises to those who append to it: one list   *)
(* of events that only grows at its end.  A request is recorded once at    *)
(* most.  Whoever is told that the event is recorded finds it at the place *)
(* he was given; whoever is told that it was not may send it again.  The   *)
(* caller of a request that broke down is told neither.                    *)
(*                                                                         *)
(* HubAudit implements this module.                                        *)
(***************************************************************************)
EXTENDS Naturals, Sequences

CONSTANTS
    Requests,   \* the requests to record something
    Legacy      \* the events there were before, in their order

VARIABLES
    log,    \* what is recorded, in order
    told,   \* per request: what its caller was told
    place   \* per request: the place in the log its caller was told, or 0

logVars == <<log, told, place>>

Init ==
    /\ log \in {<<>>, Legacy}
    /\ told = [r \in Requests |-> "nothing"]
    /\ place = [r \in Requests |-> 0]

IsRecorded(r) == \E n \in DOMAIN log : log[n] = r

Record(r) ==
    /\ told[r] = "nothing"
    /\ ~ IsRecorded(r)
    /\ log' = Append(log, r)
    /\ UNCHANGED <<told, place>>

Acknowledge(r) ==
    /\ told[r] = "nothing"
    /\ told' = [told EXCEPT ![r] = "recorded"]
    /\ \E n \in DOMAIN log : log[n] = r /\ place' = [place EXCEPT ![r] = n]
    /\ UNCHANGED log

Refuse(r) ==
    /\ told[r] = "nothing"
    /\ ~ IsRecorded(r)
    /\ told' = [told EXCEPT ![r] = "refused"]
    /\ UNCHANGED <<log, place>>

Break(r) ==
    /\ told[r] = "nothing"
    /\ told' = [told EXCEPT ![r] = "error"]
    /\ UNCHANGED <<log, place>>

Next == \E r \in Requests : Record(r) \/ Acknowledge(r) \/ Refuse(r) \/ Break(r)

Spec == Init /\ [][Next]_logVars
=============================================================================
