---------------------------- MODULE HubContracts ----------------------------
(***************************************************************************)
(* The contract registry of the Hub: app/api/hub/contracts.  A contract    *)
(* has a stage and a log of its transitions, written together in a         *)
(* transaction, from a stage that was read before it began.                *)
(*                                                                         *)
(* A step is one awaited statement; COMMIT goes with the last one.  Each   *)
(* transition locks the contract's row when it updates it; an event is     *)
(* stamped when it is inserted.  Out of the model: the caller's API key    *)
(* (ApiKeys), audit entries (their failure is swallowed), actors, notes.   *)
(***************************************************************************)
EXTENDS Naturals, FiniteSets

CONSTANTS
    Calls,     \* slots for requests
    Contracts, \* ids
    Stages,    \* of ContractStage
    Users,     \* profiles that can be members
    MaxEvents, \* bound: transitions that are begun
    None

HubContractsAssumption ==
    /\ {"ACTIVE", "CLOSEOUT"} \subseteq Stages /\ None \notin Stages \cup Calls
    /\ MaxEvents \in Nat \ {0}

VARIABLES
    stage,      \* of each contract, None before it exists
    awarded,    \* contracts with an award date
    events,     \* committed ContractLifecycleEvent rows
    members,    \* pairs <<contract, user>> of ContractMembership
    lock,       \* the call whose transaction holds the row of a contract
    clock,      \* stamps given out
    overlapped, \* history: contracts two transitions were in flight on together
    pc, frame

vars == <<stage, awarded, events, members, lock, clock, overlapped, pc, frame>>

\* seen: the stage read; to: the stage asked for; at: the stamp of an
\* inserted event; user: whose membership is removed.
NoFrame == [contract |-> None, seen |-> None, to |-> None, at |-> 0, user |-> None]

InFlight(k) == {c \in Calls : frame[c].contract = k /\ frame[c].to # None}

Goto(c, label, f) == pc' = [pc EXCEPT ![c] = label] /\ frame' = [frame EXCEPT ![c] = f]
Return(c) == Goto(c, "idle", NoFrame)

Event(f, at) == [contract |-> f.contract, from |-> f.seen, to |-> f.to, at |-> at]

-----------------------------------------------------------------------------
\* handleCreate: the contract, its first event, its first members, at once.
CreateContract(k, s, initial) ==
    /\ stage[k] = None /\ clock < MaxEvents
    /\ clock' = clock + 1 /\ stage' = [stage EXCEPT ![k] = s]
    /\ events' = events \cup {Event([contract |-> k, seen |-> None, to |-> s], clock')}
    /\ members' = members \cup ({k} \X initial)
    /\ UNCHANGED <<awarded, lock, overlapped, pc, frame>>

\* The read that both transitions begin with, and its refusals, which leave
\* nothing behind.
Load(c, k, to, label, closed) ==
    /\ pc[c] = "idle" /\ stage[k] \notin closed \cup {None} /\ clock < MaxEvents
    /\ Goto(c, label, [NoFrame EXCEPT !.contract = k, !.seen = stage[k], !.to = to])
    /\ overlapped' = IF InFlight(k) = {} THEN overlapped ELSE overlapped \cup {k}
    /\ UNCHANGED <<stage, awarded, events, members, lock, clock>>

LoadForAward(c, k) == Load(c, k, "ACTIVE", "award", {"ACTIVE", "CLOSEOUT"})
LoadForLifecycle(c, k, to) == Load(c, k, to, "event", {"CLOSEOUT"})

\* handleAward: the contract first, which locks its row ...
Award(c) ==
    LET k == frame[c].contract IN
    /\ pc[c] = "award" /\ lock[k] = None
    /\ lock' = [lock EXCEPT ![k] = c] /\ Goto(c, "awardEvent", frame[c])
    /\ UNCHANGED <<stage, awarded, events, members, clock, overlapped>>

\* ... then the event.
CreateAwardEvent(c) ==
    LET k == frame[c].contract IN
    /\ pc[c] = "awardEvent" /\ clock' = clock + 1
    /\ stage' = [stage EXCEPT ![k] = "ACTIVE"] /\ awarded' = awarded \cup {k}
    /\ events' = events \cup {Event(frame[c], clock')}
    /\ lock' = [lock EXCEPT ![k] = None] /\ Return(c)
    /\ UNCHANGED <<members, overlapped>>

\* Mutant: The event is inserted outside the transaction.
CreateEventAtOnce(c) ==
    /\ pc[c] = "event" /\ clock' = clock + 1
    /\ Goto(c, "update", [frame[c] EXCEPT !.at = clock'])
    /\ events' = events \cup {Event(frame[c], clock')}
    /\ UNCHANGED <<stage, awarded, members, lock, overlapped>>

\* handleLifecycle: the event first ...
CreateEvent(c) ==
    /\ pc[c] = "event" /\ clock' = clock + 1
    /\ Goto(c, "update", [frame[c] EXCEPT !.at = clock'])
    /\ UNCHANGED <<stage, awarded, events, members, lock, overlapped>>

\* ... then the contract, which may have to wait for its row.
UpdateStage(c) ==
    LET f == frame[c] IN
    /\ pc[c] = "update" /\ lock[f.contract] = None
    /\ stage' = [stage EXCEPT ![f.contract] = f.to]
    /\ events' = events \cup {Event(f, f.at)}
    /\ Return(c)
    /\ UNCHANGED <<awarded, members, lock, clock, overlapped>>

-----------------------------------------------------------------------------
\* handleGrantMember; the contract it looks up first is never deleted.
GrantMember(k, u) ==
    /\ stage[k] # None /\ members' = members \cup {<<k, u>>}
    /\ UNCHANGED <<stage, awarded, events, lock, clock, overlapped, pc, frame>>

\* DELETE: the membership is looked up ...
FindMember(c, k, u) ==
    /\ pc[c] = "idle" /\ <<k, u>> \in members
    /\ Goto(c, "remove", [NoFrame EXCEPT !.contract = k, !.user = u])
    /\ UNCHANGED <<stage, awarded, events, members, lock, clock, overlapped>>

\* ... and deleted, or the statement throws because it is gone.
DeleteMember(c) ==
    /\ pc[c] = "remove" /\ Return(c)
    /\ members' = members \ {<<frame[c].contract, frame[c].user>>}
    /\ UNCHANGED <<stage, awarded, events, lock, clock, overlapped>>

\* A statement throws, a transaction exceeds its time, the process dies:
\* rolled back.
Abandon(c) ==
    /\ pc[c] # "idle" /\ Return(c)
    /\ lock' = [k \in Contracts |-> IF lock[k] = c THEN None ELSE lock[k]]
    /\ UNCHANGED <<stage, awarded, events, members, clock, overlapped>>

-----------------------------------------------------------------------------
Init ==
    /\ stage = [k \in Contracts |-> None] /\ lock = [k \in Contracts |-> None]
    /\ awarded = {} /\ events = {} /\ members = {} /\ overlapped = {} /\ clock = 0
    /\ pc = [c \in Calls |-> "idle"] /\ frame = [c \in Calls |-> NoFrame]

Next ==
    \/ \E k \in Contracts :
          \/ \E s \in Stages, initial \in SUBSET Users : CreateContract(k, s, initial)
          \/ \E u \in Users : GrantMember(k, u) \/ \E c \in Calls : FindMember(c, k, u)
          \/ \E c \in Calls : LoadForAward(c, k) \/ \E to \in Stages : LoadForLifecycle(c, k, to)
    \/ \E c \in Calls : \/ Award(c) \/ CreateAwardEvent(c) \/ CreateEvent(c) \/ UpdateStage(c)
                        \/ DeleteMember(c) \/ Abandon(c)

Spec == Init /\ [][Next]_vars

-----------------------------------------------------------------------------
\* What each variable may hold.
TypeOK ==
    /\ stage \in [Contracts -> Stages \cup {None}] /\ awarded \subseteq Contracts
    /\ events \subseteq [contract : Contracts, from : Stages \cup {None}, to : Stages, at : Nat]
    /\ members \subseteq Contracts \X Users /\ overlapped \subseteq Contracts
    /\ \A k \in Contracts : lock[k] = None \/ pc[lock[k]] = "awardEvent"
    /\ \A c \in Calls : (pc[c] = "idle") = (frame[c] = NoFrame)

\* The log is the "authoritative log of when each contract stage transition
\* happened": in the order of its stamps it leads from the creation step by
\* step to the stage of the contract, and never out of closeout, whatever died
\* half-way.  Two transitions in flight together are exempt, since each starts
\* from the stage it read; even then the stage is one the log knows, and the
\* log has one beginning.
LogTellsTheStage ==
    \A k \in {j \in Contracts : stage[j] # None} :
        LET log == {e \in events : e.contract = k}
            After(e) == {d \in log : d.at > e.at /\ \A x \in log : x.at > e.at => x.at >= d.at}
        IN  /\ Cardinality({e \in log : e.from = None}) = 1
            /\ \E e \in log : e.to = stage[k]
            /\ k \notin overlapped =>
                  \A e \in log : /\ e.from # "CLOSEOUT"
                                 /\ IF After(e) = {} THEN e.to = stage[k]
                                    ELSE \A d \in After(e) : d.from = e.to
=============================================================================
