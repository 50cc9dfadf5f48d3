-------------------------- MODULE FeedbackDispatch --------------------------
(***************************************************************************)
(* Feedback and its dispatch: app/api/feedback/dispatch/route.ts and       *)
(* app/api/feedback/[id]/route.ts.  A dispatch reads the open items, files *)
(* one GitHub issue per repository and marks the items of each group when  *)
(* its issue is filed, those the issue has no room for too; meanwhile      *)
(* people change the status of items by hand.                              *)
(*                                                                         *)
(* A step is one awaited call; requests interleave and may die in between. *)
(* External: GitHub creates the issue, refuses, or creates it and its      *)
(* answer is lost.  Out of the model: texts, categories, notes; how much   *)
(* an issue has room for is a choice, an item standing for several.        *)
(***************************************************************************)
EXTENDS Naturals, FiniteSets

CONSTANTS
    Dispatches, \* slots for POST /api/feedback/dispatch
    Items,      \* feedback
    Repos,      \* repositories
    MaxOpened   \* bound: times one item is opened

FeedbackAssumption == MaxOpened \in Nat

Open     == {"new", "acknowledged"}
Settable == Open \cup {"resolved", "dismissed"}

VARIABLES
    repoOf, \* [Items -> the repository of the page the item is about]
    status, \* [Items -> Feedback.status, or "none"]
    linked, \* items with the link of an issue
    pc, frame,
    \* history
    filed,    \* issues that tell of each item, not counted beyond MaxOpened + 1
    omitted,  \* items some issue of their group had no room for
    opened,   \* times each item was opened
    disturbed \* items of two dispatches at a time, or whose issue was filed
              \* without the dispatch learning of it or living to mark them

vars == <<repoOf, status, linked, pc, frame, filed, omitted, opened, disturbed>>

NoFrame == [items |-> {}, repo |-> {}]

Goto(d, label) == pc' = [pc EXCEPT ![d] = label]
Return(d) == Goto(d, "idle") /\ frame' = [frame EXCEPT ![d] = NoFrame]

\* The items of a group are still to be filed, or to be marked.
Of(d, r) == {i \in frame[d].items : repoOf[i] = r}
InHand(i) == \E d \in Dispatches : i \in frame[d].items

-----------------------------------------------------------------------------
\* The ingest stores an item; PATCH sets a status by hand, whatever it was.
Submit(i) ==
    /\ status[i] = "none"
    /\ status' = [status EXCEPT ![i] = "new"]
    /\ opened' = [opened EXCEPT ![i] = 1]
    /\ UNCHANGED <<repoOf, linked, pc, frame, filed, omitted, disturbed>>

SetStatus(i, s) ==
    LET opens == s \in Open /\ status[i] \notin Open IN
    /\ status[i] \notin {"none", s}
    /\ opens => opened[i] < MaxOpened
    /\ status' = [status EXCEPT ![i] = s]
    /\ opened' = IF opens THEN [opened EXCEPT ![i] = @ + 1] ELSE opened
    /\ UNCHANGED <<repoOf, linked, pc, frame, filed, omitted, disturbed>>

-----------------------------------------------------------------------------
\* Mutant: A dispatch of named items takes them whatever their status.
ReadNamed(d, wanted) ==
    LET items == {i \in wanted : status[i] # "none"} IN
    /\ pc[d] = "idle" /\ items # {}
    /\ frame' = [frame EXCEPT ![d].items = items]
    /\ disturbed' = disturbed \cup {i \in items : InHand(i)}
    /\ Goto(d, "file")
    /\ UNCHANGED <<repoOf, status, linked, filed, omitted, opened>>

\* The open items, all or those the request names.
ReadOpen(d, wanted) ==
    LET items == {i \in wanted : status[i] \in Open} IN
    /\ pc[d] = "idle" /\ items # {}
    /\ frame' = [frame EXCEPT ![d].items = items]
    /\ disturbed' = disturbed \cup {i \in items : InHand(i)}
    /\ Goto(d, "file")
    /\ UNCHANGED <<repoOf, status, linked, filed, omitted, opened>>

\* buildFeedbackAgentRequest tells of the items there is room for (one always
\* fits) and fileClaudeRoutineIssue files them; a group that fails is skipped.
File(d, r, told, outcome) ==
    /\ pc[d] = "file" /\ told # {} /\ told \subseteq Of(d, r)
    /\ filed' = IF outcome = "refused" THEN filed
                ELSE [i \in Items |-> IF i \in told /\ filed[i] <= MaxOpened
                                      THEN filed[i] + 1 ELSE filed[i]]
    /\ omitted' = IF outcome = "refused" THEN omitted ELSE omitted \cup (Of(d, r) \ told)
    /\ IF outcome = "done"
       THEN frame' = [frame EXCEPT ![d].repo = {r}] /\ Goto(d, "mark")
       ELSE IF Of(d, r) = frame[d].items THEN Return(d)
       ELSE frame' = [frame EXCEPT ![d].items = @ \ Of(d, r)] /\ UNCHANGED pc
    /\ disturbed' = IF outcome = "lost" THEN disturbed \cup Of(d, r) ELSE disturbed
    /\ UNCHANGED <<repoOf, status, linked, opened>>

\* Its items, by id and whatever their status is by now.
Mark(d) ==
    LET group == {i \in frame[d].items : repoOf[i] \in frame[d].repo} IN
    /\ pc[d] = "mark"
    /\ status' = [i \in Items |-> IF i \in group THEN "dispatched" ELSE status[i]]
    /\ linked' = linked \cup group
    /\ IF group = frame[d].items THEN Return(d)
       ELSE /\ frame' = [frame EXCEPT ![d] = [items |-> @.items \ group, repo |-> {}]]
            /\ Goto(d, "file")
    /\ UNCHANGED <<repoOf, filed, omitted, opened, disturbed>>

\* A statement throws, or the process dies.
Abandon(d) ==
    /\ pc[d] # "idle"
    /\ disturbed' = IF pc[d] = "mark"
                    THEN disturbed \cup {i \in frame[d].items : repoOf[i] \in frame[d].repo}
                    ELSE disturbed
    /\ Return(d)
    /\ UNCHANGED <<repoOf, status, linked, filed, omitted, opened>>

Init ==
    /\ repoOf \in [Items -> Repos]
    /\ status = [i \in Items |-> "none"]
    /\ linked = {}
    /\ pc = [d \in Dispatches |-> "idle"]
    /\ frame = [d \in Dispatches |-> NoFrame]
    /\ filed = [i \in Items |-> 0] /\ omitted = {}
    /\ opened = [i \in Items |-> 0]
    /\ disturbed = {}

Next ==
    \/ \E i \in Items : Submit(i) \/ \E s \in Settable : SetStatus(i, s)
    \/ \E d \in Dispatches :
          \/ \E wanted \in SUBSET Items : ReadOpen(d, wanted)
          \/ \E r \in Repos, told \in SUBSET Items, outcome \in {"done", "refused", "lost"} :
                File(d, r, told, outcome)
          \/ Mark(d) \/ Abandon(d)

Spec == Init /\ [][Next]_vars

-----------------------------------------------------------------------------
\* What each variable may hold.
TypeOK ==
    /\ repoOf \in [Items -> Repos]
    /\ status \in [Items -> Settable \cup {"none", "dispatched"}]
    /\ linked \subseteq Items /\ omitted \subseteq Items /\ disturbed \subseteq Items
    /\ \A i \in Items : opened[i] <= MaxOpened /\ (opened[i] = 0) = (status[i] = "none")
    /\ \A d \in Dispatches : (pc[d] = "idle") = (frame[d] = NoFrame)

\* Feedback is worked on once: the issues tell of an item at most as often as
\* somebody opened it, one waiting that nobody is dispatching has its issue to
\* come, and a "dispatched" one was told of unless its issue had no room for it
\* (those are marked and linked all the same).  Two dispatches of an item at a
\* time, a lost answer and a death between filing and marking are exempt:
\* nothing in the code prevents a second issue then.
FeedbackIsFiledOnce ==
    \A i \in Items :
        /\ status[i] = "dispatched" => i \in linked /\ (filed[i] > 0 \/ i \in omitted)
        /\ i \notin disturbed =>
              /\ filed[i] <= opened[i]
              /\ status[i] \in Open /\ ~InHand(i) => filed[i] < opened[i]
              /\ (i \in linked \/ InHand(i)) \/ filed[i] = 0
=============================================================================
