-------------------------- MODULE AgentRunsProofs --------------------------
(***************************************************************************)
(* What holds of AgentRuns for any number of runs, people, concurrent calls *)
(* and for any plans.                                                      *)
(***************************************************************************)
EXTENDS AgentRuns, TLAPS

\* Groups of variables and of labels, and the shape of a call: no proof below
\* depends on keeping these closed.
USE DEF fixed, consent, stepRows, outside, observers, Executing, Preflight,
        Stepping, RunStatus, StepStatus, Frame, NoFrame, Goto, Return, StepsOf

\* What a call in flight knows about its run and itself.
CallsOK ==
    \A c \in Calls :
        /\ pc[c] # "idle" =>
              frame[c].run \in Runs /\ status[frame[c].run] # "absent"
        /\ pc[c] = "decide" =>
              /\ frame[c].user \in Approvers
              /\ frame[c].decision \in {"approved", "rejected"}
        /\ pc[c] \in Stepping => frame[c].outcome # "none"
        /\ pc[c] \in {"invoke", "commit", "audit_violation", "caught"} =>
              frame[c].at \in StepsOf(frame[c].run)

LEMMA StepsAreNaturals ==
    ASSUME TypeOK, NEW r \in Runs
    PROVE  StepsOf(r) \subseteq Nat
<1>0. <<>> \in Seq(StepKind)
  OBVIOUS
<1>1. plan[r] \in Seq(StepKind)
  BY <1>0, PlansAssumption DEF TypeOK
<1>2. QED
  BY <1>1 DEF StepsOf

LEMMA InitType == Init => TypeOK /\ CallsOK
  BY DEF Init, TypeOK, CallsOK, StepsOf, Frame, NoFrame, Executing, Preflight,
         Stepping, RunStatus, Tolerance

LEMMA CreatePlanType ==
    ASSUME TypeOK, CallsOK,
           NEW r \in Runs, NEW u \in Requesters, NEW p \in Plans,
           NEW t \in Tolerance, NEW scoped \in BOOLEAN,
           CreatePlan(r, u, p, t, scoped)
    PROVE  TypeOK' /\ CallsOK'
<1>1. TypeOK'
  BY DEF TypeOK, CreatePlan, StepRows, StepsOf, StepStatus, RunStatus, consent
<1>2. CallsOK'
  BY DEF TypeOK, CallsOK, CreatePlan, StepsOf, consent
<1>3. QED
  BY <1>1, <1>2

LEMMA RepositoryChangesType ==
    ASSUME TypeOK, CallsOK, NEW r \in Runs, RepositoryChanges(r)
    PROVE  TypeOK' /\ CallsOK'
  BY DEF TypeOK, CallsOK, RepositoryChanges, StepsOf, fixed, consent, stepRows,
         outside

LEMMA LoadForApprovalType ==
    ASSUME TypeOK, CallsOK, NEW c \in Calls, NEW u \in Approvers,
           NEW r \in Runs, NEW d \in {"approved", "rejected"}, LoadForApproval(c, u, r, d)
    PROVE  TypeOK' /\ CallsOK'
<1>1. frame[c] \in Frame
  BY DEF TypeOK
<1>2. TypeOK'
  BY <1>1 DEF TypeOK, CallsOK, LoadForApproval, Load, MayDecide
<1>3. CallsOK'
  BY <1>1 DEF TypeOK, CallsOK, LoadForApproval, Load, MayDecide
<1>4. QED
  BY <1>2, <1>3

LEMMA LoadForExecutionType ==
    ASSUME TypeOK, CallsOK, NEW c \in Calls, NEW r \in Runs, LoadForExecution(c, r)
    PROVE  TypeOK' /\ CallsOK'
<1>1. frame[c] \in Frame
  BY DEF TypeOK
<1>2. TypeOK'
  BY <1>1 DEF TypeOK, CallsOK, LoadForExecution, Load, MayExecute
<1>3. CallsOK'
  BY <1>1 DEF TypeOK, CallsOK, LoadForExecution, Load, MayExecute
<1>4. QED
  BY <1>2, <1>3

LEMMA LoadForCancelType ==
    ASSUME TypeOK, CallsOK, NEW c \in Calls, NEW r \in Runs, LoadForCancel(c, r)
    PROVE  TypeOK' /\ CallsOK'
<1>1. frame[c] \in Frame
  BY DEF TypeOK
<1>2. TypeOK'
  BY <1>1 DEF TypeOK, CallsOK, LoadForCancel, Load
<1>3. CallsOK'
  BY <1>1 DEF TypeOK, CallsOK, LoadForCancel, Load
<1>4. QED
  BY <1>2, <1>3

LEMMA DecideType ==
    ASSUME TypeOK, CallsOK, NEW c \in Calls, Decide(c)
    PROVE  TypeOK' /\ CallsOK'
<1>1. frame[c] \in Frame
  BY DEF TypeOK
<1>a. /\ frame[c].run \in Runs
      /\ frame[c].user \in Approvers
      /\ frame[c].decision \in {"approved", "rejected"}
  BY DEF CallsOK, Decide
<1>2. TypeOK'
  BY <1>1, <1>a DEF TypeOK, CallsOK, Decide, NewApprover
<1>3. CallsOK'
  BY <1>1, <1>a DEF TypeOK, CallsOK, Decide, NewApprover
<1>4. QED
  BY <1>2, <1>3

LEMMA CheckScopeType ==
    ASSUME TypeOK, CallsOK, NEW c \in Calls, CheckScope(c)
    PROVE  TypeOK' /\ CallsOK'
<1>1. frame[c] \in Frame
  BY DEF TypeOK
<1>2. TypeOK'
  BY <1>1 DEF TypeOK, CallsOK, CheckScope, AfterScope
<1>3. CallsOK'
  BY <1>1 DEF TypeOK, CallsOK, CheckScope, AfterScope
<1>4. QED
  BY <1>2, <1>3

LEMMA RefuseScopeType ==
    ASSUME TypeOK, CallsOK, NEW c \in Calls, RefuseScope(c)
    PROVE  TypeOK' /\ CallsOK'
<1>1. frame[c] \in Frame
  BY DEF TypeOK
<1>2. TypeOK'
  BY <1>1 DEF TypeOK, CallsOK, RefuseScope
<1>3. CallsOK'
  BY <1>1 DEF TypeOK, CallsOK, RefuseScope
<1>4. QED
  BY <1>2, <1>3

LEMMA StartType ==
    ASSUME TypeOK, CallsOK, NEW c \in Calls, Start(c)
    PROVE  TypeOK' /\ CallsOK'
<1>1. frame[c] \in Frame
  BY DEF TypeOK
<1>2. TypeOK'
  BY <1>1 DEF TypeOK, CallsOK, Start
<1>3. CallsOK'
  BY <1>1 DEF TypeOK, CallsOK, Start
<1>4. QED
  BY <1>2, <1>3

LEMMA BeginStepType ==
    ASSUME TypeOK, CallsOK, NEW c \in Calls, BeginStep(c)
    PROVE  TypeOK' /\ CallsOK'
<1>1. frame[c] \in Frame
  BY DEF TypeOK
<1>2. TypeOK'
  BY <1>1 DEF TypeOK, CallsOK, BeginStep
<1>3. CallsOK'
  BY <1>1 DEF TypeOK, CallsOK, BeginStep
<1>4. QED
  BY <1>2, <1>3

LEMMA UnknownCapabilityType ==
    ASSUME TypeOK, CallsOK, NEW c \in Calls, UnknownCapability(c)
    PROVE  TypeOK' /\ CallsOK'
<1>1. frame[c] \in Frame
  BY DEF TypeOK
<1>2. TypeOK'
  BY <1>1 DEF TypeOK, CallsOK, UnknownCapability
<1>3. CallsOK'
  BY <1>1 DEF TypeOK, CallsOK, UnknownCapability
<1>4. QED
  BY <1>2, <1>3

LEMMA InvokeType ==
    ASSUME TypeOK, CallsOK, NEW c \in Calls, Invoke(c)
    PROVE  TypeOK' /\ CallsOK'
<1>1. frame[c] \in Frame
  BY DEF TypeOK
<1>2. TypeOK'
  BY <1>1 DEF TypeOK, CallsOK, Invoke
<1>3. CallsOK'
  BY <1>1 DEF TypeOK, CallsOK, Invoke
<1>4. QED
  BY <1>2, <1>3

LEMMA CommitType ==
    ASSUME TypeOK, CallsOK, NEW c \in Calls, NEW violates \in BOOLEAN,
           Commit(c, violates)
    PROVE  TypeOK' /\ CallsOK'
<1>1. frame[c] \in Frame
  BY DEF TypeOK
<1>2. /\ frame[c].run \in Runs
      /\ status[frame[c].run] # "absent"
      /\ frame[c].at \in StepsOf(frame[c].run)
      /\ frame[c].at \in Nat
  BY StepsAreNaturals DEF CallsOK, Commit
<1>3. /\ steps' = [steps EXCEPT ![frame[c].run][frame[c].at] = "succeeded"]
      /\ violated' \subseteq violated \cup {<<frame[c].run, frame[c].at>>}
      /\ recorded' = recorded \cup {<<frame[c].run, frame[c].at>>}
      /\ UNCHANGED <<status, plan, effects>>
  BY DEF Commit, fixed
<1>4. \/ /\ pc' = [pc EXCEPT ![c] = "audit_violation"]
         /\ frame' = frame
      \/ /\ pc' = [pc EXCEPT ![c] = "begin_step"]
         /\ frame' = [frame EXCEPT ![c].at = @ + 1]
  BY DEF Commit, Goto
<1>5. frame' \in [Calls -> Frame]
  <2>1. [frame[c] EXCEPT !.at = @ + 1] \in Frame
    BY <1>1, <1>2 DEF Frame
  <2>2. QED
    BY <1>4, <2>1 DEF TypeOK
<1>6. pc' \in [Calls -> {"idle", "decide", "cancel"} \cup Executing]
  BY <1>4 DEF TypeOK, Executing, Stepping
<1>7. \A r \in Runs : steps'[r] \in [StepsOf(r) -> StepStatus]
  BY <1>2, <1>3 DEF TypeOK, StepStatus
<1>8. (violated \cup recorded)' \subseteq Runs \X Nat
  BY <1>2, <1>3 DEF TypeOK
<1>9. TypeOK'
  BY <1>3, <1>5, <1>6, <1>7, <1>8
     DEF TypeOK, Commit, StepsOf, fixed, consent, observers
<1>10. CallsOK'
  <2>1. \A d \in Calls : d # c => frame'[d] = frame[d] /\ pc'[d] = pc[d]
    BY <1>4 DEF TypeOK
  <2>2. frame'[c].run = frame[c].run /\ frame'[c].outcome = frame[c].outcome
    BY <1>1, <1>4 DEF TypeOK, Frame
  <2>3. \/ pc'[c] = "begin_step"
        \/ pc'[c] = "audit_violation" /\ frame'[c].at = frame[c].at
    BY <1>4 DEF TypeOK
  <2>4. pc[c] = "commit"
    BY DEF Commit
  <2>5. QED
    BY <1>2, <1>3, <2>1, <2>2, <2>3, <2>4 DEF CallsOK, StepsOf, Stepping
<1>11. QED
  BY <1>9, <1>10

LEMMA CommitThrowsType ==
    ASSUME TypeOK, CallsOK, NEW c \in Calls, CommitThrows(c)
    PROVE  TypeOK' /\ CallsOK'
<1>1. frame[c] \in Frame
  BY DEF TypeOK
<1>2. TypeOK'
  BY <1>1 DEF TypeOK, CallsOK, CommitThrows
<1>3. CallsOK'
  BY <1>1 DEF TypeOK, CallsOK, CommitThrows
<1>4. QED
  BY <1>2, <1>3

LEMMA AuditViolationType ==
    ASSUME TypeOK, CallsOK, NEW c \in Calls, AuditViolation(c)
    PROVE  TypeOK' /\ CallsOK'
<1>1. frame[c] \in Frame
  BY DEF TypeOK
<1>2. CASE pc' = [pc EXCEPT ![c] = "caught"] /\ UNCHANGED frame
  <2>1. TypeOK'
    BY <1>2 DEF TypeOK, AuditViolation
  <2>2. CallsOK'
    BY <1>2 DEF TypeOK, CallsOK, AuditViolation
  <2>3. QED
    BY <2>1, <2>2
<1>3. CASE /\ pc' = [pc EXCEPT ![c] = "finish"]
           /\ frame' = [frame EXCEPT ![c].outcome = "refused"]
  <2>1. TypeOK'
    BY <1>1, <1>3 DEF TypeOK, AuditViolation
  <2>2. CallsOK'
    BY <1>1, <1>3 DEF TypeOK, CallsOK, AuditViolation
  <2>3. QED
    BY <2>1, <2>2
<1>4. QED
  BY <1>2, <1>3 DEF AuditViolation

LEMMA CaughtType ==
    ASSUME TypeOK, CallsOK, NEW c \in Calls, Caught(c)
    PROVE  TypeOK' /\ CallsOK'
<1>1. frame[c] \in Frame
  BY DEF TypeOK
<1>2. /\ frame[c].run \in Runs
      /\ status[frame[c].run] # "absent"
      /\ frame[c].at \in StepsOf(frame[c].run)
      /\ frame[c].at \in Nat
  BY StepsAreNaturals DEF CallsOK, Caught
<1>3. /\ steps' = [steps EXCEPT ![frame[c].run][frame[c].at] = "failed"]
      /\ frame' = [frame EXCEPT ![c].outcome = "failed"]
      /\ pc' = [pc EXCEPT ![c] = "finish"]
      /\ UNCHANGED <<status, plan, effects>>
  BY DEF Caught, Goto, fixed, outside
<1>4. frame' \in [Calls -> Frame]
  <2>1. [frame[c] EXCEPT !.outcome = "failed"] \in Frame
    BY <1>1 DEF Frame
  <2>2. QED
    BY <1>3, <2>1 DEF TypeOK
<1>5. pc' \in [Calls -> {"idle", "decide", "cancel"} \cup Executing]
  BY <1>3 DEF TypeOK, Executing, Stepping
<1>6. \A r \in Runs : steps'[r] \in [StepsOf(r) -> StepStatus]
  BY <1>2, <1>3 DEF TypeOK, StepStatus
<1>7. TypeOK'
  BY <1>3, <1>4, <1>5, <1>6
     DEF TypeOK, Caught, StepsOf, fixed, consent, outside, observers
<1>8. CallsOK'
  <2>1. \A d \in Calls : d # c => frame'[d] = frame[d] /\ pc'[d] = pc[d]
    BY <1>3 DEF TypeOK
  <2>2. frame'[c].run = frame[c].run /\ frame'[c].outcome = "failed"
    BY <1>1, <1>3 DEF TypeOK, Frame
  <2>3. pc'[c] = "finish"
    BY <1>3 DEF TypeOK
  <2>4. QED
    BY <1>2, <1>3, <2>1, <2>2, <2>3 DEF CallsOK, StepsOf
<1>9. QED
  BY <1>7, <1>8

LEMMA FinishType ==
    ASSUME TypeOK, CallsOK, NEW c \in Calls, Finish(c)
    PROVE  TypeOK' /\ CallsOK'
<1>1. frame[c] \in Frame
  BY DEF TypeOK
<1>2. TypeOK'
  BY <1>1 DEF TypeOK, CallsOK, Finish, FinalStatus
<1>3. CallsOK'
  BY <1>1 DEF TypeOK, CallsOK, Finish, FinalStatus
<1>4. QED
  BY <1>2, <1>3

LEMMA CancelType ==
    ASSUME TypeOK, CallsOK, NEW c \in Calls, Cancel(c)
    PROVE  TypeOK' /\ CallsOK'
<1>1. frame[c] \in Frame
  BY DEF TypeOK
<1>2. TypeOK'
  BY <1>1 DEF TypeOK, CallsOK, Cancel
<1>3. CallsOK'
  BY <1>1 DEF TypeOK, CallsOK, Cancel
<1>4. QED
  BY <1>2, <1>3

LEMMA AbandonType ==
    ASSUME TypeOK, CallsOK, NEW c \in Calls, Abandon(c)
    PROVE  TypeOK' /\ CallsOK'
<1>1. frame[c] \in Frame
  BY DEF TypeOK
<1>2. TypeOK'
  BY <1>1 DEF TypeOK, CallsOK, Abandon
<1>3. CallsOK'
  BY <1>1 DEF TypeOK, CallsOK, Abandon
<1>4. QED
  BY <1>2, <1>3

\* Every step keeps the types and what the calls know.
LEMMA NextType ==
    TypeOK /\ CallsOK /\ [Next]_vars => TypeOK' /\ CallsOK'
<1> SUFFICES ASSUME TypeOK, CallsOK, [Next]_vars
             PROVE  TypeOK' /\ CallsOK'
  OBVIOUS
<1>1. CASE Plan
  BY <1>1, CreatePlanType DEF Plan
<1>2. CASE \E r \in Runs : RepositoryChanges(r)
  BY <1>2, RepositoryChangesType
<1>3. ASSUME NEW c \in Calls, Request(c)
      PROVE  TypeOK' /\ CallsOK'
  BY <1>3, LoadForApprovalType, LoadForExecutionType, LoadForCancelType
     DEF Request
<1>4. ASSUME NEW c \in Calls, Advance(c)
      PROVE  TypeOK' /\ CallsOK'
  BY <1>4, DecideType, CheckScopeType, RefuseScopeType, StartType,
     BeginStepType, UnknownCapabilityType, InvokeType, CommitType,
     CommitThrowsType, AuditViolationType, CaughtType, FinishType, CancelType
     DEF Advance
<1>5. ASSUME NEW c \in Calls, Abandon(c)
      PROVE  TypeOK' /\ CallsOK'
  BY <1>5, AbandonType
<1>6. CASE UNCHANGED vars
  BY <1>6 DEF TypeOK, CallsOK, StepsOf, vars, fixed, consent, stepRows,
     outside, observers
<1>7. QED
  BY <1>1, <1>2, <1>3, <1>4, <1>5, <1>6 DEF Next

\* Type correctness of AgentRuns, together with what the calls know.
THEOREM TypeCorrect == Spec => [](TypeOK /\ CallsOK)
  BY InitType, NextType, PTL DEF Spec

-----------------------------------------------------------------------------
(***************************************************************************)
(* Separation of duties.  A decision is only ever recorded by somebody who *)
(* was checked against the requester, a run that needs approval can only   *)
(* be loaded for execution with an approver on it, and whatever the row    *)
(* says later, the call and the AgentApproval row keep the name.           *)
(***************************************************************************)
ConsentOK ==
    /\ \A a \in approvals :
          status[a.run] # "absent" /\ a.by # requestedBy[a.run]
    /\ \A r \in Runs :
          RequiresApproval(r) =>
              /\ status[r] # "planned"
              /\ status[r] = "approved" => approvedBy[r] \in ApproversOf(r)
    /\ \A c \in Calls :
          pc[c] = "decide" => /\ RequiresApproval(frame[c].run)
                              /\ frame[c].user # requestedBy[frame[c].run]
    /\ \A c \in Calls :
          (pc[c] \in Executing /\ RequiresApproval(frame[c].run))
              => frame[c].approver \in ApproversOf(frame[c].run)
    /\ \A r \in Runs :
          (RequiresApproval(r) /\ \E i \in StepsOf(r) : effects[r][i] > 0)
              => ApproversOf(r) # {}

LEMMA InitConsent == Init => ConsentOK
  BY DEF Init, ConsentOK, RequiresApproval

LEMMA ConsentCreatePlan ==
    ASSUME TypeOK, CallsOK, ConsentOK,
           NEW r \in Runs, NEW u \in Requesters, NEW p \in Plans,
           NEW t \in Tolerance, NEW scoped \in BOOLEAN,
           CreatePlan(r, u, p, t, scoped)
    PROVE  ConsentOK'
<1>1. /\ status[r] = "absent"
      /\ \A a \in approvals : a.run # r /\ a.run \in Runs
      /\ \A c \in Calls : pc[c] # "idle" => frame[c].run # r
      /\ UNCHANGED <<approvals, approvedBy, pc, frame>>
  BY DEF TypeOK, CallsOK, ConsentOK, CreatePlan
<1>2. \A q \in Runs : q # r => /\ status'[q] = status[q]
                               /\ plan'[q] = plan[q]
                               /\ requestedBy'[q] = requestedBy[q]
                               /\ effects'[q] = effects[q]
  BY DEF TypeOK, CreatePlan
<1>3. /\ status'[r] \in {"planned", "awaiting_approval"}
      /\ RequiresApproval(r)' => status'[r] # "planned"
      /\ \A i \in StepsOf(r)' : effects'[r][i] = 0
  BY DEF TypeOK, CreatePlan, RequiresApproval
<1>4. \A q \in Runs : q # r => (RequiresApproval(q)' <=> RequiresApproval(q))
  BY <1>2 DEF RequiresApproval
<1>5. \A q \in Runs : ApproversOf(q)' = ApproversOf(q)
  BY <1>1 DEF ApproversOf
<1>6. \A a \in approvals : status'[a.run] # "absent" /\ a.by # requestedBy'[a.run]
  BY <1>1, <1>2 DEF ConsentOK
<1>7. \A q \in Runs : RequiresApproval(q)' =>
          /\ status'[q] # "planned"
          /\ status'[q] = "approved" => approvedBy[q] \in ApproversOf(q)
  BY <1>2, <1>3, <1>4 DEF ConsentOK
<1>8. \A c \in Calls : pc[c] # "idle" =>
          /\ RequiresApproval(frame[c].run)' <=> RequiresApproval(frame[c].run)
          /\ requestedBy'[frame[c].run] = requestedBy[frame[c].run]
  BY <1>1, <1>2, <1>4 DEF CallsOK
<1>9. \A q \in Runs :
          (RequiresApproval(q)' /\ \E i \in StepsOf(q)' : effects'[q][i] > 0)
              => ApproversOf(q) # {}
  <2> SUFFICES ASSUME NEW q \in Runs, RequiresApproval(q)',
                      \E i \in StepsOf(q)' : effects'[q][i] > 0
               PROVE  ApproversOf(q) # {}
    OBVIOUS
  <2>1. q # r
    BY <1>3
  <2>2. QED
    BY <1>2, <1>4, <2>1 DEF ConsentOK
<1>10. \A c \in Calls :
           /\ pc[c] = "decide" => /\ RequiresApproval(frame[c].run)'
                                  /\ frame[c].user # requestedBy'[frame[c].run]
           /\ (pc[c] \in Executing /\ RequiresApproval(frame[c].run)')
                  => frame[c].approver \in ApproversOf(frame[c].run)
  BY <1>8 DEF ConsentOK
<1>11. UNCHANGED <<approvals, approvedBy, pc, frame>>
  BY <1>1
<1>12. ConsentOK' <=>
          /\ \A a \in approvals :
                status'[a.run] # "absent" /\ a.by # requestedBy'[a.run]
          /\ \A q \in Runs : RequiresApproval(q)' =>
                /\ status'[q] # "planned"
                /\ status'[q] = "approved" => approvedBy[q] \in ApproversOf(q)'
          /\ \A c \in Calls : pc[c] = "decide" =>
                /\ RequiresApproval(frame[c].run)'
                /\ frame[c].user # requestedBy'[frame[c].run]
          /\ \A c \in Calls :
                (pc[c] \in Executing /\ RequiresApproval(frame[c].run)')
                  => frame[c].approver \in ApproversOf(frame[c].run)'
          /\ \A q \in Runs :
                (RequiresApproval(q)' /\ \E i \in StepsOf(q)' : effects'[q][i] > 0)
                  => ApproversOf(q)' # {}
  BY <1>11 DEF ConsentOK, RequiresApproval, ApproversOf
<1>13. \A c \in Calls : ApproversOf(frame[c].run)' = ApproversOf(frame[c].run)
  BY <1>11 DEF ApproversOf
<1>14. QED
  BY <1>5, <1>6, <1>7, <1>9, <1>10, <1>12, <1>13

LEMMA ConsentDecide ==
    ASSUME TypeOK, CallsOK, ConsentOK, NEW c \in Calls, Decide(c)
    PROVE  ConsentOK'
<1>0. PICK r \in Runs : r = frame[c].run
  BY DEF CallsOK, Decide
<1> DEFINE row == [run |-> r, decision |-> frame[c].decision, by |-> frame[c].user]
<1>1. /\ status[r] # "absent"
      /\ frame[c].user # requestedBy[r]
      /\ frame[c].decision \in {"approved", "rejected"}
      /\ UNCHANGED <<plan, requestedBy, effects>>
  BY <1>0 DEF CallsOK, ConsentOK, Decide
<1>2. /\ approvals' = approvals \cup {row}
      /\ status' = [status EXCEPT ![r] = frame[c].decision]
      /\ approvedBy' = [approvedBy EXCEPT ![r] = NewApprover(c)]
  BY <1>0 DEF Decide
<1>3. \A q \in Runs : ApproversOf(q) \subseteq ApproversOf(q)'
  BY <1>2 DEF ApproversOf
<1>4. frame[c].decision = "approved" => frame[c].user \in ApproversOf(r)'
  <2>1. /\ row \in approvals'
        /\ row.run = r /\ row.by = frame[c].user
        /\ row.decision = frame[c].decision
    BY <1>2
  <2> HIDE DEF row
  <2>2. QED
    BY <2>1 DEF ApproversOf
<1>5. frame[c].decision = "approved" => approvedBy'[r] = frame[c].user
  BY <1>0, <1>2 DEF TypeOK, NewApprover
<1>6. /\ pc'[c] = "idle"
      /\ \A d \in Calls : d # c => pc'[d] = pc[d] /\ frame'[d] = frame[d]
  BY DEF TypeOK, Decide
<1>7. \A a \in approvals' : status'[a.run] # "absent" /\ a.by # requestedBy'[a.run]
  BY <1>1, <1>2 DEF TypeOK, ConsentOK
<1>8. \A q \in Runs : RequiresApproval(q)' =>
          /\ status'[q] # "planned"
          /\ status'[q] = "approved" => approvedBy'[q] \in ApproversOf(q)'
  <2> SUFFICES ASSUME NEW q \in Runs, RequiresApproval(q)'
               PROVE  /\ status'[q] # "planned"
                      /\ status'[q] = "approved" => approvedBy'[q] \in ApproversOf(q)'
    OBVIOUS
  <2>1. CASE q = r
    <3>1. status'[r] = frame[c].decision
      BY <1>2 DEF TypeOK
    <3>2. QED
      BY <1>1, <1>4, <1>5, <2>1, <3>1
  <2>2. CASE q # r
    <3>1. status'[q] = status[q] /\ approvedBy'[q] = approvedBy[q]
      BY <1>2, <2>2 DEF TypeOK
    <3>2. RequiresApproval(q)
      BY <1>1 DEF RequiresApproval
    <3>3. QED
      BY <1>3, <3>1, <3>2 DEF ConsentOK
  <2>3. QED
    BY <2>1, <2>2
<1>9. \A d \in Calls : (pc'[d] \in Executing /\ RequiresApproval(frame[d].run)')
          => frame'[d].approver \in ApproversOf(frame[d].run)'
  <2> SUFFICES ASSUME NEW d \in Calls, pc'[d] \in Executing,
                      RequiresApproval(frame[d].run)'
               PROVE  frame'[d].approver \in ApproversOf(frame[d].run)'
    OBVIOUS
  <2>1. PICK q \in Runs : q = frame[d].run
    BY <1>6 DEF CallsOK
  <2>2. frame'[d] = frame[d] /\ pc[d] \in Executing
    BY <1>6
  <2>3. RequiresApproval(q)
    BY <1>1, <2>1, <2>2 DEF RequiresApproval
  <2>4. frame[d].approver \in ApproversOf(q)'
    BY <1>3, <2>1, <2>2, <2>3 DEF ConsentOK
  <2>5. QED
    BY <2>1, <2>2, <2>4 DEF ApproversOf
<1>10. \A d \in Calls : pc'[d] = "decide" =>
           /\ RequiresApproval(frame[d].run)'
           /\ frame'[d].user # requestedBy'[frame'[d].run]
  BY <1>1, <1>6 DEF ConsentOK, RequiresApproval
<1>11. \A q \in Runs :
           (RequiresApproval(q)' /\ \E i \in StepsOf(q)' : effects'[q][i] > 0)
               => ApproversOf(q)' # {}
  BY <1>1, <1>3 DEF ConsentOK, RequiresApproval
<1>12. QED
  BY <1>7, <1>8, <1>9, <1>10, <1>11 DEF ConsentOK

LEMMA ConsentLoad ==
    ASSUME TypeOK, CallsOK, ConsentOK, NEW c \in Calls, Request(c)
    PROVE  ConsentOK'
<1>1. /\ UNCHANGED <<status, plan, requestedBy, approvals, approvedBy, effects>>
      /\ \A d \in Calls : d # c => pc'[d] = pc[d] /\ frame'[d] = frame[d]
  BY DEF TypeOK, Request, LoadForApproval, LoadForExecution, LoadForCancel, Load
<1>2. pc'[c] = "decide" => /\ RequiresApproval(frame'[c].run)
                           /\ frame'[c].user # requestedBy[frame'[c].run]
  <2>1. CASE \E r \in Runs, u \in Approvers, d \in {"approved", "rejected"} :
               LoadForApproval(c, u, r, d)
    BY <2>1 DEF TypeOK, LoadForApproval, MayDecide, Load, RequiresApproval
  <2>2. CASE \E r \in Runs : LoadForExecution(c, r)
    BY <2>2 DEF TypeOK, LoadForExecution, Load
  <2>3. CASE \E r \in Runs : LoadForCancel(c, r)
    BY <2>3 DEF TypeOK, LoadForCancel, Load
  <2>4. QED
    BY <2>1, <2>2, <2>3 DEF Request
<1>3. ASSUME pc'[c] \in Executing, RequiresApproval(frame'[c].run)
      PROVE  frame'[c].approver \in ApproversOf(frame'[c].run)
  <2>1. PICK r \in Runs : LoadForExecution(c, r)
    <3>1. ASSUME NEW r \in Runs, NEW u \in Approvers,
                 NEW d \in {"approved", "rejected"}, LoadForApproval(c, u, r, d)
          PROVE  pc'[c] \notin Executing
      BY <3>1 DEF TypeOK, LoadForApproval, Load, Executing
    <3>2. ASSUME NEW r \in Runs, LoadForCancel(c, r)
          PROVE  pc'[c] \notin Executing
      BY <3>2 DEF TypeOK, LoadForCancel, Load, Executing
    <3>3. QED
      BY <1>3, <3>1, <3>2, Zenon DEF Request
  <2>2. frame'[c].run = r /\ frame'[c].approver = approvedBy[r]
    BY <2>1 DEF TypeOK, LoadForExecution, Load
  <2>3. QED
    BY <1>3, <2>1, <2>2 DEF ConsentOK, LoadForExecution, MayExecute
<1>4. \A r : /\ RequiresApproval(r)' = RequiresApproval(r)
             /\ ApproversOf(r)' = ApproversOf(r)
  BY <1>1 DEF RequiresApproval, ApproversOf
<1>5. \A d \in Calls : pc'[d] = "decide" =>
          /\ RequiresApproval(frame'[d].run)
          /\ frame'[d].user # requestedBy[frame'[d].run]
  BY <1>1, <1>2 DEF ConsentOK
<1>6. \A d \in Calls : (pc'[d] \in Executing /\ RequiresApproval(frame'[d].run))
          => frame'[d].approver \in ApproversOf(frame'[d].run)
  BY <1>1, <1>3 DEF ConsentOK
<1>7. QED
  BY <1>1, <1>4, <1>5, <1>6 DEF ConsentOK, RequiresApproval, ApproversOf

\* Every other statement leaves consent alone: it moves a call forward with
\* its run and approver, and sets no status from which a run could start.
LEMMA ConsentFrame ==
    ASSUME TypeOK, CallsOK, ConsentOK,
           UNCHANGED <<plan, requestedBy, approvals, approvedBy>>,
           \A r \in Runs : \/ status'[r] = status[r]
                           \/ status'[r] \notin {"planned", "approved", "absent"},
           \A r \in Runs : \A i \in StepsOf(r) :
               effects'[r][i] > 0 => \/ effects[r][i] > 0
                                     \/ \E c \in InFlight(r) : pc[c] \in Executing,
           \A c \in Calls : pc'[c] # "idle" =>
               /\ pc'[c] = pc[c] \/ (pc[c] \in Executing /\ pc'[c] \in Executing)
               /\ frame'[c].run = frame[c].run
               /\ frame'[c].user = frame[c].user
               /\ frame'[c].approver = frame[c].approver
    PROVE  ConsentOK'
<1>1. \A a \in approvals : a.run \in Runs
  BY DEF TypeOK
<1>2. \A r \in Runs : RequiresApproval(r)' = RequiresApproval(r)
                      /\ ApproversOf(r)' = ApproversOf(r)
  BY DEF RequiresApproval, ApproversOf
<1>3. \A c \in Calls : pc'[c] # "idle" => frame[c].run \in Runs /\ pc[c] # "idle"
  BY DEF CallsOK
<1>4. \A r \in Runs : RequiresApproval(r) =>
          /\ status'[r] # "planned"
          /\ status'[r] = "approved" => approvedBy[r] \in ApproversOf(r)
  BY DEF ConsentOK
<1>5. \A r \in Runs :
          (RequiresApproval(r) /\ \E i \in StepsOf(r) : effects'[r][i] > 0)
              => ApproversOf(r) # {}
  BY DEF ConsentOK, InFlight
<1>6. \A a \in approvals : status'[a.run] # "absent" /\ a.by # requestedBy[a.run]
  BY <1>1 DEF ConsentOK
<1>7. QED
  BY <1>2, <1>3, <1>4, <1>5, <1>6 DEF ConsentOK, RequiresApproval, ApproversOf

\* What the other statements of a call do, as ConsentFrame wants it.
LEMMA AdvanceFrame ==
    ASSUME TypeOK, CallsOK, NEW c \in Calls, Advance(c) \/ Abandon(c), ~Decide(c)
    PROVE  /\ UNCHANGED <<plan, requestedBy, approvals, approvedBy>>
           /\ \A r \in Runs : \/ status'[r] = status[r]
                              \/ status'[r] \notin {"planned", "approved", "absent"}
           /\ \A r \in Runs : \A i \in StepsOf(r) :
                  effects'[r][i] > 0 => \/ effects[r][i] > 0
                                        \/ \E d \in InFlight(r) : pc[d] \in Executing
           /\ \A d \in Calls : pc'[d] # "idle" =>
                  /\ pc'[d] = pc[d] \/ (pc[d] \in Executing /\ pc'[d] \in Executing)
                  /\ frame'[d].run = frame[d].run
                  /\ frame'[d].user = frame[d].user
                  /\ frame'[d].approver = frame[d].approver
<1>1. CASE CheckScope(c)
  BY <1>1 DEF TypeOK, CheckScope, AfterScope
<1>2. CASE Start(c)
  BY <1>2 DEF TypeOK, Start
<1>3. CASE BeginStep(c) \/ UnknownCapability(c)
  BY <1>3 DEF TypeOK, BeginStep, UnknownCapability
<1>4. CASE Invoke(c)
  <2>1. frame[c].run \in Runs /\ c \in InFlight(frame[c].run)
    BY <1>4 DEF CallsOK, Invoke, InFlight
  <2>2. QED
    BY <1>4, <2>1 DEF TypeOK, Invoke
<1>5. CASE \E violates \in BOOLEAN : Commit(c, violates)
  <2>1. /\ UNCHANGED <<status, plan, requestedBy, approvals, approvedBy, effects>>
        /\ \/ pc' = [pc EXCEPT ![c] = "audit_violation"] /\ UNCHANGED frame
           \/ /\ pc' = [pc EXCEPT ![c] = "begin_step"]
              /\ frame' = [frame EXCEPT ![c].at = @ + 1]
    BY <1>5 DEF Commit
  <2>2. pc[c] \in Executing
    BY <1>5 DEF Commit
  <2>3. QED
    BY <2>1, <2>2 DEF TypeOK
<1>6. CASE CommitThrows(c)
  BY <1>6 DEF TypeOK, CommitThrows
<1>7. CASE Caught(c)
  BY <1>7 DEF TypeOK, Caught
<1>8. CASE AuditViolation(c)
  <2>1. CASE pc' = [pc EXCEPT ![c] = "caught"] /\ UNCHANGED frame
    BY <1>8, <2>1 DEF TypeOK, AuditViolation
  <2>2. CASE /\ pc' = [pc EXCEPT ![c] = "finish"]
             /\ frame' = [frame EXCEPT ![c].outcome = "refused"]
    BY <1>8, <2>2 DEF TypeOK, AuditViolation
  <2>3. QED
    BY <1>8, <2>1, <2>2 DEF AuditViolation
<1>9. CASE RefuseScope(c) \/ Finish(c) \/ Cancel(c) \/ Abandon(c)
  <2>1. /\ UNCHANGED <<plan, requestedBy, approvals, approvedBy, effects>>
        /\ pc' = [pc EXCEPT ![c] = "idle"]
        /\ frame' = [frame EXCEPT ![c] = NoFrame]
    BY <1>9 DEF RefuseScope, Finish, Cancel, Abandon
  <2>2. \/ status' = status
        \/ status' = [status EXCEPT ![frame[c].run] = "refused"]
        \/ status' = [status EXCEPT ![frame[c].run] = frame[c].outcome]
        \/ status' = [status EXCEPT ![frame[c].run] = "cancelled"]
    BY <1>9 DEF RefuseScope, Finish, FinalStatus, Cancel, Abandon
  <2>3. frame[c].outcome \notin {"planned", "approved", "absent"}
    BY DEF TypeOK
  <2>4. QED
    BY <2>1, <2>2, <2>3 DEF TypeOK
<1>10. QED
  BY <1>1, <1>2, <1>3, <1>4, <1>5, <1>6, <1>7, <1>8, <1>9 DEF Advance

LEMMA NextConsent ==
    TypeOK /\ CallsOK /\ ConsentOK /\ [Next]_vars => ConsentOK'
<1> SUFFICES ASSUME TypeOK, CallsOK, ConsentOK, [Next]_vars
             PROVE  ConsentOK'
  OBVIOUS
<1>1. CASE Plan
  BY <1>1, ConsentCreatePlan DEF Plan
<1>2. CASE \E r \in Runs : RepositoryChanges(r)
  BY <1>2, ConsentFrame DEF RepositoryChanges
<1>3. CASE \E c \in Calls : Request(c)
  BY <1>3, ConsentLoad
<1>4. CASE \E c \in Calls : Decide(c)
  BY <1>4, ConsentDecide
<1>5. CASE \E c \in Calls : (Advance(c) \/ Abandon(c)) /\ ~Decide(c)
  BY <1>5, AdvanceFrame, ConsentFrame
<1>6. CASE UNCHANGED vars
  BY <1>6, ConsentFrame DEF vars
<1>7. QED
  BY <1>1, <1>2, <1>3, <1>4, <1>5, <1>6 DEF Next

LEMMA ConsentSuffices ==
    TypeOK /\ CallsOK /\ ConsentOK => ApprovalBeforeEffect /\ ContextNamesAnApprover
<1> SUFFICES ASSUME TypeOK, CallsOK, ConsentOK
             PROVE  ApprovalBeforeEffect /\ ContextNamesAnApprover
  OBVIOUS
<1>1. \A r \in Runs : \A u \in ApproversOf(r) : u # requestedBy[r]
  BY DEF ConsentOK, ApproversOf
<1>2. ApprovalBeforeEffect
  BY <1>1 DEF ConsentOK, ApprovalBeforeEffect
<1>3. ContextNamesAnApprover
  BY <1>1 DEF CallsOK, ConsentOK, ContextNamesAnApprover
<1>4. QED
  BY <1>2, <1>3

\* Nothing a run that needs approval does to the outside world happens before
\* somebody other than its requester has approved it (approveRun, executeRun).
THEOREM EffectsAreApproved == Spec => []ApprovalBeforeEffect
<1>1. Init => TypeOK /\ CallsOK /\ ConsentOK
  BY InitType, InitConsent
<1>2. TypeOK /\ CallsOK /\ ConsentOK /\ [Next]_vars
          => (TypeOK /\ CallsOK /\ ConsentOK)'
  BY NextType, NextConsent
<1>3. QED
  BY <1>1, <1>2, ConsentSuffices, PTL DEF Spec

\* The approver a capability is told about is a person who approved the run
\* and did not request it (the CapabilityContext executeRun builds).
THEOREM ContextIsTruthful == Spec => []ContextNamesAnApprover
<1>1. Init => TypeOK /\ CallsOK /\ ConsentOK
  BY InitType, InitConsent
<1>2. TypeOK /\ CallsOK /\ ConsentOK /\ [Next]_vars
          => (TypeOK /\ CallsOK /\ ConsentOK)'
  BY NextType, NextConsent
<1>3. QED
  BY <1>1, <1>2, ConsentSuffices, PTL DEF Spec

-----------------------------------------------------------------------------
(***************************************************************************)
(* Order of effects.  A call past a step has recorded it, so it invokes a  *)
(* step only when all earlier ones were recorded, by itself if by no other.*)
(***************************************************************************)
OrderOK ==
    /\ EffectsInOrder
    /\ \A c \in Calls :
          pc[c] \in Stepping \ {"finish"} =>
              \A i \in StepsOf(frame[c].run) :
                  i < frame[c].at => <<frame[c].run, i>> \in recorded

LEMMA InitOrder == Init => OrderOK
  BY DEF Init, OrderOK, EffectsInOrder

LEMMA OrderCreatePlan ==
    ASSUME TypeOK, CallsOK, OrderOK,
           NEW r \in Runs, NEW u \in Requesters, NEW p \in Plans,
           NEW t \in Tolerance, NEW scoped \in BOOLEAN,
           CreatePlan(r, u, p, t, scoped)
    PROVE  OrderOK'
<1>1. /\ UNCHANGED <<pc, frame, recorded>>
      /\ \A c \in Calls : pc[c] # "idle" => frame[c].run # r /\ frame[c].run \in Runs
      /\ \A i \in StepsOf(r)' : effects'[r][i] = 0
      /\ \A q \in Runs : q # r => plan'[q] = plan[q] /\ effects'[q] = effects[q]
  BY DEF TypeOK, CallsOK, CreatePlan
<1>2. EffectsInOrder'
  <2> SUFFICES ASSUME NEW q \in Runs,
                      NEW i \in StepsOf(q)', NEW j \in StepsOf(q)',
                      i < j, effects'[q][j] > 0
               PROVE  <<q, i>> \in recorded'
    BY DEF EffectsInOrder
  <2>1. q # r
    BY <1>1
  <2>2. QED
    BY <1>1, <2>1 DEF OrderOK, EffectsInOrder
<1>3. QED
  BY <1>1, <1>2 DEF OrderOK

\* What every other step does to the order: nothing is unrecorded, only Invoke
\* adds an effect, and only Start and Commit move a call to another step.
LEMMA OrderFrame ==
    ASSUME OrderOK, UNCHANGED <<plan, effects>>, recorded \subseteq recorded',
           \A c \in Calls : pc'[c] \in Stepping \ {"finish"} =>
               /\ pc[c] \in Stepping \ {"finish"}
               /\ frame'[c].run = frame[c].run
               /\ frame'[c].at = frame[c].at
    PROVE  OrderOK'
  BY DEF OrderOK, EffectsInOrder

LEMMA OrderStart ==
    ASSUME TypeOK, CallsOK, OrderOK, NEW c \in Calls, Start(c)
    PROVE  OrderOK'
<1>1. EffectsInOrder'
  BY DEF OrderOK, EffectsInOrder, Start
<1>2. frame'[c].at = 1 /\ frame'[c].run = frame[c].run /\ frame[c].run \in Runs
  BY DEF TypeOK, CallsOK, Start
<1>3. \A i \in StepsOf(frame[c].run) : i \in Nat \ {0}
  <2>1. plan[frame[c].run] \in Seq(StepKind)
    BY <1>2, PlansAssumption DEF TypeOK
  <2>2. QED
    BY <2>1
<1>4. \A d \in Calls : d # c => pc'[d] = pc[d] /\ frame'[d] = frame[d]
  BY DEF TypeOK, Start
<1>5. UNCHANGED <<plan, recorded>>
  BY DEF Start
<1>6. \A i \in StepsOf(frame[c].run) : ~(i < 1)
  BY <1>3
<1>7. QED
  BY <1>1, <1>2, <1>4, <1>5, <1>6 DEF OrderOK

LEMMA OrderInvoke ==
    ASSUME TypeOK, CallsOK, OrderOK, NEW c \in Calls, Invoke(c)
    PROVE  OrderOK'
<1>1. /\ frame[c].run \in Runs
      /\ \A i \in StepsOf(frame[c].run) :
             i < frame[c].at => <<frame[c].run, i>> \in recorded
  BY DEF CallsOK, OrderOK, Invoke
<1>2. EffectsInOrder'
  <2> SUFFICES ASSUME NEW q \in Runs, NEW i \in StepsOf(q), NEW j \in StepsOf(q),
                      i < j, effects'[q][j] > 0
               PROVE  <<q, i>> \in recorded
    BY DEF EffectsInOrder, Invoke
  <2>1. CASE q = frame[c].run /\ j = frame[c].at
    BY <1>1, <2>1
  <2>2. CASE ~(q = frame[c].run /\ j = frame[c].at)
    <3>1. effects'[q][j] = effects[q][j]
      BY <2>2 DEF TypeOK, Invoke
    <3>2. QED
      BY <3>1 DEF OrderOK, EffectsInOrder
  <2>3. QED
    BY <2>1, <2>2
<1>3. \A d \in Calls : pc'[d] \in Stepping \ {"finish"} => pc[d] \in Stepping \ {"finish"}
  BY DEF TypeOK, Invoke
<1>4. QED
  BY <1>2, <1>3 DEF OrderOK, Invoke

LEMMA OrderCommit ==
    ASSUME TypeOK, CallsOK, OrderOK,
           NEW c \in Calls, NEW violates \in BOOLEAN, Commit(c, violates)
    PROVE  OrderOK'
<1>1. /\ recorded' = recorded \cup {<<frame[c].run, frame[c].at>>}
      /\ UNCHANGED <<plan, effects>>
      /\ \/ pc' = [pc EXCEPT ![c] = "audit_violation"] /\ UNCHANGED frame
         \/ /\ pc' = [pc EXCEPT ![c] = "begin_step"]
            /\ frame' = [frame EXCEPT ![c].at = @ + 1]
  BY DEF Commit
<1>2. /\ frame[c].run \in Runs
      /\ frame[c].at \in Nat
      /\ StepsOf(frame[c].run) \subseteq Nat
      /\ \A i \in StepsOf(frame[c].run) :
             i < frame[c].at => <<frame[c].run, i>> \in recorded
  BY StepsAreNaturals DEF TypeOK, CallsOK, OrderOK, Commit
<1>3. EffectsInOrder'
  BY <1>1 DEF OrderOK, EffectsInOrder
<1>4. \A d \in Calls : d # c => pc'[d] = pc[d] /\ frame'[d] = frame[d]
  BY <1>1 DEF TypeOK
<1>5. /\ frame'[c].run = frame[c].run
      /\ frame'[c].at \in {frame[c].at, frame[c].at + 1}
  BY <1>1 DEF TypeOK
<1>6. \A i \in StepsOf(frame[c].run) :
          i < frame'[c].at => <<frame[c].run, i>> \in recorded'
  BY <1>1, <1>2, <1>5
<1>7. QED
  BY <1>1, <1>3, <1>4, <1>5, <1>6 DEF OrderOK

LEMMA NextOrder ==
    TypeOK /\ CallsOK /\ OrderOK /\ [Next]_vars => OrderOK'
<1> SUFFICES ASSUME TypeOK, CallsOK, OrderOK, [Next]_vars
             PROVE  OrderOK'
  OBVIOUS
<1>1. CASE Plan
  BY <1>1, OrderCreatePlan DEF Plan
<1>2. CASE \E r \in Runs : RepositoryChanges(r)
  BY <1>2, OrderFrame DEF RepositoryChanges
<1>3. ASSUME NEW c \in Calls, Request(c)
      PROVE  OrderOK'
  <2>1. /\ UNCHANGED <<plan, effects, recorded>>
        /\ \A d \in Calls : d # c => pc'[d] = pc[d] /\ frame'[d] = frame[d]
        /\ pc'[c] \in {"decide", "check_scope", "cancel"}
    BY <1>3 DEF TypeOK, Request, Load, LoadForApproval, LoadForExecution,
       LoadForCancel
  <2>2. QED
    BY <2>1, OrderFrame
<1>4. ASSUME NEW c \in Calls, Advance(c)
      PROVE  OrderOK'
  <2>1. CASE Start(c)
    BY <2>1, OrderStart
  <2>2. CASE Invoke(c)
    BY <2>2, OrderInvoke
  <2>3. CASE \E violates \in BOOLEAN : Commit(c, violates)
    BY <2>3, OrderCommit
  <2>4. CASE CheckScope(c) \/ RefuseScope(c)
    <3>1. /\ UNCHANGED <<plan, effects, recorded>>
          /\ \A d \in Calls : d # c => pc'[d] = pc[d] /\ frame'[d] = frame[d]
          /\ pc'[c] \in {"start", "refuse_scope", "idle"}
      BY <2>4 DEF TypeOK, CheckScope, AfterScope, RefuseScope
    <3>2. QED
      BY <3>1, OrderFrame
  <2>5. CASE BeginStep(c) \/ UnknownCapability(c)
    BY <2>5, OrderFrame DEF TypeOK, BeginStep, UnknownCapability
  <2>6. CASE CommitThrows(c) \/ Caught(c)
    BY <2>6, OrderFrame DEF TypeOK, CommitThrows, Caught
  <2>7. CASE AuditViolation(c)
    BY <2>7, OrderFrame DEF TypeOK, AuditViolation
  <2>8. CASE Decide(c) \/ Finish(c) \/ Cancel(c)
    BY <2>8, OrderFrame DEF TypeOK, Decide, Finish, Cancel
  <2>9. QED
    BY <1>4, <2>1, <2>2, <2>3, <2>4, <2>5, <2>6, <2>7, <2>8 DEF Advance
<1>5. ASSUME NEW c \in Calls, Abandon(c)
      PROVE  OrderOK'
  BY <1>5, OrderFrame DEF TypeOK, Abandon
<1>6. CASE UNCHANGED vars
  BY <1>6, OrderFrame DEF vars
<1>7. QED
  BY <1>1, <1>2, <1>3, <1>4, <1>5, <1>6 DEF Next

\* A step has an effect only after every earlier step was recorded as
\* succeeded (the serial loop of executeRun), however many calls overlap.
THEOREM StepsInOrder == Spec => []EffectsInOrder
<1>1. Init => TypeOK /\ CallsOK /\ OrderOK
  BY InitType, InitOrder
<1>2. TypeOK /\ CallsOK /\ OrderOK /\ [Next]_vars
          => (TypeOK /\ CallsOK /\ OrderOK)'
  BY NextType, NextOrder
<1>3. OrderOK => EffectsInOrder
  BY DEF OrderOK
<1>4. QED
  BY <1>1, <1>2, <1>3, PTL DEF Spec

-----------------------------------------------------------------------------
(***************************************************************************)
(* The declared scope.  A run that never resolved inside its scope never   *)
(* gets a call past checkScope, and only calls past it write steps, have   *)
(* effects or report a run as started.                                     *)
(***************************************************************************)
ScopeOK ==
    /\ OutOfScopeUntouched
    /\ \A r \in Runs \ everInScope :
          /\ ~inScope[r]
          /\ \A c \in Calls : frame[c].run = r => pc[c] \notin {"start"} \cup Stepping

LEMMA InitScope == Init => ScopeOK
  BY DEF Init, ScopeOK, OutOfScopeUntouched

LEMMA ScopeCreatePlan ==
    ASSUME TypeOK, CallsOK, ScopeOK,
           NEW r \in Runs, NEW u \in Requesters, NEW p \in Plans,
           NEW t \in Tolerance, NEW scoped \in BOOLEAN,
           CreatePlan(r, u, p, t, scoped)
    PROVE  ScopeOK'
<1>1. /\ status'[r] \in {"planned", "awaiting_approval"}
      /\ inScope'[r] = scoped
      /\ scoped => r \in everInScope'
      /\ everInScope \subseteq everInScope'
      /\ StepsOf(r)' = DOMAIN p
      /\ \A i \in DOMAIN p : steps'[r][i] = "planned" /\ effects'[r][i] = 0
      /\ UNCHANGED <<pc, frame>>
  BY DEF TypeOK, CreatePlan, StepRows
<1>2. \A q \in Runs : q # r =>
          /\ UNCHANGED <<status[q], inScope[q], steps[q], effects[q], plan[q]>>
          /\ q \in everInScope' => q \in everInScope
  BY DEF TypeOK, CreatePlan
<1>3. \A c \in Calls : frame[c].run = r => pc[c] = "idle"
  BY DEF CallsOK, CreatePlan
<1>4. OutOfScopeUntouched'
  BY <1>1, <1>2 DEF ScopeOK, OutOfScopeUntouched
<1>5. \A q \in Runs \ everInScope' :
          /\ ~inScope'[q]
          /\ \A c \in Calls : frame'[c].run = q => pc'[c] \notin {"start"} \cup Stepping
  BY <1>1, <1>2, <1>3 DEF ScopeOK
<1>6. QED
  BY <1>4, <1>5 DEF ScopeOK

LEMMA ScopeRepositoryChanges ==
    ASSUME TypeOK, ScopeOK, NEW r \in Runs, RepositoryChanges(r)
    PROVE  ScopeOK'
<1>1. /\ everInScope' = everInScope \cup {r}
      /\ UNCHANGED <<status, plan, steps, effects, pc, frame>>
      /\ \A q \in Runs : q # r => inScope'[q] = inScope[q]
  BY DEF TypeOK, RepositoryChanges
<1>2. QED
  BY <1>1 DEF ScopeOK, OutOfScopeUntouched

LEMMA ScopeRequest ==
    ASSUME TypeOK, ScopeOK, NEW c \in Calls, Request(c)
    PROVE  ScopeOK'
<1>1. /\ UNCHANGED <<status, plan, steps, effects, inScope, everInScope>>
      /\ \A d \in Calls : d # c => pc'[d] = pc[d] /\ frame'[d] = frame[d]
      /\ pc'[c] \in {"decide", "check_scope", "cancel"}
  BY DEF TypeOK, Request, Load, LoadForApproval, LoadForExecution, LoadForCancel
<1>2. QED
  BY <1>1 DEF ScopeOK, OutOfScopeUntouched

\* What a call does, it does to the run it loaded.
LEMMA OnlyItsRun ==
    ASSUME TypeOK, CallsOK, NEW c \in Calls, Advance(c) \/ Abandon(c)
    PROVE  /\ UNCHANGED <<plan, tolerance, inScope, everInScope, overlapped>>
           /\ \A q \in Runs : q # frame[c].run =>
                  /\ UNCHANGED <<status[q], steps[q], effects[q]>>
                  /\ \A i : <<q, i>> \in violated' <=> <<q, i>> \in violated
           /\ \A d \in Calls : d # c => UNCHANGED <<pc[d], frame[d]>>
           /\ frame'[c].run = frame[c].run \/ pc'[c] = "idle"
<1>1. CASE Decide(c) \/ RefuseScope(c) \/ Finish(c) \/ Cancel(c)
  BY <1>1 DEF TypeOK, Decide, RefuseScope, Finish, Cancel
<1>2. CASE CheckScope(c) \/ Start(c)
  BY <1>2 DEF TypeOK, CheckScope, Start
<1>3. CASE BeginStep(c) \/ UnknownCapability(c)
  BY <1>3 DEF TypeOK, BeginStep, UnknownCapability
<1>4. CASE Invoke(c)
  BY <1>4 DEF TypeOK, Invoke
<1>5. CASE \E violates \in BOOLEAN : Commit(c, violates)
  <2>1. /\ UNCHANGED <<plan, tolerance, inScope, everInScope, overlapped, status, effects>>
        /\ steps' = [steps EXCEPT ![frame[c].run][frame[c].at] = "succeeded"]
        /\ \/ violated' = violated \cup {<<frame[c].run, frame[c].at>>}
           \/ violated' = violated \ {<<frame[c].run, frame[c].at>>}
        /\ \/ pc' = [pc EXCEPT ![c] = "audit_violation"] /\ UNCHANGED frame
           \/ /\ pc' = [pc EXCEPT ![c] = "begin_step"]
              /\ frame' = [frame EXCEPT ![c].at = @ + 1]
    BY <1>5 DEF Commit
  <2>2. \A q \in Runs : q # frame[c].run =>
            /\ steps'[q] = steps[q]
            /\ \A i : <<q, i>> \in violated' <=> <<q, i>> \in violated
    BY <2>1 DEF TypeOK
  <2>3. /\ \A d \in Calls : d # c => UNCHANGED <<pc[d], frame[d]>>
        /\ frame'[c].run = frame[c].run
    BY <2>1 DEF TypeOK
  <2>4. QED
    BY <2>1, <2>2, <2>3
<1>6. CASE CommitThrows(c) \/ Caught(c)
  BY <1>6 DEF TypeOK, CommitThrows, Caught
<1>7. CASE AuditViolation(c)
  <2>1. UNCHANGED <<plan, tolerance, inScope, everInScope, overlapped, status,
                    steps, effects, violated>>
    BY <1>7 DEF AuditViolation
  <2>2. CASE pc' = [pc EXCEPT ![c] = "caught"] /\ UNCHANGED frame
    BY <2>1, <2>2 DEF TypeOK
  <2>3. CASE /\ pc' = [pc EXCEPT ![c] = "finish"]
             /\ frame' = [frame EXCEPT ![c].outcome = "refused"]
    BY <2>1, <2>3 DEF TypeOK
  <2>4. QED
    BY <1>7, <2>2, <2>3 DEF AuditViolation
<1>8. CASE Abandon(c)
  BY <1>8 DEF TypeOK, Abandon
<1>9. QED
  BY <1>1, <1>2, <1>3, <1>4, <1>5, <1>6, <1>7, <1>8 DEF Advance

\* A call whose run was never in scope decides, refuses, cancels or gives up.
LEMMA ScopeCall ==
    ASSUME TypeOK, CallsOK, ScopeOK, NEW c \in Calls, Advance(c) \/ Abandon(c)
    PROVE  ScopeOK'
<1>1. /\ UNCHANGED <<plan, inScope, everInScope>>
      /\ \A q \in Runs : q # frame[c].run => UNCHANGED <<status[q], steps[q], effects[q]>>
      /\ \A d \in Calls : d # c => UNCHANGED <<pc[d], frame[d]>>
      /\ frame'[c].run = frame[c].run \/ pc'[c] = "idle"
  BY OnlyItsRun
<1>2. ASSUME frame[c].run \in Runs \ everInScope
      PROVE  /\ UNCHANGED <<steps, effects>>
             /\ \/ status' = status
                \/ status'[frame[c].run] \notin {"running", "completed", "failed"}
             /\ pc'[c] \notin {"start"} \cup Stepping
  <2>1. pc[c] \notin {"start"} \cup Stepping /\ ~inScope[frame[c].run]
    BY <1>2 DEF ScopeOK
  <2>2. Decide(c) \/ CheckScope(c) \/ RefuseScope(c) \/ Cancel(c) \/ Abandon(c)
    BY <2>1 DEF Advance, Start, BeginStep, UnknownCapability, Invoke, Commit,
       CommitThrows, AuditViolation, Caught, Finish
  <2>3. CASE Decide(c)
    BY <1>2, <2>3 DEF TypeOK, CallsOK, Decide
  <2>4. CASE CheckScope(c)
    BY <2>1, <2>4 DEF TypeOK, CheckScope, AfterScope
  <2>5. CASE RefuseScope(c) \/ Cancel(c) \/ Abandon(c)
    BY <1>2, <2>5 DEF TypeOK, RefuseScope, Cancel, Abandon
  <2>6. QED
    BY <2>2, <2>3, <2>4, <2>5
<1>3. OutOfScopeUntouched'
  BY <1>1, <1>2 DEF ScopeOK, OutOfScopeUntouched
<1>4. \A q \in Runs \ everInScope' : \A d \in Calls :
          frame'[d].run = q => pc'[d] \notin {"start"} \cup Stepping
  BY <1>1, <1>2 DEF ScopeOK
<1>5. QED
  BY <1>1, <1>3, <1>4 DEF ScopeOK

LEMMA NextScope ==
    TypeOK /\ CallsOK /\ ScopeOK /\ [Next]_vars => ScopeOK'
<1> SUFFICES ASSUME TypeOK, CallsOK, ScopeOK, [Next]_vars
             PROVE  ScopeOK'
  OBVIOUS
<1>1. CASE Plan
  BY <1>1, ScopeCreatePlan DEF Plan
<1>2. CASE \E r \in Runs : RepositoryChanges(r)
  BY <1>2, ScopeRepositoryChanges
<1>3. CASE \E c \in Calls : Request(c) \/ Advance(c) \/ Abandon(c)
  BY <1>3, ScopeRequest, ScopeCall
<1>4. CASE UNCHANGED vars
  BY <1>4 DEF ScopeOK, OutOfScopeUntouched, vars
<1>5. QED
  BY <1>1, <1>2, <1>3, <1>4 DEF Next

\* A run that never resolved inside its declared scope is refused before any
\* side effect and never reported as started (checkScope in executeRun),
\* however the repositories change while calls are between two statements.
THEOREM TheUnscopedAreUntouched == Spec => []OutOfScopeUntouched
<1>1. Init => TypeOK /\ CallsOK /\ ScopeOK
  BY InitType, InitScope
<1>2. TypeOK /\ CallsOK /\ ScopeOK /\ [Next]_vars
          => (TypeOK /\ CallsOK /\ ScopeOK)'
  BY NextType, NextScope
<1>3. ScopeOK => OutOfScopeUntouched
  BY DEF ScopeOK
<1>4. QED
  BY <1>1, <1>2, <1>3, PTL DEF Spec

-----------------------------------------------------------------------------
(***************************************************************************)
(* Runs on which no two calls overlapped.  The one call in flight finds    *)
(* the row as its first statement did; the steps before the one it is at   *)
(* succeeded once, the later ones are untouched, and the step it is at is  *)
(* as far as the call's label says.                                        *)
(***************************************************************************)
Strict(r) == tolerance[r] # "permissive"

\* Steps that succeeded, had their effect at most once and broke no invariant
\* the run cares for; and steps nothing has happened to.
Succeeded(r, S) ==
    \A j \in S : /\ steps[r][j] = "succeeded"
                 /\ effects[r][j] <= 1
                 /\ Strict(r) => <<r, j>> \notin violated

Untouched(r, S) ==
    \A j \in S : /\ steps[r][j] = "planned"
                 /\ effects[r][j] = 0
                 /\ <<r, j>> \notin violated

Before(r, k) == {j \in StepsOf(r) : j < k}
After(r, k)  == {j \in StepsOf(r) : j > k}

\* The run is at step k: all before it succeeded, none after it has begun.
ReachedStep(r, k) ==
    /\ k \in StepsOf(r)
    /\ Succeeded(r, Before(r, k))
    /\ Untouched(r, After(r, k))
    /\ effects[r][k] <= 1

\* Where the run stands when it stopped at a failed step, or at one that broke
\* an invariant.
FailedAt(r, k) == ReachedStep(r, k) /\ steps[r][k] = "failed"

RefusedAt(r, k) ==
    /\ ReachedStep(r, k)
    /\ steps[r][k] = "succeeded"
    /\ Strict(r)
    /\ <<r, k>> \in violated

\* What the label of a call c says of its run r.
AtLabel(c, r) ==
    LET k == frame[c].at
    IN  /\ pc[c] = "decide" => status[r] = "awaiting_approval"
        /\ pc[c] = "cancel" => status[r] \notin {"completed", "failed", "cancelled"}
        /\ pc[c] \in Preflight => status[r] \in {"planned", "approved"}
        /\ pc[c] \in Stepping => status[r] = "running"
        /\ pc[c] \in {"begin_step", "invoke", "commit", "audit_violation"} =>
              frame[c].outcome = "completed"
        /\ pc[c] = "begin_step" =>
              /\ k >= 1
              /\ Succeeded(r, Before(r, k))
              /\ Untouched(r, StepsOf(r) \ Before(r, k))
        /\ pc[c] = "invoke" => /\ ReachedStep(r, k)
                               /\ effects[r][k] = 0
                               /\ <<r, k>> \notin violated
        /\ pc[c] = "commit" => ReachedStep(r, k) /\ <<r, k>> \notin violated
        /\ pc[c] = "audit_violation" => RefusedAt(r, k)
        /\ pc[c] = "caught" => ReachedStep(r, k)
        /\ pc[c] = "finish" =>
              \/ frame[c].outcome = "failed" /\ FailedAt(r, k)
              \/ frame[c].outcome = "refused" /\ RefusedAt(r, k)

\* What the status of a run says of its steps.
AtStatus(r) ==
    /\ status[r] \in {"absent", "planned", "awaiting_approval", "approved", "rejected"} =>
          Untouched(r, StepsOf(r))
    /\ status[r] = "absent" => \A v \in violated : v[1] # r
    /\ status[r] = "completed" => Succeeded(r, StepsOf(r))
    /\ status[r] = "failed" => \E k \in StepsOf(r) : FailedAt(r, k)
    /\ status[r] = "refused" =>
          \/ Untouched(r, StepsOf(r))
          \/ \E k \in StepsOf(r) : RefusedAt(r, k)

RowOK(r) == AtStatus(r) /\ \A i \in StepsOf(r) : effects[r][i] <= 1

SerialOK ==
    \A r \in Runs \ overlapped :
        /\ \A c, d \in InFlight(r) : c = d
        /\ \A c \in InFlight(r) : AtLabel(c, r)
        /\ RowOK(r)

LEMMA InitSerial == Init => SerialOK
<1> SUFFICES ASSUME Init
             PROVE  SerialOK
  OBVIOUS
<1>1. \A r \in Runs : StepsOf(r) = {} /\ InFlight(r) = {}
  BY DEF Init, InFlight
<1>2. \A r \in Runs : AtStatus(r)
  BY <1>1 DEF Init, AtStatus, Untouched
<1>3. QED
  BY <1>1, <1>2 DEF SerialOK, RowOK

\* Steps are numbered from one without a gap.
LEMMA StepsFromOne ==
    ASSUME TypeOK, NEW r \in Runs
    PROVE  \A j, k \in StepsOf(r) \cup Nat :
               (j \in StepsOf(r) /\ k \notin StepsOf(r) /\ k >= 1) => j < k
<1>0. <<>> \in Seq(StepKind)
  OBVIOUS
<1>1. plan[r] \in Seq(StepKind)
  BY <1>0, PlansAssumption DEF TypeOK
<1>2. StepsOf(r) = 1 .. Len(plan[r]) /\ Len(plan[r]) \in Nat
  BY <1>1
<1>3. QED
  BY <1>2

\* What an invariant says of a run stays as long as neither the run nor the
\* calls on it move.
LEMMA RowStays ==
    ASSUME NEW r \in Runs, RowOK(r),
           UNCHANGED <<status[r], steps[r], effects[r], plan[r], tolerance[r]>>,
           \A i : <<r, i>> \in violated' <=> <<r, i>> \in violated,
           status[r] = "absent" => \A v \in violated' : v[1] # r
    PROVE  RowOK(r)'
  BY DEF RowOK, AtStatus, Untouched, Succeeded, FailedAt, RefusedAt, ReachedStep,
         Before, After, Strict

LEMMA LabelStays ==
    ASSUME NEW r \in Runs, NEW c \in Calls, AtLabel(c, r),
           UNCHANGED <<status[r], steps[r], effects[r], plan[r], tolerance[r]>>,
           UNCHANGED <<pc[c], frame[c]>>,
           \A i : <<r, i>> \in violated' <=> <<r, i>> \in violated
    PROVE  AtLabel(c, r)'
  BY DEF AtLabel, Untouched, Succeeded, FailedAt, RefusedAt, ReachedStep,
         Before, After, Strict

LEMMA SerialCreatePlan ==
    ASSUME TypeOK, CallsOK, SerialOK,
           NEW r \in Runs, NEW u \in Requesters, NEW p \in Plans,
           NEW t \in Tolerance, NEW scoped \in BOOLEAN,
           CreatePlan(r, u, p, t, scoped)
    PROVE  SerialOK'
<1>1. /\ status'[r] \in {"planned", "awaiting_approval"}
      /\ StepsOf(r)' = DOMAIN p
      /\ \A i \in DOMAIN p : steps'[r][i] = "planned" /\ effects'[r][i] = 0
      /\ UNCHANGED <<pc, frame, violated, overlapped>>
      /\ status[r] = "absent"
  BY DEF TypeOK, CreatePlan, StepRows
<1>2. \A q \in Runs : q # r =>
          UNCHANGED <<status[q], steps[q], effects[q], plan[q], tolerance[q]>>
  BY DEF TypeOK, CreatePlan
<1>3. InFlight(r) = {} /\ \A q \in Runs : InFlight(q)' = InFlight(q)
  BY <1>1 DEF CallsOK, InFlight
<1>4. ASSUME NEW q \in Runs \ overlapped, q # r
      PROVE  RowOK(q)' /\ \A c \in InFlight(q) : AtLabel(c, q)'
  <2>1. RowOK(q) /\ \A c \in InFlight(q) : AtLabel(c, q)
    BY DEF SerialOK
  <2>2. \A v \in violated' : v \in violated
    BY <1>1
  <2>3. status[q] = "absent" => \A v \in violated' : v[1] # q
    BY <2>1, <2>2 DEF RowOK, AtStatus
  <2>4. RowOK(q)'
    BY <1>1, <1>2, <1>4, <2>1, <2>3, RowStays
  <2>5. \A c \in InFlight(q) : AtLabel(c, q)'
    <3> TAKE c \in InFlight(q)
    <3>1. c \in Calls
      BY DEF InFlight
    <3>2. QED
      BY <1>1, <1>2, <1>4, <2>1, <3>1, LabelStays
  <2>6. QED
    BY <2>4, <2>5
<1>5. ASSUME r \notin overlapped
      PROVE  RowOK(r)'
  <2>1. \A v \in violated : v[1] # r
    BY <1>1, <1>5 DEF SerialOK, RowOK, AtStatus
  <2>2. \A i : <<r, i>> \notin violated
    BY <2>1
  <2>3. Untouched(r, StepsOf(r))'
    BY <1>1, <2>2 DEF Untouched
  <2>4. AtStatus(r)'
    BY <1>1, <2>3 DEF AtStatus
  <2>5. QED
    BY <1>1, <2>4 DEF RowOK
<1>6. \A q \in Runs \ overlapped' : \A c, d \in InFlight(q)' : c = d
  BY <1>1, <1>3 DEF SerialOK
<1>7. QED
  BY <1>1, <1>3, <1>4, <1>5, <1>6 DEF SerialOK

\* The first statement of a call: it finds the run as it is, and unless the
\* run becomes overlapped the call is alone on it.
LEMMA SerialRequest ==
    ASSUME TypeOK, CallsOK, SerialOK, NEW c \in Calls, Request(c)
    PROVE  SerialOK'
<1>1. PICK r \in Runs, f \in Frame, label \in {"decide", "check_scope", "cancel"} :
          /\ Load(c, f, label)
          /\ f.run = r
          /\ label = "decide" => status[r] = "awaiting_approval"
          /\ label = "check_scope" => status[r] \in {"planned", "approved"}
          /\ label = "cancel" => status[r] \notin {"completed", "failed", "cancelled"}
  <2>1. PICK r \in Runs :
           \/ \E u \in Approvers, d \in {"approved", "rejected"} :
                 LoadForApproval(c, u, r, d)
           \/ LoadForExecution(c, r)
           \/ LoadForCancel(c, r)
    BY DEF Request
  <2>2. CASE \E u \in Approvers, d \in {"approved", "rejected"} :
                 LoadForApproval(c, u, r, d)
    <3>1. PICK u \in Approvers, d \in {"approved", "rejected"} :
              LoadForApproval(c, u, r, d)
      BY <2>2
    <3>2. [NoFrame EXCEPT !.run = r, !.user = u, !.decision = d] \in Frame
      OBVIOUS
    <3>3. [NoFrame EXCEPT !.run = r, !.user = u, !.decision = d].run = r
      OBVIOUS
    <3>4. QED
      BY <3>1, <3>2, <3>3 DEF LoadForApproval, MayDecide
  <2>3. CASE LoadForExecution(c, r)
    <3>1. [NoFrame EXCEPT !.run = r, !.approver = approvedBy[r]] \in Frame
      BY DEF TypeOK
    <3>2. [NoFrame EXCEPT !.run = r, !.approver = approvedBy[r]].run = r
      OBVIOUS
    <3>3. QED
      BY <2>3, <3>1, <3>2 DEF LoadForExecution, MayExecute
  <2>4. CASE LoadForCancel(c, r)
    <3>1. [NoFrame EXCEPT !.run = r] \in Frame
      OBVIOUS
    <3>2. [NoFrame EXCEPT !.run = r].run = r
      OBVIOUS
    <3>3. QED
      BY <2>4, <3>1, <3>2 DEF LoadForCancel
  <2>5. QED
    BY <2>1, <2>2, <2>3, <2>4
<1>2. /\ pc[c] = "idle"
      /\ pc'[c] = label /\ frame'[c] = f
      /\ \A d \in Calls : d # c => UNCHANGED <<pc[d], frame[d]>>
      /\ overlapped \subseteq overlapped'
      /\ r \notin overlapped' => InFlight(r) = {}
      /\ UNCHANGED <<status, steps, effects, plan, tolerance, violated>>
  BY <1>1 DEF TypeOK, Load
<1>3. \A q \in Runs : \A d \in InFlight(q)' :
          \/ d \in InFlight(q) /\ d # c
          \/ d = c /\ q = r
  BY <1>1, <1>2 DEF InFlight
<1>4. ASSUME NEW q \in Runs \ overlapped'
      PROVE  /\ \A d, e \in InFlight(q)' : d = e
             /\ \A d \in InFlight(q)' : AtLabel(d, q)'
             /\ RowOK(q)'
  <2>1. /\ RowOK(q)
        /\ \A d, e \in InFlight(q) : d = e
        /\ \A d \in InFlight(q) : AtLabel(d, q)
    BY <1>2 DEF SerialOK
  <2>2. \A v \in violated' : v \in violated
    BY <1>2
  <2>3. RowOK(q)'
    BY <1>2, <2>1, <2>2, RowStays DEF RowOK, AtStatus
  <2>4. \A d, e \in InFlight(q)' : d = e
    BY <1>2, <1>3, <2>1
  <2>5. ASSUME NEW d \in InFlight(q)', d # c
        PROVE  AtLabel(d, q)'
    BY <1>2, <1>3, <2>1, <2>5, LabelStays DEF InFlight
  <2>6. ASSUME c \in InFlight(q)'
        PROVE  AtLabel(c, q)'
    <3>1. q = r
      BY <1>1, <1>2, <2>6 DEF InFlight
    <3>2. /\ pc'[c] \in {"decide", "check_scope", "cancel"}
          /\ pc'[c] = "decide" => status'[q] = "awaiting_approval"
          /\ pc'[c] = "check_scope" => status'[q] \in {"planned", "approved"}
          /\ pc'[c] = "cancel" => status'[q] \notin {"completed", "failed", "cancelled"}
      BY <1>1, <1>2, <3>1
    <3>3. QED
      BY <3>2 DEF AtLabel
  <2>7. QED
    BY <2>3, <2>4, <2>5, <2>6
<1>5. QED
  BY <1>4 DEF SerialOK

-----------------------------------------------------------------------------
\* What a statement of a call leaves of its own run: the call's label holds
\* again unless the call is over, and so does what the status says.
Settles(c, r) == (pc'[c] # "idle" => AtLabel(c, r)') /\ RowOK(r)'

\* The run has reached step k whatever is written at step k.
LEMMA ReachedStays ==
    ASSUME NEW r \in Runs, NEW k \in StepsOf(r), ReachedStep(r, k),
           StepsOf(r) \subseteq Nat,
           UNCHANGED <<plan[r], tolerance[r]>>,
           \A j \in StepsOf(r) : j # k =>
               /\ UNCHANGED <<steps[r][j], effects[r][j]>>
               /\ <<r, j>> \in violated' <=> <<r, j>> \in violated,
           effects'[r][k] <= 1
    PROVE  ReachedStep(r, k)'
<1>1. /\ k \notin Before(r, k) /\ k \notin After(r, k)
      /\ Before(r, k)' = Before(r, k) /\ After(r, k)' = After(r, k)
      /\ StepsOf(r)' = StepsOf(r)
      /\ Strict(r)' = Strict(r)
      /\ \A j \in Before(r, k) \cup After(r, k) : j \in StepsOf(r)
  BY DEF Before, After, Strict
<1>2. Succeeded(r, Before(r, k))'
  BY <1>1 DEF ReachedStep, Succeeded
<1>3. Untouched(r, After(r, k))'
  BY <1>1 DEF ReachedStep, Untouched
<1>4. QED
  BY <1>1, <1>2, <1>3 DEF ReachedStep

\* While its status is running or cancelled a row owes its steps nothing but
\* single effects.
LEMMA RunningRow ==
    ASSUME NEW r \in Runs, status'[r] \in {"running", "cancelled"},
           \A i \in StepsOf(r)' : effects'[r][i] <= 1
    PROVE  RowOK(r)'
  BY DEF RowOK, AtStatus

LEMMA SettlesDecide ==
    ASSUME TypeOK, CallsOK, NEW c \in Calls, NEW r \in Runs, r = frame[c].run,
           AtLabel(c, r), RowOK(r), Decide(c)
    PROVE  Settles(c, r)
<1>1. /\ status[r] = "awaiting_approval"
      /\ status'[r] \in {"approved", "rejected"}
      /\ pc'[c] = "idle"
      /\ UNCHANGED <<steps, effects, plan, tolerance, violated>>
  BY DEF TypeOK, CallsOK, AtLabel, Decide
<1>2. Untouched(r, StepsOf(r))
  BY <1>1 DEF RowOK, AtStatus
<1>3. Untouched(r, StepsOf(r))'
  BY <1>1, <1>2 DEF Untouched
<1>4. QED
  BY <1>1, <1>3 DEF Settles, RowOK, AtStatus

LEMMA SettlesPreflight ==
    ASSUME TypeOK, CallsOK, NEW c \in Calls, NEW r \in Runs, r = frame[c].run,
           AtLabel(c, r), RowOK(r), CheckScope(c) \/ RefuseScope(c)
    PROVE  Settles(c, r)
<1>1. /\ status[r] \in {"planned", "approved"}
      /\ UNCHANGED <<steps, effects, plan, tolerance, violated>>
  BY DEF AtLabel, CheckScope, RefuseScope
<1>2. Untouched(r, StepsOf(r))
  BY <1>1 DEF RowOK, AtStatus
<1>3. Untouched(r, StepsOf(r))'
  BY <1>1, <1>2 DEF Untouched
<1>4. CASE CheckScope(c)
  <2>1. status' = status /\ pc'[c] \in {"start", "refuse_scope"}
    BY <1>4 DEF TypeOK, CheckScope, AfterScope
  <2>2. AtLabel(c, r)'
    BY <1>1, <2>1 DEF AtLabel
  <2>3. QED
    BY <1>1, <1>3, <2>1, <2>2 DEF Settles, RowOK, AtStatus
<1>5. CASE RefuseScope(c)
  <2>1. status'[r] = "refused" /\ pc'[c] = "idle"
    BY <1>5 DEF TypeOK, RefuseScope
  <2>2. QED
    BY <1>1, <1>3, <2>1 DEF Settles, RowOK, AtStatus
<1>6. QED
  BY <1>4, <1>5

LEMMA SettlesStart ==
    ASSUME TypeOK, CallsOK, NEW c \in Calls, NEW r \in Runs, r = frame[c].run,
           AtLabel(c, r), RowOK(r), Start(c)
    PROVE  Settles(c, r)
<1>1. /\ status[r] \in {"planned", "approved"}
      /\ status'[r] = "running"
      /\ pc'[c] = "begin_step"
      /\ frame'[c].at = 1 /\ frame'[c].outcome = "completed"
      /\ UNCHANGED <<steps, effects, plan, tolerance, violated>>
  BY DEF TypeOK, AtLabel, Start
<1>2. Untouched(r, StepsOf(r))
  BY <1>1 DEF RowOK, AtStatus
<1>3. Before(r, 1)' = {}
  <2>1. plan[r] \in Seq(StepKind)
    <3>1. <<>> \in Seq(StepKind)
      OBVIOUS
    <3>2. QED
      BY <3>1, PlansAssumption DEF TypeOK
  <2>2. StepsOf(r) = 1 .. Len(plan[r]) /\ Len(plan[r]) \in Nat
    BY <2>1
  <2>3. \A j \in StepsOf(r) : ~(j < 1)
    BY <2>2
  <2>4. QED
    BY <1>1, <2>3 DEF Before
<1>4. Untouched(r, StepsOf(r) \ Before(r, 1))'
  BY <1>1, <1>2 DEF Untouched
<1>5. Succeeded(r, Before(r, 1))'
  BY <1>3 DEF Succeeded
<1>6. AtLabel(c, r)'
  BY <1>1, <1>4, <1>5 DEF AtLabel
<1>7. RowOK(r)'
  BY <1>1, RunningRow DEF RowOK
<1>8. QED
  BY <1>6, <1>7 DEF Settles

\* From the head of the loop to the step: all that is left is untouched.
LEMMA StepIsReached ==
    ASSUME TypeOK, NEW r \in Runs, NEW k \in StepsOf(r),
           Succeeded(r, Before(r, k)), Untouched(r, StepsOf(r) \ Before(r, k))
    PROVE  /\ ReachedStep(r, k)
           /\ effects[r][k] = 0
           /\ <<r, k>> \notin violated
<1>1. StepsOf(r) \subseteq Nat
  BY StepsAreNaturals
<1>2. After(r, k) \subseteq StepsOf(r) \ Before(r, k) /\ k \notin Before(r, k)
  BY <1>1 DEF After, Before
<1>3. QED
  BY <1>2 DEF ReachedStep, Untouched

LEMMA SettlesBeginStep ==
    ASSUME TypeOK, CallsOK, NEW c \in Calls, NEW r \in Runs, r = frame[c].run,
           AtLabel(c, r), RowOK(r), BeginStep(c) \/ UnknownCapability(c)
    PROVE  Settles(c, r)
<1> DEFINE k == frame[c].at
<1>1. /\ k \in StepsOf(r) /\ StepsOf(r) \subseteq Nat
      /\ status[r] = "running"
      /\ frame[c].outcome = "completed"
      /\ ReachedStep(r, k)
      /\ effects[r][k] = 0
      /\ <<r, k>> \notin violated
  BY StepIsReached, StepsAreNaturals DEF AtLabel, BeginStep, UnknownCapability
<1>2. /\ \A j \in StepsOf(r) : j # k => steps'[r][j] = steps[r][j]
      /\ UNCHANGED <<status, effects, plan, tolerance, violated>>
      /\ frame'[c].at = k
  BY <1>1 DEF TypeOK, BeginStep, UnknownCapability
<1>3. ReachedStep(r, k)'
  <2>1. effects[r][k] <= 1
    BY <1>1
  <2>2. PICK x \in StepsOf(r) : x = k
    BY <1>1
  <2>3. ReachedStep(r, x)'
    BY <1>1, <1>2, <2>1, <2>2, ReachedStays
  <2>4. QED
    BY <1>2, <2>2, <2>3
<1>4. RowOK(r)'
  BY <1>1, <1>2, RunningRow DEF RowOK
<1>5. CASE BeginStep(c)
  <2>1. pc'[c] = "invoke" /\ frame'[c] = frame[c]
    BY <1>5 DEF TypeOK, BeginStep
  <2>2. AtLabel(c, r)'
    BY <1>1, <1>2, <1>3, <2>1 DEF AtLabel
  <2>3. QED
    BY <1>4, <2>2 DEF Settles
<1>6. CASE UnknownCapability(c)
  <2>1. /\ pc'[c] = "finish" /\ frame'[c].outcome = "failed"
        /\ steps'[r][k] = "failed"
    BY <1>1, <1>6 DEF TypeOK, UnknownCapability
  <2>2. AtLabel(c, r)'
    BY <1>1, <1>2, <1>3, <2>1 DEF AtLabel, FailedAt
  <2>3. QED
    BY <1>4, <2>2 DEF Settles
<1>7. QED
  BY <1>5, <1>6

LEMMA SettlesInvoke ==
    ASSUME TypeOK, CallsOK, NEW c \in Calls, NEW r \in Runs, r = frame[c].run,
           AtLabel(c, r), RowOK(r), Invoke(c)
    PROVE  Settles(c, r)
<1>1. PICK k \in StepsOf(r) : k = frame[c].at
  BY DEF CallsOK, Invoke
<1>2. /\ StepsOf(r) \subseteq Nat
      /\ status[r] = "running"
      /\ frame[c].outcome = "completed"
      /\ ReachedStep(r, k)
      /\ effects[r][k] = 0
      /\ <<r, k>> \notin violated
  BY <1>1, StepsAreNaturals DEF AtLabel, Invoke
<1>3. /\ \A j \in StepsOf(r) : j # k => effects'[r][j] = effects[r][j]
      /\ effects'[r][k] \in {0, 1}
      /\ UNCHANGED <<status, steps, plan, tolerance, violated, frame>>
      /\ pc'[c] \in {"commit", "caught"}
  BY <1>1, <1>2 DEF TypeOK, Invoke
<1>4. ReachedStep(r, k)'
  BY <1>2, <1>3, ReachedStays
<1>5. RowOK(r)'
  BY <1>2, <1>3, RunningRow DEF RowOK
<1>6. AtLabel(c, r)'
  BY <1>1, <1>2, <1>3, <1>4 DEF AtLabel
<1>7. QED
  BY <1>5, <1>6 DEF Settles

LEMMA SettlesCommit ==
    ASSUME TypeOK, CallsOK, NEW c \in Calls, NEW r \in Runs, r = frame[c].run,
           AtLabel(c, r), RowOK(r), NEW violates \in BOOLEAN, Commit(c, violates)
    PROVE  Settles(c, r)
<1>1. PICK k \in StepsOf(r) : k = frame[c].at
  BY DEF CallsOK, Commit
<1>2. /\ StepsOf(r) \subseteq Nat /\ k \in Nat
      /\ status[r] = "running"
      /\ frame[c].outcome = "completed"
      /\ ReachedStep(r, k)
      /\ effects[r][k] <= 1
      /\ <<r, k>> \notin violated
  BY <1>1, StepsAreNaturals DEF AtLabel, Commit, ReachedStep
<1>3. /\ steps' = [steps EXCEPT ![r][k] = "succeeded"]
      /\ violated' = IF violates THEN violated \cup {<<r, k>>} ELSE violated \ {<<r, k>>}
      /\ UNCHANGED <<status, effects, plan, tolerance>>
  BY <1>1 DEF Commit
<1>4. /\ steps'[r][k] = "succeeded"
      /\ \A j \in StepsOf(r) : j # k => steps'[r][j] = steps[r][j]
  BY <1>3 DEF TypeOK
<1>5. \A j \in StepsOf(r) : j # k => (<<r, j>> \in violated' <=> <<r, j>> \in violated)
  BY <1>3
<1>6. ReachedStep(r, k)'
  BY <1>2, <1>3, <1>4, <1>5, ReachedStays
<1>7. RowOK(r)'
  BY <1>2, <1>3, RunningRow DEF RowOK
<1>8. CASE violates /\ RefusesViolations(r)
  <2>1. pc'[c] = "audit_violation" /\ frame' = frame
    BY <1>8 DEF TypeOK, Commit
  <2>2. Strict(r)' /\ <<r, k>> \in violated'
    BY <1>3, <1>8 DEF RefusesViolations, Strict
  <2>3. AtLabel(c, r)'
    BY <1>1, <1>2, <1>3, <1>4, <1>6, <2>1, <2>2 DEF AtLabel, RefusedAt
  <2>4. QED
    BY <1>7, <2>3 DEF Settles
<1>9. CASE ~(violates /\ RefusesViolations(r))
  <2>1. /\ pc'[c] = "begin_step"
        /\ frame'[c].at = k + 1 /\ frame'[c].outcome = "completed"
    BY <1>1, <1>2, <1>9 DEF TypeOK, Commit
  <2>2. Strict(r)' => <<r, k>> \notin violated'
    BY <1>2, <1>3, <1>9 DEF RefusesViolations, Strict, TypeOK, Tolerance
  <2>3. Before(r, k + 1)' = Before(r, k)' \cup {k}
    BY <1>2, <1>3 DEF Before
  <2>4. (StepsOf(r) \ Before(r, k + 1))' = After(r, k)'
    BY <1>2, <1>3 DEF Before, After
  <2>5. Succeeded(r, Before(r, k + 1))'
    BY <1>2, <1>3, <1>4, <1>6, <2>2, <2>3 DEF Succeeded, ReachedStep
  <2>6. Untouched(r, StepsOf(r) \ Before(r, k + 1))'
    BY <1>6, <2>4 DEF ReachedStep, Untouched
  <2>7. k + 1 >= 1
    BY <1>2
  <2>8. AtLabel(c, r)'
    BY <1>2, <1>3, <2>1, <2>5, <2>6, <2>7 DEF AtLabel
  <2>9. QED
    BY <1>7, <2>8 DEF Settles
<1>10. QED
  BY <1>8, <1>9

LEMMA SettlesThrow ==
    ASSUME TypeOK, CallsOK, NEW c \in Calls, NEW r \in Runs, r = frame[c].run,
           AtLabel(c, r), RowOK(r), CommitThrows(c) \/ AuditViolation(c)
    PROVE  Settles(c, r)
<1>1. PICK k \in StepsOf(r) : k = frame[c].at
  BY DEF CallsOK, CommitThrows, AuditViolation
<1>2. /\ status[r] = "running"
      /\ ReachedStep(r, k)
      /\ pc[c] = "audit_violation" => RefusedAt(r, k)
  BY <1>1 DEF AtLabel, CommitThrows, AuditViolation, RefusedAt
<1>3. UNCHANGED <<status, steps, effects, plan, tolerance, violated>>
  BY DEF CommitThrows, AuditViolation
<1>4. RowOK(r)'
  BY <1>2, <1>3, RunningRow DEF RowOK
<1>5. ReachedStep(r, k)'
  BY <1>2, <1>3 DEF ReachedStep, Succeeded, Untouched, Before, After, Strict
<1>6. CASE pc' = [pc EXCEPT ![c] = "caught"] /\ UNCHANGED frame
  <2>1. pc'[c] = "caught"
    BY <1>6 DEF TypeOK
  <2>2. AtLabel(c, r)'
    BY <1>1, <1>2, <1>3, <1>5, <1>6, <2>1 DEF AtLabel
  <2>3. QED
    BY <1>4, <2>2 DEF Settles
<1>7. CASE /\ pc[c] = "audit_violation"
           /\ pc' = [pc EXCEPT ![c] = "finish"]
           /\ frame' = [frame EXCEPT ![c].outcome = "refused"]
  <2>1. pc'[c] = "finish" /\ frame'[c].outcome = "refused" /\ frame'[c].at = k
    BY <1>1, <1>7 DEF TypeOK
  <2>2. RefusedAt(r, k)'
    BY <1>2, <1>3, <1>5, <1>7 DEF RefusedAt, Strict
  <2>3. AtLabel(c, r)'
    BY <1>2, <1>3, <2>1, <2>2 DEF AtLabel
  <2>4. QED
    BY <1>4, <2>3 DEF Settles
<1>8. QED
  BY <1>6, <1>7 DEF CommitThrows, AuditViolation

LEMMA SettlesCaught ==
    ASSUME TypeOK, CallsOK, NEW c \in Calls, NEW r \in Runs, r = frame[c].run,
           AtLabel(c, r), RowOK(r), Caught(c)
    PROVE  Settles(c, r)
<1>1. PICK k \in StepsOf(r) : k = frame[c].at
  BY DEF CallsOK, Caught
<1>2. /\ StepsOf(r) \subseteq Nat
      /\ status[r] = "running"
      /\ ReachedStep(r, k)
      /\ effects[r][k] <= 1
  BY <1>1, StepsAreNaturals DEF AtLabel, Caught, ReachedStep
<1>3. /\ steps' = [steps EXCEPT ![r][k] = "failed"]
      /\ frame' = [frame EXCEPT ![c].outcome = "failed"]
      /\ pc' = [pc EXCEPT ![c] = "finish"]
      /\ UNCHANGED <<status, effects, plan, tolerance, violated>>
  BY <1>1 DEF Caught
<1>4. /\ steps'[r][k] = "failed"
      /\ \A j \in StepsOf(r) : j # k => steps'[r][j] = steps[r][j]
      /\ pc'[c] = "finish" /\ frame'[c].outcome = "failed" /\ frame'[c].at = k
  BY <1>1, <1>3 DEF TypeOK
<1>5. ReachedStep(r, k)'
  BY <1>2, <1>3, <1>4, ReachedStays
<1>6. RowOK(r)'
  BY <1>2, <1>3, RunningRow DEF RowOK
<1>7. AtLabel(c, r)'
  BY <1>2, <1>3, <1>4, <1>5 DEF AtLabel, FailedAt
<1>8. QED
  BY <1>6, <1>7 DEF Settles

LEMMA SettlesFinish ==
    ASSUME TypeOK, CallsOK, NEW c \in Calls, NEW r \in Runs, r = frame[c].run,
           AtLabel(c, r), RowOK(r), Finish(c)
    PROVE  Settles(c, r)
<1>1. PICK k \in Nat : k = frame[c].at
  BY DEF TypeOK
<1>2. /\ status'[r] = frame[c].outcome
      /\ pc'[c] = "idle"
      /\ UNCHANGED <<steps, effects, plan, tolerance, violated>>
  BY DEF TypeOK, Finish, FinalStatus
<1>3. CASE pc[c] = "finish"
  <2>1. \/ frame[c].outcome = "failed" /\ FailedAt(r, k)
        \/ frame[c].outcome = "refused" /\ RefusedAt(r, k)
    BY <1>1, <1>3 DEF AtLabel
  <2>2. k \in StepsOf(r)
    BY <2>1 DEF FailedAt, RefusedAt, ReachedStep
  <2>3. /\ FailedAt(r, k) => FailedAt(r, k)'
        /\ RefusedAt(r, k) => RefusedAt(r, k)'
    BY <1>2 DEF FailedAt, RefusedAt, ReachedStep, Succeeded, Untouched, Before,
       After, Strict
  <2>4. QED
    BY <1>2, <2>1, <2>2, <2>3 DEF Settles, RowOK, AtStatus
<1>4. CASE pc[c] = "begin_step" /\ k \notin StepsOf(r)
  <2>1. /\ frame[c].outcome = "completed" /\ k >= 1
        /\ Succeeded(r, Before(r, k))
    BY <1>1, <1>4 DEF AtLabel
  <2>2. Before(r, k) = StepsOf(r)
    BY <1>4, <2>1, StepsFromOne DEF Before
  <2>3. Succeeded(r, StepsOf(r))'
    BY <1>2, <2>1, <2>2 DEF Succeeded, Strict
  <2>4. QED
    BY <1>2, <2>1, <2>3 DEF Settles, RowOK, AtStatus
<1>5. QED
  BY <1>1, <1>3, <1>4 DEF Finish

LEMMA SettlesCancel ==
    ASSUME TypeOK, CallsOK, NEW c \in Calls, NEW r \in Runs, r = frame[c].run,
           AtLabel(c, r), RowOK(r), Cancel(c) \/ Abandon(c)
    PROVE  Settles(c, r)
<1>1. /\ pc'[c] = "idle"
      /\ UNCHANGED <<steps, effects, plan, tolerance, violated>>
      /\ status'[r] = status[r] \/ status'[r] = "cancelled"
  BY DEF TypeOK, Cancel, Abandon
<1>2. CASE status'[r] = "cancelled"
  BY <1>1, <1>2, RunningRow DEF Settles, RowOK
<1>3. CASE status'[r] = status[r]
  <2>1. \A v \in violated' : v \in violated
    BY <1>1
  <2>2. status[r] = "absent" => \A v \in violated' : v[1] # r
    BY <2>1 DEF RowOK, AtStatus
  <2>3. RowOK(r)'
    BY <1>1, <1>3, <2>2, RowStays
  <2>4. QED
    BY <1>1, <2>3 DEF Settles
<1>4. QED
  BY <1>1, <1>2, <1>3

\* A statement settles its own run and leaves the others alone.
LEMMA SerialCall ==
    ASSUME TypeOK, CallsOK, SerialOK, NEW c \in Calls, Advance(c) \/ Abandon(c)
    PROVE  SerialOK'
<1>1. pc[c] # "idle"
  BY DEF Advance, Decide, CheckScope, RefuseScope, Start, BeginStep,
     UnknownCapability, Invoke, Commit, CommitThrows, AuditViolation, Caught,
     Finish, Cancel, Abandon
<1>2. PICK r \in Runs : r = frame[c].run /\ status[r] # "absent"
  BY <1>1 DEF CallsOK
<1>3. c \in InFlight(r)
  BY <1>1, <1>2 DEF InFlight
<1>4. /\ UNCHANGED <<plan, tolerance, overlapped>>
      /\ \A q \in Runs : q # r =>
             /\ UNCHANGED <<status[q], steps[q], effects[q]>>
             /\ \A i : <<q, i>> \in violated' <=> <<q, i>> \in violated
      /\ \A d \in Calls : d # c => UNCHANGED <<pc[d], frame[d]>>
      /\ frame'[c].run = r \/ pc'[c] = "idle"
  BY <1>2, OnlyItsRun
<1>5. \A q \in Runs : InFlight(q)' \subseteq InFlight(q)
  BY <1>1, <1>2, <1>4 DEF InFlight
<1>6. ASSUME NEW q \in Runs \ overlapped, q # r
      PROVE  RowOK(q)' /\ \A d \in InFlight(q)' : AtLabel(d, q)'
  <2>1. RowOK(q) /\ \A d \in InFlight(q) : AtLabel(d, q)
    BY DEF SerialOK
  <2>2. \A v \in violated' : v \in violated \/ v[1] = r
    <3>1. \/ violated' \subseteq violated
          \/ violated' = violated \cup {<<r, frame[c].at>>}
      BY <1>2 DEF Advance, Decide, CheckScope, RefuseScope, Start, BeginStep,
         UnknownCapability, Invoke, Commit, CommitThrows, AuditViolation, Caught,
         Finish, Cancel, Abandon
    <3>2. QED
      BY <3>1
  <2>3. status[q] = "absent" => \A v \in violated' : v[1] # q
    BY <1>6, <2>1, <2>2 DEF RowOK, AtStatus
  <2>4. RowOK(q)'
    BY <1>4, <1>6, <2>1, <2>3, RowStays
  <2>5. ASSUME NEW d \in InFlight(q)'
        PROVE  AtLabel(d, q)'
    <3>1. d \in Calls /\ d \in InFlight(q) /\ d # c
      BY <1>2, <1>5, <1>6 DEF InFlight
    <3>2. QED
      BY <1>4, <1>6, <2>1, <3>1, LabelStays
  <2>6. QED
    BY <2>4, <2>5
<1>7. ASSUME r \notin overlapped
      PROVE  RowOK(r)' /\ \A d \in InFlight(r)' : AtLabel(d, r)'
  <2>1. RowOK(r) /\ AtLabel(c, r) /\ \A d \in InFlight(r) : d = c
    BY <1>3, <1>7 DEF SerialOK
  <2>2. Settles(c, r)
    BY <1>2, <2>1, SettlesDecide, SettlesPreflight, SettlesStart,
       SettlesBeginStep, SettlesInvoke, SettlesCommit, SettlesThrow,
       SettlesCaught, SettlesFinish, SettlesCancel DEF Advance
  <2>3. \A d \in InFlight(r)' : d = c /\ pc'[d] # "idle"
    BY <1>5, <2>1 DEF InFlight
  <2>4. QED
    BY <2>2, <2>3 DEF Settles
<1>8. \A q \in Runs \ overlapped' : \A d, e \in InFlight(q)' : d = e
  BY <1>4, <1>5 DEF SerialOK
<1>9. QED
  BY <1>4, <1>6, <1>7, <1>8 DEF SerialOK

LEMMA NextSerial ==
    TypeOK /\ CallsOK /\ SerialOK /\ [Next]_vars => SerialOK'
<1> SUFFICES ASSUME TypeOK, CallsOK, SerialOK, [Next]_vars
             PROVE  SerialOK'
  OBVIOUS
<1>1. CASE Plan
  BY <1>1, SerialCreatePlan DEF Plan
<1>2. CASE (\E r \in Runs : RepositoryChanges(r)) \/ UNCHANGED vars
  <2>1. UNCHANGED <<status, fixed, consent, stepRows, pc, frame, outside, overlapped>>
    BY <1>2 DEF RepositoryChanges, vars
  <2>2. \A r \in Runs : InFlight(r)' = InFlight(r)
    BY <2>1 DEF InFlight
  <2>3. ASSUME NEW r \in Runs \ overlapped
        PROVE  RowOK(r)' /\ \A c \in InFlight(r) : AtLabel(c, r)'
    <3>1. RowOK(r) /\ \A c \in InFlight(r) : c \in Calls /\ AtLabel(c, r)
      BY DEF SerialOK, InFlight
    <3>2. status[r] = "absent" => \A v \in violated' : v[1] # r
      BY <2>1, <3>1 DEF RowOK, AtStatus
    <3>3. RowOK(r)'
      BY <2>1, <3>1, <3>2, RowStays
    <3>4. \A c \in InFlight(r) : AtLabel(c, r)'
      BY <2>1, <3>1, LabelStays
    <3>5. QED
      BY <3>3, <3>4
  <2>4. QED
    BY <2>1, <2>2, <2>3 DEF SerialOK
<1>3. CASE \E c \in Calls : Request(c) \/ Advance(c) \/ Abandon(c)
  BY <1>3, SerialRequest, SerialCall
<1>4. QED
  BY <1>1, <1>2, <1>3 DEF Next

LEMMA SerialSuffices == TypeOK /\ SerialOK => SerialRunsTellTheTruth
<1> SUFFICES ASSUME TypeOK, SerialOK, NEW r \in Runs \ overlapped
             PROVE  /\ \A i \in StepsOf(r) : effects[r][i] <= 1
                    /\ status[r] = "completed" =>
                          /\ {i \in StepsOf(r) : steps[r][i] = "succeeded"} = StepsOf(r)
                          /\ tolerance[r] # "permissive" =>
                                {i \in StepsOf(r) : <<r, i>> \in violated} = {}
                    /\ status[r] = "failed" =>
                          \E i \in StepsOf(r) :
                              /\ \A j \in StepsOf(r) : j < i => steps[r][j] = "succeeded"
                              /\ steps[r][i] = "failed"
                              /\ \A j \in StepsOf(r) : j > i => steps[r][j] = "planned"
                    /\ status[r] = "refused" =>
                          \/ {i \in StepsOf(r) : steps[r][i] = "planned"} = StepsOf(r)
                          \/ /\ tolerance[r] # "permissive"
                             /\ \E i \in {j \in StepsOf(r) : <<r, j>> \in violated} :
                                  \A j \in StepsOf(r) :
                                      steps[r][j] = IF j <= i THEN "succeeded"
                                                              ELSE "planned"
  BY DEF SerialRunsTellTheTruth
<1>1. RowOK(r)
  BY DEF SerialOK
<1>2. StepsOf(r) \subseteq Nat
  BY StepsAreNaturals
<1>3. status[r] = "completed" =>
          /\ {i \in StepsOf(r) : steps[r][i] = "succeeded"} = StepsOf(r)
          /\ tolerance[r] # "permissive" =>
                {i \in StepsOf(r) : <<r, i>> \in violated} = {}
  BY <1>1 DEF RowOK, AtStatus, Succeeded, Strict
<1>4. ASSUME status[r] = "failed"
      PROVE  \E i \in StepsOf(r) :
                 /\ \A j \in StepsOf(r) : j < i => steps[r][j] = "succeeded"
                 /\ steps[r][i] = "failed"
                 /\ \A j \in StepsOf(r) : j > i => steps[r][j] = "planned"
  <2>1. PICK k \in StepsOf(r) : FailedAt(r, k)
    BY <1>1, <1>4 DEF RowOK, AtStatus
  <2>2. QED
    BY <2>1 DEF FailedAt, ReachedStep, Succeeded, Untouched, Before, After
<1>5. ASSUME status[r] = "refused", ~Untouched(r, StepsOf(r))
      PROVE  /\ tolerance[r] # "permissive"
             /\ \E i \in {j \in StepsOf(r) : <<r, j>> \in violated} :
                  \A j \in StepsOf(r) : steps[r][j] = IF j <= i THEN "succeeded"
                                                                ELSE "planned"
  <2>1. PICK k \in StepsOf(r) : RefusedAt(r, k)
    BY <1>1, <1>5 DEF RowOK, AtStatus
  <2>2. \A j \in StepsOf(r) : j \in Before(r, k) \/ j = k \/ j \in After(r, k)
    BY <1>2 DEF Before, After
  <2>3. \A j \in StepsOf(r) : steps[r][j] = IF j <= k THEN "succeeded" ELSE "planned"
    <3> TAKE j \in StepsOf(r)
    <3>0. j \in Nat /\ k \in Nat
      BY <1>2
    <3>1. CASE j \in Before(r, k)
      <4>1. j < k /\ steps[r][j] = "succeeded"
        BY <2>1, <3>1 DEF RefusedAt, ReachedStep, Succeeded, Before
      <4>2. QED
        BY <3>0, <4>1
    <3>2. CASE j = k
      BY <1>2, <2>1, <3>2 DEF RefusedAt
    <3>3. CASE j \in After(r, k)
      <4>1. j > k /\ steps[r][j] = "planned"
        BY <2>1, <3>3 DEF RefusedAt, ReachedStep, Untouched, After
      <4>2. QED
        BY <3>0, <4>1
    <3>4. QED
      BY <2>2, <3>1, <3>2, <3>3
  <2>4. QED
    BY <2>1, <2>3 DEF RefusedAt, Strict
<1>6. Untouched(r, StepsOf(r)) =>
          {i \in StepsOf(r) : steps[r][i] = "planned"} = StepsOf(r)
  BY DEF Untouched
<1>7. QED
  BY <1>1, <1>3, <1>4, <1>5, <1>6 DEF RowOK

LEMMA SerialInductive ==
    /\ Init => TypeOK /\ CallsOK /\ SerialOK
    /\ TypeOK /\ CallsOK /\ SerialOK /\ [Next]_vars => (TypeOK /\ CallsOK /\ SerialOK)'
  BY InitType, InitSerial, NextType, NextSerial

\* While no two calls on a run overlap, executeRun has every effect at most
\* once and the final status it writes is the one the step rows justify,
\* whether it completes, fails, is refused, dies or is cancelled.
THEOREM TheSerialAreTruthful == Spec => []SerialRunsTellTheTruth
  BY SerialInductive, SerialSuffices, PTL DEF Spec

\* The step form of VerdictIsFinal.
VerdictStep ==
    \A r \in Runs \ overlapped' :
        status[r] \in {"completed", "failed", "cancelled", "rejected", "refused"}
            => \/ status'[r] = status[r]
               \/ /\ status[r] \in {"rejected", "refused"}
                  /\ status'[r] = "cancelled"

LEMMA VerdictCall ==
    ASSUME TypeOK, CallsOK, SerialOK, NEW c \in Calls, Advance(c) \/ Abandon(c)
    PROVE  VerdictStep
<1>1. /\ overlapped' = overlapped
      /\ \A q \in Runs : q # frame[c].run => status'[q] = status[q]
  BY OnlyItsRun
<1>2. ASSUME frame[c].run \in Runs \ overlapped, pc[c] # "idle"
      PROVE  AtLabel(c, frame[c].run)
  BY <1>2 DEF SerialOK, InFlight
<1>3. CASE Decide(c) \/ RefuseScope(c) \/ Start(c) \/ Finish(c)
  <2>1. ASSUME frame[c].run \in Runs \ overlapped
        PROVE  status[frame[c].run] \in {"awaiting_approval", "planned", "approved", "running"}
    BY <1>2, <1>3, <2>1 DEF AtLabel, Decide, RefuseScope, Start, Finish
  <2>2. QED
    BY <1>1, <2>1 DEF VerdictStep
<1>4. CASE Cancel(c)
  <2>1. ASSUME frame[c].run \in Runs \ overlapped
        PROVE  /\ status[frame[c].run] \notin {"completed", "failed", "cancelled"}
               /\ status'[frame[c].run] = "cancelled"
    BY <1>2, <1>4, <2>1 DEF TypeOK, AtLabel, Cancel
  <2>2. QED
    BY <1>1, <2>1 DEF VerdictStep
<1>5. CASE ~(Decide(c) \/ RefuseScope(c) \/ Start(c) \/ Finish(c) \/ Cancel(c))
  <2>1. status' = status
    BY <1>5 DEF Advance, CheckScope, BeginStep, UnknownCapability, Invoke, Commit,
       CommitThrows, AuditViolation, Caught, Abandon
  <2>2. QED
    BY <2>1 DEF VerdictStep
<1>6. QED
  BY <1>3, <1>4, <1>5

LEMMA VerdictNext ==
    TypeOK /\ CallsOK /\ SerialOK /\ [Next]_vars => VerdictStep
<1> SUFFICES ASSUME TypeOK, CallsOK, SerialOK, [Next]_vars
             PROVE  VerdictStep
  OBVIOUS
<1>1. CASE Plan
  BY <1>1 DEF Plan, CreatePlan, VerdictStep, TypeOK
<1>2. CASE (\E r \in Runs : RepositoryChanges(r)) \/ UNCHANGED vars
  BY <1>2 DEF RepositoryChanges, vars, VerdictStep
<1>3. CASE \E c \in Calls : Request(c)
  BY <1>3 DEF Request, LoadForApproval, LoadForExecution, LoadForCancel, Load,
     VerdictStep
<1>4. CASE \E c \in Calls : Advance(c) \/ Abandon(c)
  BY <1>4, VerdictCall
<1>5. QED
  BY <1>1, <1>2, <1>3, <1>4 DEF Next

\* Without overlap the verdict on a run is final, but for cancelRun, which
\* also takes rejected and refused runs.
THEOREM VerdictsStand == Spec => VerdictIsFinal
<1>1. TypeOK /\ CallsOK /\ SerialOK /\ [Next]_vars => [VerdictStep]_vars
  BY VerdictNext
<1>2. VerdictIsFinal <=> [][VerdictStep]_vars
  BY PTL DEF VerdictIsFinal, VerdictStep
<1>3. QED
  BY <1>1, <1>2, SerialInductive, PTL DEF Spec
=============================================================================
