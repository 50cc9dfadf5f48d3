----------------------------- MODULE AgentRuns -----------------------------
(***************************************************************************)
(* The life of an AgentRun: lib/agents/orchestrator.ts.                    *)
(*                                                                         *)
(* Every exported function of the orchestrator runs inside an HTTP request *)
(* or a cron tick, and nothing but a few $transaction blocks ties its      *)
(* database statements together.  A call is therefore a process with a     *)
(* program counter: one action per awaited statement, and calls on the     *)
(* same run interleave between any two of them.  What a call read in its   *)
(* first statement (the `run` it loaded) is kept in the call's own         *)
(* variables, because the code goes on using it however the row changes.   *)
(*                                                                         *)
(* Out of the model: the text of plans, outputs and audit entries, and the *)
(* artifacts a step stores beside its result.                              *)
(***************************************************************************)
EXTENDS Naturals, Sequences, FiniteSets

CONSTANTS
    Runs,         \* ids of the AgentRun rows that may be created
    Requesters,   \* who may plan: Clerk users and the api-key:<id> pseudo-users
    Approvers,    \* the Clerk users with the permission to approve
    Calls,        \* slots for concurrently running orchestrator calls
    Plans,        \* the step-kind sequences the planner may produce
    Cancellers,   \* slots that may run cancelRun (no route calls it today)
    None          \* the null of a column or a local variable

StepKind  == {"read_only", "approval_required"}
RunStatus == {"planned", "awaiting_approval", "approved", "rejected",
              "running", "completed", "failed", "cancelled", "refused"}
StepStatus == {"planned", "running", "succeeded", "failed"}
Tolerance == {"strict", "moderate", "permissive"}

ASSUME PlansAssumption == Plans \subseteq Seq(StepKind)
ASSUME CancellersAssumption == Cancellers \subseteq Calls
ASSUME NoneAssumption == None \notin Requesters \cup Approvers

VARIABLES
    \* the AgentRun row, its steps and its approvals
    status,       \* [Runs -> RunStatus or "absent"]
    plan,         \* the kinds of the run's steps, fixed at creation
    requestedBy,  \* requestedByClerkUserId, fixed at creation
    tolerance,    \* intentRiskTolerance, fixed at creation
    approvedBy,   \* approvedByClerkUserId
    approvals,    \* AgentApproval rows
    steps,        \* status of each AgentStep
    violated,     \* steps whose invariantViolations column is true
    \* the git_repository rows that checkScope resolves names with
    inScope,      \* whether every step of the run resolves inside its scope
    \* the calls in flight
    pc,           \* the statement a call is at, or "idle"
    frame,        \* its local variables
    \* history: what the outside world saw
    effects,      \* how often cap.invoke had its effect, per step
    recorded,     \* steps whose success was recorded at least once
    overlapped,   \* runs on which two calls were in flight together
    died,         \* runs an executing call abandoned
    everInScope   \* runs that were inside their scope at some time

fixed     == <<plan, requestedBy, tolerance>>
consent   == <<approvedBy, approvals>>
stepRows  == <<steps, violated>>
outside   == <<effects, recorded>>
observers == <<overlapped, died, everInScope>>
vars == <<status, fixed, consent, stepRows, inScope,
          pc, frame, outside, observers>>

-----------------------------------------------------------------------------
(***************************************************************************)
(* The rows.                                                               *)
(***************************************************************************)
StepsOf(r) == DOMAIN plan[r]

RequiresApproval(r) == \E i \in StepsOf(r) : plan[r][i] = "approval_required"

\* Approvers with an AgentApproval(decision = approved) row for the run.
ApproversOf(r) ==
    {a.by : a \in {b \in approvals : b.run = r /\ b.decision = "approved"}}

InFlight(r) == {c \in Calls : pc[c] # "idle" /\ frame[c].run = r}

\* Where a call of executeRun is between its first and its last statement.
Preflight == {"check_scope", "refuse_scope", "start"}
Stepping  == {"begin_step", "invoke", "commit", "audit_violation", "caught",
              "finish"}
Executing == Preflight \cup Stepping

\* What a call holds on to: the run and its approver as first read, the user
\* and the decision it was sent, the loop's position and what it will report.
NoFrame == [run |-> None, user |-> None, decision |-> "none",
            approver |-> None, at |-> 0, outcome |-> "none"]

Frame == [run : Runs \cup {None}, user : Approvers \cup {None},
          decision : {"approved", "rejected", "none"},
          approver : Approvers \cup {None}, at : Nat,
          outcome : {"completed", "failed", "refused", "none"}]

Goto(c, label) == pc' = [pc EXCEPT ![c] = label]

Return(c) == Goto(c, "idle") /\ frame' = [frame EXCEPT ![c] = NoFrame]

\* The findUnique that opens every handler.
Load(c, f, label) ==
    /\ pc[c] = "idle"
    /\ status[f.run] # "absent"
    /\ Goto(c, label)
    /\ frame' = [frame EXCEPT ![c] = f]
    /\ overlapped' = IF InFlight(f.run) = {} THEN overlapped
                                             ELSE overlapped \cup {f.run}
    /\ UNCHANGED <<status, fixed, consent, stepRows, inScope, outside, died,
                   everInScope>>

-----------------------------------------------------------------------------
(***************************************************************************)
(* createPlan: one create statement stores the run and all its steps.  The *)
(* scope the intent declares and the names the steps carry are fixed with  *)
(* it, but not whether those names resolve inside that scope: checkScope   *)
(* looks them up in git_repository rows, which change.                     *)
(***************************************************************************)
StepRows(p) == [i \in DOMAIN p |-> "planned"]

CreatePlan(r, u, p, t, scoped) ==
    /\ status[r] = "absent"
    /\ status' = [status EXCEPT ![r] =
          IF \E i \in DOMAIN p : p[i] = "approval_required"
             THEN "awaiting_approval" ELSE "planned"]
    /\ plan' = [plan EXCEPT ![r] = p]
    /\ requestedBy' = [requestedBy EXCEPT ![r] = u]
    /\ tolerance' = [tolerance EXCEPT ![r] = t]
    /\ steps' = [steps EXCEPT ![r] = StepRows(p)]
    /\ inScope' = [inScope EXCEPT ![r] = scoped]
    /\ effects' = [effects EXCEPT ![r] = [i \in DOMAIN p |-> 0]]
    /\ everInScope' = IF scoped THEN everInScope \cup {r} ELSE everInScope
    /\ UNCHANGED <<consent, violated, pc, frame, recorded, overlapped, died>>

\* A git_repository row the run's steps name is added, renamed or removed.
RepositoryChanges(r) ==
    /\ status[r] # "absent"
    /\ inScope' = [inScope EXCEPT ![r] = ~@]
    /\ everInScope' = everInScope \cup {r}
    /\ UNCHANGED <<status, fixed, consent, stepRows, pc, frame, outside,
                   overlapped, died>>

-----------------------------------------------------------------------------
(***************************************************************************)
(* approveRun.                                                             *)
(***************************************************************************)
\* Mutant: the requester may decide.
MayDecideOrSelf(u, r) == RequiresApproval(r) /\ status[r] = "awaiting_approval"

MayDecide(u, r) ==
    /\ RequiresApproval(r)
    /\ status[r] = "awaiting_approval"
    /\ requestedBy[r] # u

LoadForApproval(c, u, r, d) ==
    /\ Load(c, [NoFrame EXCEPT !.run = r, !.user = u, !.decision = d], "decide")
    /\ MayDecide(u, r)

\* Mutant: the approver is not stored on the run.
ApproverForgotten(c) == approvedBy[frame[c].run]

NewApprover(c) ==
    IF frame[c].decision = "approved" THEN frame[c].user
                                      ELSE approvedBy[frame[c].run]

\* The $transaction: the AgentApproval row and the run's status, together.
\* The update selects by id alone, so the status is not looked at again.
Decide(c) ==
    LET r == frame[c].run
    IN  /\ pc[c] = "decide"
        /\ approvals' = approvals \cup
              {[run |-> r, decision |-> frame[c].decision, by |-> frame[c].user]}
        /\ status' = [status EXCEPT ![r] = frame[c].decision]
        /\ approvedBy' = [approvedBy EXCEPT ![r] = NewApprover(c)]
        /\ Return(c)
        /\ UNCHANGED <<fixed, stepRows, inScope, outside, observers>>

-----------------------------------------------------------------------------
(***************************************************************************)
(* executeRun.                                                             *)
(***************************************************************************)
\* Mutant: any run that is over may be executed again.
MayRetry(r) == status[r] \notin {"awaiting_approval", "rejected", "running"}

MayExecute(r) == status[r] \in {"planned", "approved"}

LoadForExecution(c, r) ==
    /\ Load(c, [NoFrame EXCEPT !.run = r, !.approver = approvedBy[r]],
            "check_scope")
    /\ MayExecute(r)

\* Mutant: the violations found are ignored.
ScopeIgnored(r) == "start"

AfterScope(r) == IF inScope[r] THEN "start" ELSE "refuse_scope"

CheckScope(c) ==
    /\ pc[c] = "check_scope"
    /\ Goto(c, AfterScope(frame[c].run))
    /\ UNCHANGED <<status, fixed, consent, stepRows, inScope, frame, outside,
                   observers>>

RefuseScope(c) ==
    /\ pc[c] = "refuse_scope"
    /\ status' = [status EXCEPT ![frame[c].run] = "refused"]
    /\ Return(c)
    /\ UNCHANGED <<fixed, consent, stepRows, inScope, outside, observers>>

Start(c) ==
    /\ pc[c] = "start"
    /\ status' = [status EXCEPT ![frame[c].run] = "running"]
    /\ Goto(c, "begin_step")
    /\ frame' = [frame EXCEPT ![c].at = 1, ![c].outcome = "completed"]
    /\ UNCHANGED <<fixed, consent, stepRows, inScope, outside, observers>>

\* The head of the loop: a step is left and its row goes to running.
BeginStep(c) ==
    /\ pc[c] = "begin_step"
    /\ frame[c].at \in StepsOf(frame[c].run)
    /\ steps' = [steps EXCEPT ![frame[c].run][frame[c].at] = "running"]
    /\ Goto(c, "invoke")
    /\ UNCHANGED <<status, fixed, consent, violated, inScope, frame, outside,
                   observers>>

\* getCapability finds nothing: the capability has left the registry.
UnknownCapability(c) ==
    /\ pc[c] = "begin_step"
    /\ frame[c].at \in StepsOf(frame[c].run)
    /\ steps' = [steps EXCEPT ![frame[c].run][frame[c].at] = "failed"]
    /\ frame' = [frame EXCEPT ![c].outcome = "failed"]
    /\ Goto(c, "finish")
    /\ UNCHANGED <<status, fixed, consent, violated, inScope, outside,
                   observers>>

\* cap.invoke resolves, its effect done, or rejects, before or after it.
Invoke(c) ==
    /\ pc[c] = "invoke"
    /\ \E happened \in BOOLEAN, next \in {"commit", "caught"} :
          /\ next = "commit" => happened
          /\ effects' = IF happened
                THEN [effects EXCEPT ![frame[c].run][frame[c].at] = @ + 1]
                ELSE effects
          /\ Goto(c, next)
    /\ UNCHANGED <<status, fixed, consent, stepRows, inScope, frame,
                   recorded, observers>>

\* Mutant: moderate runs go on after a violated invariant.
RefusesStrictOnly(r) == tolerance[r] = "strict"

RefusesViolations(r) == tolerance[r] \in {"strict", "moderate"}

\* The $transaction that records the step, then what its invariants decide:
\* the next step, or for strict and moderate runs the end.
Commit(c, violates) ==
    LET r == frame[c].run
        refuse == violates /\ RefusesViolations(r)
    IN  /\ pc[c] = "commit"
        /\ steps' = [steps EXCEPT ![r][frame[c].at] = "succeeded"]
        /\ violated' = IF violates THEN violated \cup {<<r, frame[c].at>>}
                                   ELSE violated \ {<<r, frame[c].at>>}
        /\ recorded' = recorded \cup {<<r, frame[c].at>>}
        /\ IF refuse
              THEN Goto(c, "audit_violation") /\ UNCHANGED frame
              ELSE Goto(c, "begin_step") /\ frame' = [frame EXCEPT ![c].at = @ + 1]
        /\ UNCHANGED <<status, fixed, consent, inScope, effects, observers>>

\* The agent.invariant.violated audit entry; writing it may throw, and it
\* still stands inside the try.
AuditViolation(c) ==
    /\ pc[c] = "audit_violation"
    /\ \/ /\ Goto(c, "finish")
          /\ frame' = [frame EXCEPT ![c].outcome = "refused"]
       \/ /\ Goto(c, "caught")
          /\ UNCHANGED frame
    /\ UNCHANGED <<status, fixed, consent, stepRows, inScope, outside,
                   observers>>

\* The recording transaction throws: the catch block takes it for a failure
\* of the step.
CommitThrows(c) ==
    /\ pc[c] = "commit"
    /\ Goto(c, "caught")
    /\ UNCHANGED <<status, fixed, consent, stepRows, inScope, frame, outside,
                   observers>>

\* Mutant: a step that throws does not end the loop.
CaughtContinues(c) ==
    /\ pc[c] = "caught"
    /\ steps' = [steps EXCEPT ![frame[c].run][frame[c].at] = "failed"]
    /\ frame' = [frame EXCEPT ![c].outcome = "failed", ![c].at = @ + 1]
    /\ Goto(c, "begin_step")
    /\ UNCHANGED <<status, fixed, consent, violated, inScope, outside,
                   observers>>

\* The catch block.
Caught(c) ==
    /\ pc[c] = "caught"
    /\ steps' = [steps EXCEPT ![frame[c].run][frame[c].at] = "failed"]
    /\ frame' = [frame EXCEPT ![c].outcome = "failed"]
    /\ Goto(c, "finish")
    /\ UNCHANGED <<status, fixed, consent, violated, inScope, outside,
                   observers>>

\* Mutant: only completed runs get a final status.
FinalIfCompleted(c) ==
    IF frame[c].outcome = "completed" THEN "completed"
                                      ELSE status[frame[c].run]

FinalStatus(c) == frame[c].outcome

\* After the loop: the final status, whatever the row says by now.
Finish(c) ==
    /\ \/ pc[c] = "finish"
       \/ pc[c] = "begin_step" /\ frame[c].at \notin StepsOf(frame[c].run)
    /\ status' = [status EXCEPT ![frame[c].run] = FinalStatus(c)]
    /\ Return(c)
    /\ UNCHANGED <<fixed, consent, stepRows, inScope, outside, observers>>

-----------------------------------------------------------------------------
(***************************************************************************)
(* cancelRun.                                                              *)
(***************************************************************************)
LoadForCancel(c, r) ==
    /\ c \in Cancellers
    /\ Load(c, [NoFrame EXCEPT !.run = r], "cancel")
    /\ status[r] \notin {"completed", "failed", "cancelled"}

Cancel(c) ==
    /\ pc[c] = "cancel"
    /\ status' = [status EXCEPT ![frame[c].run] = "cancelled"]
    /\ Return(c)
    /\ UNCHANGED <<fixed, consent, stepRows, inScope, outside, observers>>

-----------------------------------------------------------------------------
\* A statement outside the try throws, or the process dies: the call is gone
\* and nothing takes up what it left.
Abandon(c) ==
    /\ pc[c] # "idle"
    /\ Return(c)
    /\ died' = IF pc[c] \in Stepping THEN died \cup {frame[c].run} ELSE died
    /\ UNCHANGED <<status, fixed, consent, stepRows, inScope, outside,
                   overlapped, everInScope>>

-----------------------------------------------------------------------------
Init ==
    /\ status = [r \in Runs |-> "absent"]
    /\ plan = [r \in Runs |-> <<>>]
    /\ requestedBy = [r \in Runs |-> None]
    /\ tolerance = [r \in Runs |-> "strict"]
    /\ approvedBy = [r \in Runs |-> None]
    /\ approvals = {}
    /\ steps = [r \in Runs |-> <<>>]
    /\ violated = {}
    /\ inScope = [r \in Runs |-> FALSE]
    /\ pc = [c \in Calls |-> "idle"]
    /\ frame = [c \in Calls |-> NoFrame]
    /\ effects = [r \in Runs |-> <<>>]
    /\ recorded = {}
    /\ overlapped = {}
    /\ died = {}
    /\ everInScope = {}

Plan ==
    \E r \in Runs, u \in Requesters, p \in Plans, t \in Tolerance, b \in BOOLEAN :
        CreatePlan(r, u, p, t, b)

\* What a call does once it has loaded its run.
Advance(c) ==
    \/ Decide(c)
    \/ CheckScope(c) \/ RefuseScope(c) \/ Start(c)
    \/ BeginStep(c) \/ UnknownCapability(c) \/ Invoke(c)
    \/ \E violates \in BOOLEAN : Commit(c, violates)
    \/ CommitThrows(c) \/ AuditViolation(c) \/ Caught(c) \/ Finish(c)
    \/ Cancel(c)

Request(c) ==
    \E r \in Runs :
        \/ \E u \in Approvers, d \in {"approved", "rejected"} :
              LoadForApproval(c, u, r, d)
        \/ LoadForExecution(c, r)
        \/ LoadForCancel(c, r)

Next ==
    \/ Plan
    \/ \E r \in Runs : RepositoryChanges(r)
    \/ \E c \in Calls : Request(c) \/ Advance(c) \/ Abandon(c)

Spec == Init /\ [][Next]_vars

\* A call that has started goes on: the event loop serves every settled
\* promise.  Nothing obliges anyone to send a request.
FairSpec == Spec /\ \A c \in Calls : WF_vars(Advance(c))

-----------------------------------------------------------------------------
(***************************************************************************)
(* Properties.                                                             *)
(***************************************************************************)

\* The columns, the local variables and the history hold what they should; a
\* call that has reached a step is at a step of its run.
TypeOK ==
    /\ status \in [Runs -> RunStatus \cup {"absent"}]
    /\ plan \in [Runs -> Plans \cup {<<>>}]
    /\ requestedBy \in [Runs -> Requesters \cup {None}]
    /\ tolerance \in [Runs -> Tolerance]
    /\ approvedBy \in [Runs -> Approvers \cup {None}]
    /\ approvals \subseteq
          [run : Runs, decision : {"approved", "rejected"}, by : Approvers]
    /\ DOMAIN steps = Runs /\ DOMAIN effects = Runs
    /\ \A r \in Runs : /\ steps[r] \in [StepsOf(r) -> StepStatus]
                       /\ effects[r] \in [StepsOf(r) -> Nat]
    /\ violated \cup recorded \subseteq Runs \X Nat
    /\ inScope \in [Runs -> BOOLEAN]
    /\ pc \in [Calls -> {"idle", "decide", "cancel"} \cup Executing]
    /\ frame \in [Calls -> Frame]
    /\ overlapped \cup died \cup everInScope \subseteq Runs

\* Separation of duties, as far as the outside world can tell: once a step of
\* a run that needs approval has had an effect, somebody other than the
\* requester has an AgentApproval(approved) row for it.  Approvals and
\* rejections may race, and so may any number of executions.
ApprovalBeforeEffect ==
    \A r \in Runs :
        (RequiresApproval(r) /\ \E i \in StepsOf(r) : effects[r][i] > 0)
            => \E u \in ApproversOf(r) : u # requestedBy[r]

\* The approver that executeRun hands to every capability is a person who
\* approved the run: the stale copy it works from is never a null, a rejecter
\* or the requester.
ContextNamesAnApprover ==
    \A c \in Calls :
        (pc[c] \in Executing /\ RequiresApproval(frame[c].run))
            => frame[c].approver
                  \in ApproversOf(frame[c].run) \ {requestedBy[frame[c].run]}

\* Steps execute serially and the first failure aborts the run: a step has an
\* effect only when the success of every earlier step has been recorded,
\* whatever executions overlap, die or fail in between.
EffectsInOrder ==
    \A r \in Runs : \A i, j \in StepsOf(r) :
        (i < j /\ effects[r][j] > 0) => <<r, i>> \in recorded

\* A run whose steps never resolved inside the declared scope is refused
\* before any side effect lands, and never reported as carried out.
OutOfScopeUntouched ==
    \A r \in Runs \ everInScope :
        /\ status[r] \notin {"running", "completed", "failed"}
        /\ \A i \in StepsOf(r) : effects[r][i] = 0 /\ steps[r][i] = "planned"

\* As long as no two calls on a run are in flight together, no step has its
\* effect twice and the final status is the one the steps justify: completed
\* when all succeeded and, unless permissive, kept their invariants; failed at
\* exactly one step, the later ones untouched; refused for a violated
\* invariant or without a step having begun.  (The schema says of refused that
\* every step ran; the code stops at the violation or, for the scope, before
\* the first step, and that is what is stated.)
SerialRunsTellTheTruth ==
    \A r \in Runs \ overlapped :
        LET Is(s) == {i \in StepsOf(r) : steps[r][i] = s}
            broken == {i \in StepsOf(r) : <<r, i>> \in violated}
            strict == tolerance[r] # "permissive"
        IN  /\ \A i \in StepsOf(r) : effects[r][i] <= 1
            /\ status[r] = "completed" =>
                  Is("succeeded") = StepsOf(r) /\ (strict => broken = {})
            /\ status[r] = "failed" =>
                  \E i \in StepsOf(r) :
                      /\ \A j \in StepsOf(r) : j < i => steps[r][j] = "succeeded"
                      /\ steps[r][i] = "failed"
                      /\ \A j \in StepsOf(r) : j > i => steps[r][j] = "planned"
            /\ status[r] = "refused" =>
                  \/ Is("planned") = StepsOf(r)
                  \/ /\ strict
                     /\ \E i \in broken :
                          \A j \in StepsOf(r) :
                              steps[r][j] = IF j <= i THEN "succeeded"
                                                      ELSE "planned"

\* Without overlap a verdict on a run is final, except that cancelRun also
\* takes rejected and refused runs: it does not count them as terminal.
VerdictIsFinal ==
    [][\A r \in Runs \ overlapped' :
          status[r] \in {"completed", "failed", "cancelled", "rejected", "refused"}
              => \/ status'[r] = status[r]
                 \/ /\ status[r] \in {"rejected", "refused"}
                    /\ status'[r] = "cancelled"]_vars

\* A run that starts also ends: it leaves running unless its execution died.
StartedRunsSettle ==
    \A r \in Runs : status[r] = "running" ~> (status[r] # "running" \/ r \in died)
=============================================================================
