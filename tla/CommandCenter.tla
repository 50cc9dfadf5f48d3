--------------------------- MODULE CommandCenter ---------------------------
(***************************************************************************)
(* The reconciliation of the Command Center for one app: what the app,     *)
(* GitHub and Railway are like, the mirrors the passes and Railway's       *)
(* webhooks keep of them, and the risk flags the passes open and resolve   *)
(* (lib/services/command-center/, lib/integrations/risk and health).       *)
(*                                                                         *)
(* Nothing locks a pass: cron and operators may run several at once.  A    *)
(* pass has a leg for health, one for the repository and one for the       *)
(* deployment.  Each leg gathers facts, decides which flags are wanted,    *)
(* lists the open ones and then opens and resolves flags one by one.       *)
(*                                                                         *)
(* Out of the model: severities and texts, refreshing a flag that stays    *)
(* open, the snapshots and events kept for the pages, and the issues filed *)
(* for a crash; time: no deployment is seven days old here.  Flags that    *)
(* are not open are history nobody reads.                                  *)
(***************************************************************************)
EXTENDS Naturals, Sequences, FiniteSets, SequencesExt

CONSTANTS
    Passes,         \* slots for passes
    Hooks,          \* slots for webhook requests
    Healths,        \* what /api/health may be like
    Marks,          \* the sets of what a commit may bring
    Syncs,          \* which configurations of the syncs there are
    Production,     \* the app's lifecycle is production or staging
    MaxCommits, MaxDeployments,
    Histories,      \* deployments before the Command Center is set up
    MaxEvents,      \* changes of the world, failures, webhooks and verdicts
    None

DeployStatuses == {"building", "success", "failed", "crashed"}

CommandCenterAssumption ==
    /\ Healths \subseteq {"up", "degraded", "down", "missing", "none"} /\ "up" \in Healths
    /\ Marks \subseteq SUBSET {"failed_workflow", "security_sensitive_change"}
    /\ Syncs \subseteq SUBSET {"github", "railway"}
    /\ Production \in BOOLEAN
    /\ Histories \subseteq Seq(DeployStatuses)
    /\ None \notin Nat \cup [dep : Nat, status : DeployStatuses]

VARIABLES
    \* the world
    health, page,  \* of the app
    tells,         \* the answer about its health says which commit runs
    head, live,    \* number of the last commit, and of the one that runs
    marks,         \* marks[n]: the workflow of commit n failed, it is sensitive
    deployed,      \* statuses of Railway's deployments, oldest first
    synced,        \* which of github and railway are configured and know the app
    sent,          \* webhooks Railway has sent
    \* the database
    mirrorHead,    \* GitRepository.latestHeadSha
    listed,        \* the last commit whose events and runs are stored
    resource,      \* RailwayResource: none, unlinked, active or inactive
    snaps,         \* DeploymentSnapshot rows, one per deployment
    latest,        \* the deployment whose row was checked last
    open,          \* <<category, id>> of the open flags
    \* requests
    pc, frame, hookPc, hookFrame,
    \* history and bounds
    settled,       \* a pass ran undisturbed and nothing happened since
    events

world == <<health, page, tells, head, live, marks, deployed, synced>>
git   == <<mirrorHead, listed>>
rail  == <<resource, snaps, latest>>
hook  == <<sent, hookPc, hookFrame>>
vars == <<world, git, rail, open, pc, frame, hook, settled, events>>

Owned == [health |-> {"health_down", "degraded", "missing_health_endpoint", "application_error"},
          repo   |-> {"production_behind_main", "failed_workflow", "security_sensitive_change"},
          deploy |-> {"failed_deployment", "crashed_deployment", "stale_deployment",
                      "missing_railway_mapping"}]
Categories == UNION {Owned[leg] : leg \in DOMAIN Owned}

CategoriesOf(rows) == {row[1] : row \in rows}

NoFrame == [leg |-> "health", live |-> None, got |-> None, ok |-> TRUE,
            want |-> {}, seen |-> {}, lone |-> FALSE]

Active == {p \in Passes : pc[p] # "idle"}

\* Something happens that no pass can have known of.
Disturb == [p \in Passes |-> [frame[p] EXCEPT !.lone = FALSE]]
Disturbed == frame' = Disturb /\ settled' = FALSE

Event == events < MaxEvents /\ events' = events + 1

Goto(p, label) == pc' = [pc EXCEPT ![p] = label]

\* The leg after the pass's own, or the end of the pass; before, s was settled.
NextLeg(p, f, s) ==
    LET leg == IF f[p].leg = "health" /\ "github" \in synced THEN "repo"
               ELSE IF f[p].leg # "deploy" THEN "deploy" ELSE "end"
    IN /\ Goto(p, CASE leg = "repo" -> "fetchHead"
                    [] leg = "deploy" /\ "railway" \in synced -> "fetchDeployment"
                    [] leg = "deploy" /\ "railway" \notin synced -> "snapshot"
                    [] leg = "end" -> "idle")
       /\ frame' = [f EXCEPT ![p] = IF leg = "end" THEN NoFrame
                       ELSE [NoFrame EXCEPT !.leg = leg, !.lone = f[p].lone,
                                !.live = IF leg = "repo" THEN f[p].live ELSE None]]
       /\ settled' = (s \/ (leg = "end" /\ f[p].lone))

-----------------------------------------------------------------------------
(***************************************************************************)
(* The world.                                                              *)
(***************************************************************************)
Change ==
    /\ Event
    /\ Disturbed
    /\ UNCHANGED <<git, rail, open, pc, hookPc, hookFrame>>

Sicken(h, t) ==
    /\ <<h, t>> # <<health, tells>> /\ (h = "none" => ~t)
    /\ health' = h /\ tells' = t
    /\ Change
    /\ UNCHANGED <<page, head, live, marks, deployed, synced, sent>>

BreakPage ==
    /\ page' = ~page
    /\ Change
    /\ UNCHANGED <<health, tells, head, live, marks, deployed, synced, sent>>

PushCommit(ms) ==
    /\ head < MaxCommits
    /\ head' = head + 1 /\ marks' = Append(marks, ms)
    /\ Change
    /\ UNCHANGED <<health, page, tells, live, deployed, synced, sent>>

\* A deployment starts, ends or crashes, and Railway sends a webhook.
Deploy(status) ==
    /\ CASE status = "building" ->
              /\ Len(deployed) < MaxDeployments
              /\ deployed' = Append(deployed, status)
         [] status \in {"success", "failed"} ->
              /\ deployed # <<>> /\ Last(deployed) = "building"
              /\ deployed' = [deployed EXCEPT ![Len(deployed)] = status]
         [] status = "crashed" ->
              /\ deployed # <<>> /\ Last(deployed) = "success"
              /\ deployed' = [deployed EXCEPT ![Len(deployed)] = status]
    /\ live' = IF status = "success" THEN head ELSE live
    /\ sent' = sent \cup {[dep |-> Len(deployed'), status |-> status]}
    /\ Change
    /\ UNCHANGED <<health, page, tells, head, marks, synced>>

-----------------------------------------------------------------------------
(***************************************************************************)
(* Railway's webhook: any event sent, at any time, more than once.  The    *)
(* resource is created if it is missing, then the snapshot is written and  *)
(* counts as checked now.                                                  *)
(***************************************************************************)
Deliver(h, msg) ==
    /\ hookPc[h] = "idle" /\ Event
    /\ resource' = IF resource = "none" THEN "unlinked" ELSE resource
    /\ hookPc' = [hookPc EXCEPT ![h] = "snapshot"]
    /\ hookFrame' = [hookFrame EXCEPT ![h] = msg]
    /\ Disturbed
    /\ UNCHANGED <<world, git, snaps, latest, open, pc, sent>>

\* Mutant: The row keeps the time of its first check.
UpsertInPlace(dep, status) ==
    /\ snaps' = {row \in snaps : row.dep # dep} \cup {[dep |-> dep, status |-> status]}
    /\ latest' = IF \E row \in snaps : row.dep = dep THEN latest ELSE dep

\* deploymentSnapshot.upsert by railwayDeploymentId, checked now.
UpsertSnapshot(dep, status) ==
    /\ snaps' = {row \in snaps : row.dep # dep} \cup {[dep |-> dep, status |-> status]}
    /\ latest' = dep

DeliverSnapshot(h) ==
    /\ hookPc[h] = "snapshot"
    /\ UpsertSnapshot(hookFrame[h].dep, hookFrame[h].status)
    /\ hookPc' = [hookPc EXCEPT ![h] = "idle"]
    /\ hookFrame' = [hookFrame EXCEPT ![h] = None]
    /\ Disturbed
    /\ UNCHANGED <<world, git, resource, open, pc, sent, events>>

\* acknowledgeRisk, resolveRiskAction and ignoreRiskAction: a row that was read
\* open is closed by id.
Verdict(row) ==
    /\ Event
    /\ row \in open /\ open' = open \ {row}
    /\ Disturbed
    /\ UNCHANGED <<world, git, rail, pc, hook>>

-----------------------------------------------------------------------------
(***************************************************************************)
(* runReconciliation: every step is one awaited call.  A call of the       *)
(* outside world that fails is a mishap: it does not throw.                *)
(***************************************************************************)
Start(p) ==
    /\ pc[p] = "idle" /\ Goto(p, "probe")
    /\ frame' = [Disturb EXCEPT ![p] = [NoFrame EXCEPT !.lone =
                    Active = {} /\ \A h \in Hooks : hookPc[h] = "idle"]]
    /\ UNCHANGED <<world, git, rail, open, hook, settled, events>>

\* The frame f of p after a call that answered, or failed.
Called(p, ok, f) ==
    /\ IF ok THEN UNCHANGED events ELSE Event
    /\ frame' = [frame EXCEPT ![p] = IF ok THEN f ELSE [f EXCEPT !.lone = FALSE]]
    /\ settled' = (settled /\ ok)

\* evaluateRisks of a probe, without the page.
HealthRisks(h) ==
    CASE h = "none" -> IF Production THEN {"missing_health_endpoint"} ELSE {}
      [] h = "missing" -> {"missing_health_endpoint"}
      [] h = "down" -> {"health_down"}
      [] h = "degraded" -> {"degraded"}
      [] h = "up" -> {}

\* probeHealth: no answer is an app that is down.  The body is read whatever
\* the answer's status, so an app that is down or has no endpoint may still say
\* which commit it runs.
Probe(p, ok) ==
    /\ pc[p] = "probe" /\ Goto(p, "page")
    /\ Called(p, ok, [frame[p] EXCEPT
           !.want = HealthRisks(IF ok \/ health = "none" THEN health ELSE "down"),
           !.live = IF ok /\ tells THEN live ELSE None])
    /\ UNCHANGED <<world, git, rail, open, hook>>

\* probePageRender: no answer is not an application error.
ProbePage(p, ok) ==
    /\ pc[p] = "page" /\ Goto(p, "list")
    /\ Called(p, ok, [frame[p] EXCEPT
           !.want = IF ok /\ ~page THEN @ \cup {"application_error"} ELSE @])
    /\ UNCHANGED <<world, git, rail, open, hook>>

\* syncRepositoryInternal: without the repository nothing is stored; without
\* the branch the row loses its head.
FetchHead(p, repoOk, branchOk) ==
    /\ pc[p] = "fetchHead" /\ Goto(p, IF repoOk THEN "storeHead" ELSE "compare")
    /\ Called(p, repoOk /\ branchOk,
              [frame[p] EXCEPT !.got = IF repoOk /\ branchOk THEN head ELSE None])
    /\ UNCHANGED <<world, git, rail, open, hook>>

StoreHead(p) ==
    /\ pc[p] = "storeHead" /\ Goto(p, "listing")
    /\ mirrorHead' = frame[p].got
    /\ frame' = [frame EXCEPT ![p].got = None]
    /\ UNCHANGED <<world, listed, rail, open, hook, settled, events>>

\* Commits and workflow runs, which are only ever added.  Their two listings
\* succeed or fail together here.
ListCommits(p, ok) ==
    /\ pc[p] = "listing" /\ Goto(p, "compare")
    /\ listed' = IF ok THEN head ELSE listed
    /\ Called(p, ok, frame[p])
    /\ UNCHANGED <<world, mirrorHead, rail, open, hook>>

\* getRepoSnapshotForApp and evaluateRepoRisks: GitHub compares the commit
\* that runs with the head that is stored.
Compare(p, ok) ==
    /\ pc[p] = "compare" /\ Goto(p, "list")
    /\ LET comparable == frame[p].live # None /\ mirrorHead # None
           behind == ok /\ comparable /\ mirrorHead > frame[p].live
       IN /\ ~ok => comparable
          /\ Called(p, ok, [frame[p] EXCEPT
                !.want = (IF behind THEN {"production_behind_main"} ELSE {})
                         \cup (IF listed > 0 THEN marks[listed] ELSE {})])
    /\ UNCHANGED <<world, git, rail, open, hook>>

\* syncRailwayResourceInternal: the project and the latest deployment ...
FetchDeployment(p, projectOk, latestOk) ==
    /\ pc[p] = "fetchDeployment"
    /\ Goto(p, "storeResource")
    /\ Called(p, projectOk /\ latestOk, [frame[p] EXCEPT
           !.ok = projectOk,
           !.got = IF latestOk /\ deployed # <<>>
                   THEN [dep |-> Len(deployed), status |-> Last(deployed)] ELSE None])
    /\ UNCHANGED <<world, git, rail, open, hook>>

\* ... then the row, which is active if the project was read ...
StoreResource(p) ==
    /\ pc[p] = "storeResource"
    /\ Goto(p, IF frame[p].got = None THEN "snapshot" ELSE "storeSnapshot")
    /\ resource' = IF frame[p].ok THEN "active" ELSE "inactive"
    /\ frame' = [frame EXCEPT ![p].ok = TRUE]
    /\ UNCHANGED <<world, git, snaps, latest, open, hook, settled, events>>

\* ... and persistSnapshot.
StoreSnapshot(p) ==
    /\ pc[p] = "storeSnapshot" /\ Goto(p, "snapshot")
    /\ UpsertSnapshot(frame[p].got.dep, frame[p].got.status)
    /\ frame' = [frame EXCEPT ![p].got = None]
    /\ UNCHANGED <<world, git, resource, open, hook, settled, events>>

\* getDeploymentSnapshotForApp and evaluateDeploymentRisks.
LatestIs(status) == \E row \in snaps : row.dep = latest /\ row.status = status

DeploymentRisks ==
    IF resource # "active"
    THEN IF Production THEN {"missing_railway_mapping"} ELSE {}
    ELSE IF snaps = {}
    THEN IF Production THEN {"stale_deployment"} ELSE {}
    ELSE (IF LatestIs("failed") THEN {"failed_deployment"} ELSE {})
         \cup (IF LatestIs("crashed") THEN {"crashed_deployment"} ELSE {})

GetSnapshot(p) ==
    /\ pc[p] = "snapshot" /\ Goto(p, "list")
    /\ frame' = [frame EXCEPT ![p].want = DeploymentRisks]
    /\ UNCHANGED <<world, git, rail, open, hook, settled, events>>

\* Mutant: All open flags of the app are listed.
ListAllOpen(p) ==
    /\ pc[p] = "list" /\ Goto(p, "write")
    /\ frame' = [frame EXCEPT ![p].seen = open]
    /\ UNCHANGED <<world, git, rail, open, hook, settled, events>>

\* The reconcile functions of the three legs list the open flags of their own
\* categories ...
ListOpen(p) ==
    /\ pc[p] = "list" /\ Goto(p, "write")
    /\ frame' = [frame EXCEPT ![p].seen =
                    {row \in open : row[1] \in Owned[frame[p].leg]}]
    /\ UNCHANGED <<world, git, rail, open, hook, settled, events>>

Missing(p) == frame[p].want \ CategoriesOf(frame[p].seen)
Unwanted(p) == {row \in frame[p].seen : row[1] \notin frame[p].want}

\* The id of a new row is one that nobody has.
NewRow(c) ==
    LET held == open \cup UNION {frame[q].seen : q \in Passes}
    IN <<c, CHOOSE i \in 1 .. Cardinality(Passes) + 2 : <<c, i>> \notin held>>

\* ... open those that are wanted and were not listed; the unique index makes
\* the leg end at a flag another pass has opened since ...
OpenFlag(p, c) ==
    /\ pc[p] = "write" /\ c \in Missing(p)
    /\ IF c \in CategoriesOf(open)
       THEN NextLeg(p, frame, settled) /\ UNCHANGED open
       ELSE /\ open' = open \cup {NewRow(c)}
            /\ frame' = [frame EXCEPT ![p].want = @ \ {c}]
            /\ UNCHANGED <<pc, settled>>
    /\ UNCHANGED <<world, git, rail, hook, events>>

\* ... and resolve by id those that were listed and are not wanted.
ResolveFlag(p, row) ==
    /\ pc[p] = "write" /\ Missing(p) = {} /\ row \in Unwanted(p)
    /\ open' = open \ {row}
    /\ frame' = [frame EXCEPT ![p].seen = @ \ {row}]
    /\ UNCHANGED <<world, git, rail, pc, hook, settled, events>>

EndLeg(p) ==
    /\ pc[p] = "write" /\ Missing(p) = {} /\ Unwanted(p) = {}
    /\ NextLeg(p, frame, settled)
    /\ UNCHANGED <<world, git, rail, open, hook, events>>

\* A statement of the database throws.  A sync ends there and what it mirrors
\* is judged all the same; otherwise the leg is over.  Before the probe is
\* stored the pass does not know which commit runs.
Throw(p) ==
    /\ pc[p] # "idle" /\ Event
    /\ LET f == [Disturb EXCEPT ![p].got = None, ![p].ok = TRUE]
           github == pc[p] \in {"fetchHead", "storeHead", "listing"}
           railway == pc[p] \in {"fetchDeployment", "storeResource", "storeSnapshot"}
       IN IF github \/ railway
          THEN /\ Goto(p, IF github THEN "compare" ELSE "snapshot")
               /\ frame' = f /\ settled' = FALSE
          ELSE NextLeg(p, f, FALSE)
    /\ UNCHANGED <<world, git, rail, open, hook>>

\* The process dies.
Die(p) ==
    /\ pc[p] # "idle" /\ Event
    /\ Goto(p, "idle")
    /\ frame' = [Disturb EXCEPT ![p] = NoFrame]
    /\ settled' = FALSE
    /\ UNCHANGED <<world, git, rail, open, hook>>

-----------------------------------------------------------------------------
Init ==
    /\ health = "up" /\ page = TRUE /\ tells = TRUE
    /\ head = 0 /\ live = 0 /\ marks = <<>>
    /\ deployed \in Histories
    /\ synced \in Syncs
    /\ sent = {[dep |-> i, status |-> deployed[i]] : i \in DOMAIN deployed}
    /\ mirrorHead = None /\ listed = 0
    /\ resource = "none" /\ snaps = {} /\ latest = None /\ open = {}
    /\ pc = [p \in Passes |-> "idle"] /\ frame = [p \in Passes |-> NoFrame]
    /\ hookPc = [h \in Hooks |-> "idle"] /\ hookFrame = [h \in Hooks |-> None]
    /\ settled = FALSE
    /\ events = 0

World ==
    \/ BreakPage \/ \E h \in Healths, t \in BOOLEAN : Sicken(h, t)
    \/ \E ms \in Marks : PushCommit(ms)
    \/ \E status \in DeployStatuses : Deploy(status)

Step(p) ==
    \/ \E ok \in BOOLEAN : Probe(p, ok) \/ ProbePage(p, ok) \/ ListCommits(p, ok) \/ Compare(p, ok)
    \/ \E ok, ok2 \in BOOLEAN : FetchHead(p, ok, ok2) \/ FetchDeployment(p, ok, ok2)
    \/ StoreHead(p) \/ StoreResource(p) \/ StoreSnapshot(p) \/ GetSnapshot(p)
    \/ ListOpen(p) \/ EndLeg(p)
    \/ \E c \in Categories : OpenFlag(p, c)
    \/ \E row \in open \cup frame[p].seen : ResolveFlag(p, row)

Next ==
    \/ World
    \/ \E h \in Hooks : DeliverSnapshot(h) \/ \E msg \in sent : Deliver(h, msg)
    \/ \E row \in open : Verdict(row)
    \/ \E p \in Passes : Start(p) \/ Step(p) \/ Throw(p) \/ Die(p)

Spec == Init /\ [][Next]_vars

\* Cron calls again and again, and what a pass awaits answers or times out.
Fairness == \A p \in Passes : WF_vars(Start(p)) /\ WF_vars(Step(p))

FairSpec == Spec /\ Fairness

-----------------------------------------------------------------------------
\* What each variable may hold: one open flag per category, and a row's id
\* is nobody else's.
TypeOK ==
    /\ Cardinality(CategoriesOf(open)) = Cardinality(open)
    /\ CategoriesOf(open) \subseteq Categories
    /\ \A p \in Passes : pc[p] = "idle" => frame[p] = NoFrame
    /\ resource \in {"none", "unlinked", "active", "inactive"}
    /\ \A a, b \in snaps : a.dep = b.dep => a = b
    /\ snaps # {} => \E row \in snaps : row.dep = latest

\* When each flag should be open: the rules of risk/evaluator.ts and its like for
\* repositories and deployments, read against the world.  They are the table in
\* docs/COMMAND_CENTER.md but for missing_health_endpoint, which the document and
\* the head of evaluator.ts keep to production and the code opens on a 404 at any
\* lifecycle.
Trigger ==
    [health_down |-> health = "down",
     degraded |-> health = "degraded",
     missing_health_endpoint |-> health = "missing" \/ (Production /\ health = "none"),
     application_error |-> ~page,
     production_behind_main |->
        "github" \in synced /\ tells /\ live < head,
     failed_workflow |->
        "github" \in synced /\ head > 0 /\ "failed_workflow" \in marks[head],
     security_sensitive_change |->
        "github" \in synced /\ head > 0 /\ "security_sensitive_change" \in marks[head],
     failed_deployment |->
        "railway" \in synced /\ deployed # <<>> /\ Last(deployed) = "failed",
     crashed_deployment |->
        "railway" \in synced /\ deployed # <<>> /\ Last(deployed) = "crashed",
     stale_deployment |-> Production /\ "railway" \in synced /\ deployed = <<>>,
     missing_railway_mapping |-> Production /\ "railway" \notin synced]

FlagsTellTheTruth ==
    CategoriesOf(open) = {c \in DOMAIN Trigger : Trigger[c]}

\* An undisturbed pass leaves exactly the flags open that the rules ask for,
\* whatever was left behind by passes that overlapped or died, by late and
\* repeated webhooks and by failed calls; and until the world changes, further
\* passes, also overlapping ones, do not touch them.
SettledFlagsTellTheTruth == settled => FlagsTellTheTruth

\* Once nothing changes and nothing fails any more the flags become true and
\* stay so, though passes go on overlapping.
FlagsConverge == <>[]FlagsTellTheTruth
=============================================================================
