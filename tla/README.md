# MacTech Suite Platform: a TLA+ model of its long-running state

The platform is a Next.js application over Postgres (Prisma), with Clerk for
identity, QuickBooks Online for money, and GitHub and Railway as the systems it
watches. Its business rules live in `lib/`, called by the handlers in `app/api`.
Every request, webhook and cron tick is an asynchronous function; nothing but a
few `$transaction` blocks ties two of its database statements together. What can
go wrong is therefore mostly *between* statements: another call, a crash, a
repeated delivery. This project models the parts where that matters, checks them
with TLC, and proves with TLAPS every safety property that the passing runs check.

Conventions shared by all modules: a call is a slot `c` with a program counter
`pc[c]` and local variables `frame[c]`; an action is one awaited statement with
the synchronous code up to the next; what a call read earlier stays in `frame`,
however the row changes. History variables (named so where they are declared)
only record; no guard of a modelled statement reads them.

## Components

| component | state | operations | what makes it correct |
|---|---|---|---|
| Agent orchestrator (`lib/agents/orchestrator.ts`, `intent/scope.ts`) | AgentRun, AgentStep, AgentApproval rows | createPlan, approveRun, executeRun, cancelRun | no effect without consent or outside the scope; steps in order; verdicts true and final |
| Trigger scheduler (`lib/agents/scheduler.ts`, `triggers-service.ts`) | AgentTrigger rows | create, update, enable/disable, delete, tick, threshold pass | each slot once, each rising edge once, no schedule lost, no trigger wedged |
| Order settlement and provisioning (`payment-service.ts`, `qbo-event-processor.ts`, `provisioning-service.ts`) | Order, Payment, QuickbooksWebhookEvent, CustomerOrganization, AppEntitlement, Subscription rows | webhook, inline handler, sweep, manual and card payment, provisionOrder | apps only for money, money always recorded, one organization per company, provisioned means complete |
| Checkout (`checkout-service.ts`) | Order, invoice, recurring template | start checkout | one order and one invoice per idempotency key, each invoice on its order |
| Outbound webhooks (`webhook-service.ts`) | WebhookSubscription, WebhookDelivery | dispatch, attempts, manual retry, pause, delete | a delivery ends delivered or abandoned and says the truth |
| Hub audit chain (`lib/hub-audit.ts`, `hub-audit-core.ts`, `audit.ts`) | hash-chained AuditLog, an advisory lock, AuditExportManifest | ingest, append, verify, export | one gapless chain under concurrent appends, complete exports, truthful answers |
| App registry (`app-registry-service.ts`) | AppRegistry rows, which AuditLog rows point to | upsert, delete | an approved deletion of an unreferenced app succeeds |
| Clerk mirror (`clerk-sync-service.ts`, members in `user-service.ts`) | user, organization, membership rows | upsert and delete on Clerk events, visit, operators' calls, reconcile | removal ends access whatever the order of events, a visit repairs what was lost, suspension holds |
| Hub authority (`lib/hub-authority.ts`, `packages/hub-client`) | answers kept for a TTL | ask, decide, keep | revoked access ends within the TTL |
| Entitlements and Clerk metadata (`entitlement-service.ts`, `customer-org-service.ts`) | organization and entitlement rows, Clerk's public metadata | create, change, push | Clerk's copy is the rows' truth |
| QuickBooks connection (`connection-service.ts`) | one active row with a rotating refresh token | connect, refresh, disconnect | the company connected last is active, with the newest token |
| Object references (`suite-object-reference.ts`) | reference rows | create, verify, supersede | one per version, supersessions end at an active one |
| Feedback (`app/api/feedback/`) | Feedback rows, GitHub issues | submit, set status, dispatch | no item is filed more often than it was opened; one marked has its issue |
| Command Center (`lib/services/command-center/`, `lib/integrations/risk`, `health`) | mirrors of GitHub and Railway, OperationalRiskFlag rows | reconciliation passes, Railway's webhook, verdicts | the open flags are those the risk rules ask for |
| Crash auto-fix (`crash-auto-fix-service.ts`) | audit entries, GitHub issues | file by itself, file by hand | issues no closer than a cooldown |
| Platform operators (`updatePlatformUser`, `inviteMacTechAdmin` in `user-service.ts`) | role and status of the profiles | change, invite, promote | an active super admin always remains |
| Contract registry (`app/api/hub/contracts`) | Contract, ContractLifecycleEvent, ContractMembership rows | create, award, transition, grant and remove members | the log leads step by step to the stage, and not out of closeout |
| API keys (`api-key-service.ts`) | ApiKey rows | issue, rotate, revoke, verify | what was revoked stays so; one live key per line |
| Suite workflow gates (`suite-workflow-core.ts`) | none, pure | gate evaluation | agrees with the contract |
| everything else (permissions, read models, AI service, packages, pages) | | | CRUD, aggregation or I/O, not modelled; reasons in `PROJECT.json` |

How they interact: an order is made by a checkout and settled by a payment; its
provisioning creates the organizations and entitlements that the Clerk mirror keeps in
step with Clerk, the metadata push copies to Clerk and the authority answers read;
triggers start agent runs through `createPlan` and `executeRun`; a pass of the Command
Center and Railway's webhook file fixes for crashes; nearly every operation writes an
audit entry (which extends the hub chain, may throw, and dispatches outbound webhooks).

## Modules

### AgentRuns, AgentRunsProofs, MCAgentRuns
`AgentRuns` has the run's columns (`status`, `plan`, `requestedBy`, `tolerance`,
`approvedBy`), the `approvals`, the `steps` and their violation flag, whether the
steps resolve inside the declared scope (`inScope`, which changes when
`git_repository` rows change), and the calls in flight. `CreatePlan` is
`createPlan`; `LoadForApproval` and `Decide` are the read and the transaction of
`approveRun`; `LoadForExecution`, `CheckScope`, `RefuseScope`, `Start`,
`BeginStep`, `UnknownCapability`, `Invoke`, `Commit`, `CommitThrows`,
`AuditViolation`, `Caught` and `Finish` are the statements of `executeRun`;
`LoadForCancel` and `Cancel` are `cancelRun`. `Abandon` is a statement outside the
try that throws, or a process that dies. What a capability does is its effect,
counted in `effects`, and whether it resolves.

### OrderFlow, OrderFlowProofs, MCOrderFlow
Three kinds of calls settle an order and interleave: the handler started by the
webhook (`HandleInline`), the sweep (`Sweep`), an operator (`LoadChargeable`).
`MarkProcessing`, `SkipEntity`, `MatchOrder`, `EntitiesDone`, `CloseEvent` are
`runHandler` and `handlePaymentChange`; `ChargeSucceeds`, `ChargeDeclined`, `Book`,
`BookRejected`, `RecordPayment`, `Settle` are `chargeOrderPayment`,
`recordManualPayment` and `settleOrder`; `LoadOrder`, `ResolveOrg`, `PickSlug`,
`CreateOrg`, `Entitle`, `Subscribe`, `Finish` are `provisionOrder`. `Throw` is a
statement that rejects inside the handler, `Abandon` the death of the process.
`BuyerPays`, and the answers of QuickBooks and its gateway, are external.
Unique keys of the schema (a subscription's order, an organization's slug) reject
inserts. `MCOrderFlow` has a company with two orders, the second placed
from a free mailbox.

### AgentTriggers, AgentTriggersProofs, MCAgentTriggers
A row's `what` is its cron expression or its metric key. A tick holds the copies it
read; `AdvanceSlot`, `DisableRejected`, `Fire`, `RecordSuccess`, `SuccessThrows`,
`RecordFailure` are the loop of `runCronTick`; `ReadThresholds`, `SkipUnknown`,
`MetricThrows`, `Evaluate`, `Stamp` are `runThresholdEvaluations`, which shares the
last four. Operators' calls (`LoadForEdit`, then `UpdateTrigger`,
`SetTriggerEnabled` or `DeleteTrigger`) interleave with it. `LoadForEdit` ends with the
synchronous code after the read, which looks at the clock and computes the next slot; the
write stores that slot, however late it comes. `RowGone` is Prisma's
update of a row that no longer exists: it throws. `Release` is a deployment whose
parser or metric registry differs. `mishaps` records which triggers were held by
two calls at once or by a call that died, so that the properties can say exactly
what they need to be undisturbed by.

### HubLog, HubAudit, HubAuditProofs, MCHubAudit
`HubLog` is what the log promises its callers: a list that grows at its end, an event
in it once at most, and what each caller was told ("recorded" with a place, refused,
or broken down). `HubAudit` is how the code does it and has `HubLog!Spec` as the
property `ImplementsLog`.

`rows` is the table as committed. An append is a transaction of several statements:
`Begin`, `TakeLock` (`pg_advisory_xact_lock`), `ReadLast`, `Insert` (which commits),
then `Answer`; `frame[r]` holds the attempt, the snapshot, the last row read and the
number written. The ways out are `LoseRace` (P2002: again, or null after the last
attempt), `LoseReference` (a foreign key), `Abort` (time limit, broken connection,
dead process: rolled back, the lock goes with the transaction) and `LoseAnswer` (the
commit happened, its answer is lost). Before the append come the checks of the
ingestion endpoint (`VerifyAuditServiceRequest`, `ValidateCanonicalReferences`) or
the registry operation that is being audited (`UpsertApp`; `CountReferences` and
`DeleteApp`). `ExportManifest` is `createAuditExportManifest`.

Nothing in the repository fixes the isolation level of these transactions, so it is a
variable chosen at the start. At PostgreSQL's default, `read committed`, each
statement sees what is committed by then, and the lock does the work. Under
`repeatable read` the snapshot is taken by the first statement, the one that *waits*
for the lock, so the last row read may be old; there the unique `sequenceNumber` and
the retry do the work. The chain and the refinement hold at both levels;
`LockSparesRetries` says what the default buys.

A hash is modelled by what was hashed, so equal hashes mean equal contents. Rows the
migration chained carry hashes of another format and reference no app. The key of an
app stands for the id of its row, the payload for the event; signatures, the time
filter of exports and the second factor are left out or are a choice. The export's
query and insert are one action because what is stored depends on the rows read alone.

### ClerkMirror, ClerkMirrorProofs, MCClerkMirror
One organization and the people who may belong to it. Clerk's side (accounts, members,
the events it sends) is external: `SignUp`, `DeleteAccount`, `Join`, `Leave`,
`ChangeRole`, `DeleteOrg`; `GiveUp` is Clerk's last unsuccessful attempt at an event.
`Receive` takes any event that was sent and not acknowledged, so events come late,
repeated and in any order. The handler's statements follow by kind: `FindUser`,
`StoreUser`; `FindDeletedUser`, `Suspend`; `FindOrg`, `StoreOrg`, `ArchiveOrg`;
`FindMember`, `Grant`; `FindRemoved`, `Revoke`. `Visit` is `/welcome`: `Authenticate`,
`ListMemberships`, `FindAccess`, `Heal`. A person met for the first time is asked for at
Clerk and found by mail address (`AskClerk`, `FindByEmail`, `Adopt`). The operators'
calls of `user-service.ts` and `employee-onboarding-service.ts` are `Operate` and what
follows (invite, onboard, resend, update, suspend, role, add, remove), and `Reconcile`
compares the whole organization. `disturbed` records whose calls or events crossed: an
event disturbs its subject when an older one of the same subject is still to be handled
(`Overtaking`).

### WebhookDelivery
A dispatch starts one worker per matching subscription: `Create`, then `Send` with the
answers a receiver can give (a 2xx whose answer is lost included), `RecordDelivered`,
`Book`, `RecordFailure`, `GiveUp`. Operators resend a receipt (`Retry`, `Resend`,
`RecordRetry`), pause or delete the subscription, which deletes the receipts under the
worker (`ReceiptGone`). `AbandonWorker` is the death of the process.

### HubAuthority
The Hub's reads are separate actions (`VerifyService`, `ReadUser`, `ReadOrganization`,
`ReadRecord` in any order, as they are awaited together), `Allows` has the objections of
`hub-authority-core.ts`, without the reason it reports, `Snapshot` the stamp. The satellite keeps an
answer (`Receive`) and uses it until the stamp is older than `TTL`.

### OrgMetadata
`Create`, `CreateInClerk`, `StoreOrg`; `Grant`, `StoreEntitlement`; `WriteStatus`;
`Upsert` for the toggle and the bulk change; `Provision` for the push of an order; all
end in `ListEnabled` and `Push`, which replaces Clerk's metadata as a whole.

### Checkout, QuickbooksConnection, ObjectReferences, FeedbackDispatch, CrashAutoFix
Each is one service, one action per awaited call, with the outside world refusing, or
doing it and losing the answer. `Checkout`: `Lookup`, `CreateOrder`, `CreateInvoice`,
`CreateTemplate`, `StoreInvoice`, `FailOrder`. `QuickbooksConnection`: `Connect` and
`Refresh` spend and rotate a token, `Deactivate` and `Upsert` store the result,
`Disconnect`, `Revoke`. `ObjectReferences`: `Find` then `Store`, `Verify`, `Deprecate`
then `Supersede`. `FeedbackDispatch`: `ReadOpen`, `File` per repository, `Mark`; an issue has
room for 16,000 characters, so `File` tells of some items of its group (`filed`) and may leave
others out (`omitted`), and `Mark` marks and links them all. Which repository an item is about
is chosen at the start (`repoOf`).
`CrashAutoFix`: `Check` reads the cooldown from audit entries, `Diagnose`, `File`,
`Record` writes the entry the next `Check` will read.

### PlatformAdmins
`Update` is a request for `updatePlatformUser`, for any role and any status of
`UserStatuses`, the constant for the seven of `validations/user.ts`; `Load` reads the profile
as it was and refuses to demote or to suspend oneself, but takes any other status
(`user-service.ts:701`); `Count` counts the other active super admins, `Write` stores what
was asked. `Invite`, `EnsureProfile`, `CreateInvitation`, `Promote` are
`inviteMacTechAdmin`. `SignIn` and `DeleteAccount` are what Clerk's events do to a profile.
`stale` records that a profile changed between the read a write rests on and the write.

### HubContracts
`CreateContract` is `handleCreate` (one transaction on new rows); `LoadForAward`, `Award`,
`CreateAwardEvent` are `handleAward`, which updates the contract first and so holds its row
until it commits; `LoadForLifecycle`, `CreateEvent`, `UpdateStage` are `handleLifecycle`,
which inserts the event first. What a transaction inserted is visible from its last
statement, with which it commits. `GrantMember`, `FindMember`, `DeleteMember` are the
members' endpoints. `overlapped` records the contracts on which two transitions were in
flight together.

### ApiKeys
`LoadForRotation`, `IssueSuccessor`, `RevokePredecessor` are `rotateApiKey`,
`BeginRevocation`, `RevokeApiKey` are `revokeApiKey`, `CreateApiKey` is itself. `line` says
for each key from which first one it was rotated; no column of the row does, only an audit
entry. `disturbed` records the lines two calls worked on together or whose rotation stopped.

### CommandCenter
For one app: the world (health, page, commits, deployments), the mirrors of it, the open
flags, and the passes of `runReconciliation`. A pass has three legs; each gathers
(`Probe`, `ProbePage`; `FetchHead`, `StoreHead`, `ListCommits`, `Compare`;
`FetchDeployment`, `StoreResource`, `StoreSnapshot`, `GetSnapshot`), lists the open flags
of its own categories (`ListOpen`) and then opens (`OpenFlag`, against a unique index) and
resolves (`ResolveFlag`, by id) one at a time. `Deliver` and `DeliverSnapshot` are
Railway's webhook, `Verdict` the operators' three buttons. `Throw` is a statement that
rejects, which ends a sync or a leg; `Die` is the process. The world says whether the health
endpoint answers well and, apart from that, whether its answer names the commit that runs
(`tells`): a probe takes the commit of an answer of any status. `Trigger` has the risk rules
as the code has them (`risk/evaluator.ts` and the services for repositories and deployments),
read against the world, not against the mirrors: the property compares the flags with it. They
are those of `docs/COMMAND_CENTER.md` but for `missing_health_endpoint` (disagreement 20).

### MCServices, AccessProofs, RecordProofs; MCBackground, BackgroundProofs
Small services that share no record are checked in one run each: at the start one of
them is chosen and only it moves. Every property is restated there under its service. The
proofs are about these combinations too: `AccessProofs` and `RecordProofs` about the ten
services of `MCServices`, `BackgroundProofs` about the two of `MCBackground`.

## Runs

| run | instance | shows |
|---|---|---|
| AgentRuns | 1 run, 2 calls, 3 approvers of whom one is the requester, 3 plans | everything under "checked" below, with crashes and racing calls |
| OrderFlow | 2 orders of one company, 1 payment, 1 event, 2 calls, 1 charge | the safety of settlement and provisioning |
| OrderFlowSettles | 1 order, 1 organization made in Clerk | an event leaves `processing` unless its handler died |
| OrderFlowResumable | 1 recurring order | *violation*: a stop after the subscription leaves an order no retry can finish |
| AgentTriggers | 1 trigger, 1 expression, 1 metric, 1 tick at a time, 1 operator, 3 instants, 2 edits or releases, 1 crash | what fires and when, no lost schedule, nothing stays due |
| HubAudit | 3 requests, 2 apps, 1 old event or none, 2 attempts, 1 export, both isolation levels | the chain, the lock, the exports, the refinement of HubLog |
| HubAuditDeletion | the same | *violation*: an app with audit rows can never be deleted |
| ClerkMirror | 1 person with up to 2 accounts, 2 calls, 2 changes at Clerk | removal ends access, a visit repairs, a suspended profile stays so |
| ClerkMirrorSuspension | the same | *violation*: access an operator suspended becomes active by itself |
| Background | webhook delivery (1 subscription, 1 event, 2 attempts, 2 operators) or the Command Center (2 passes, 1 webhook at a time, 2 events) | receipts and flags tell the truth, deliveries settle, flags converge |
| Services | one of ten services with 2 calls each (3 submissions in Checkout; 3 API keys; 1 contract with 4 transitions) | the property of each |
| OrgMetadataTraining | 1 call, 2 apps | *violation*: any later push drops the training courses |

**Checked of AgentRuns.** `ApprovalBeforeEffect`, `ContextNamesAnApprover`,
`EffectsInOrder` and `OutOfScopeUntouched` hold whatever races.
`SerialRunsTellTheTruth` and `VerdictIsFinal` need that no two calls worked
on the run together, which the code does not enforce: a run's status is read in
one statement and written in another. What `refused` says of the steps is what the code
does, against one reading of the documents (disagreement 18). `OutOfScopeUntouched` is about
runs that never were in scope: one that once was is not looked at again. `StartedRunsSettle`
is the liveness property; a run whose call died or threw outside its try never settles, and is
exempt.

**Checked of OrderFlow.** `EntitledOnlyIfPaid`, `PaidIsRecorded`,
`ProvisionedIsComplete` and `ProcessedMeansProvisioned` hold whatever races (the last takes
the side of the code against its comment: disagreement 19). `OneOrgPerDomain` names the race
it needs to be spared, and `ProvisionedOnce` spares one-time orders that two calls overlapped
on, which are provisioned twice. `EventsSettle` spares events whose handler died.

**Checked of AgentTriggers.** `SlotsFireOnce`, `FiresAreRisingEdges`,
`EdgesAreAnswered`, `EnabledHasASlot`, each with the disturbances it does
not survive in its own text, and `DueIsServed`. `SlotsFireOnce` does not survive a tick that
fires between the read and the write of an operator's call: `updateTrigger` and
`setTriggerEnabled` compute the next slot before they await the update
(`triggers-service.ts:152-157`, `234-240`), store the fired slot back, and the next tick fires
it again. `EdgesAreAnswered` does not survive a death between storing the condition and firing.

**Checked of HubAudit.** `ChainUnbroken`, `ManifestIsComplete` (no row turns up later
below what an export covered), `LockSparesRetries` and `ImplementsLog`.

**Checked of ClerkMirror.** `NoStaleAccess`, `VisitHeals` and the action property
`SuspendedStays`, each for people whose calls and events did not cross; what crossing
does is that a stale copy is written back, which the code does nothing against. `VisitHeals`
asks for rows that are missing or stuck at `invited`; of somebody an operator keeps suspended it
asks nothing, since his waking up is what `SuspensionHolds` finds wrong.

**Checked of Background.** `ReceiptTellsTheTruth` and, as liveness, `DeliveriesSettle`.
`SettledFlagsTellTheTruth`: an undisturbed pass repairs whatever overlapping or dead
passes, late webhooks and failed calls left behind, and further passes, also overlapping
ones, leave it so. `FlagsConverge`: when the world has become quiet the flags become true
and stay so without any pass having to run alone.

**Checked of Services.** `AccessEndsWithTTL`, `MetadataTellsTruth`, `CheckoutBillsOnce`,
`ConnectionIsGood`, `ReferencesResolve`, `FeedbackIsFiledOnce`, `FixesAreSpaced`,
`LastSuperAdminStays`, `LogTellsTheStage`, `LinesEnd`. Most name what breaks them (an overlap, a death, a lost answer) in a
history variable, because the code has no protection against it; `AccessEndsWithTTL` needs
no exception. It does not claim that an entitlement was active and unexpired at one and the
same moment, because the Hub compares the expiry with the request's stamp and reads the
status later: one reinstated after it had expired is let through once more. `LastSuperAdminStays` does
not cover a deletion at Clerk, an invitation that lowers an operator, or the last super admin's
request to make himself inactive, revoked, expired, deleted or invited: no guard looks at them.
`FeedbackIsFiledOnce` does not say that every dispatched item was told of: it was, or its issue
had no room for it. Of `LogTellsTheStage` one part has no exception:
a crash between the statements of a transaction, at any interleaving, never leaves a stage
that the log does not know.

**Type invariants.** Each module but `CrashAutoFix` has a `TypeOK`, which was checked while
the module was written and is not among the runs' properties. Those of AgentRuns, OrderFlow,
AgentTriggers and ClerkMirror are theorems; the proofs about the other modules begin with a
type invariant of their own.

**Bounds.** In HubAudit three requests are one more than a race needs, so that the loser
of one race meets the winner of the next; two attempts stand for the code's twelve,
since the loop has a first, a last and otherwise equal rounds; one old event gives both
a chain that starts from genesis and one that starts from a foreign hash. The requests
are symmetric: they differ in nothing but their names, and the run has no liveness
property. In ClerkMirror two accounts let an address move to a new account, two changes
let an event overtake its predecessor, and two calls are what a race needs; the calls are
symmetric. Three changes were checked once, while `Overtaking` was written (27,894,117
states, too long a run to keep): an earlier form, which looked only for newer events
already handled, held with two changes and failed with three. In WebhookDelivery two attempts stand for the code's five (a first, a last),
two operators can both resend one receipt, and four requests are the worker's two and
one of each operator. In the Command Center two passes overlap; the endpoint is up or down, with or without the
commit, of an app in production (each of the other states of health opens one flag by the same
path, and the proof covers them all); two events (of the
world, failures, webhooks, verdicts) are enough for a late webhook after a commit or a
failed call after a crash; a deployment that failed and one that works are there from
the start, so that a late webhook can name an old one. In Services the time to live, the
cooldown and the clock are the smallest for which an answer or an entry can be fresh, at
its limit and past it; three submissions under one key let a third meet the outcome of
two; three references can form a cycle; two repositories let the second group of a
dispatch fail; two operators can each lower the other, and `inactive` stands for the statuses besides active and
suspended, which the code treats alike; two items are in one repository or in two, and an issue
has room for one or both; four transitions let two of a fork
be followed by another; three keys let a successor be rotated in turn. In the other modules all properties relate one run, order (or two of one
buyer) or trigger to at most two calls: what a third call adds is another stale copy,
and a second one already shows what a stale copy does. Plans have at most two steps
because order, failure in the middle and a tail left untouched need two. One event with
one entity suffices because events share nothing but the order, and the sweep and the
inline handler already handle the same event together. Three instants let a slot pass, a
cooldown of two end, and an edit fall between. One crash suffices for what a crash
leaves behind; in `AgentRuns` and `OrderFlow` crashes are not bounded. The AgentTriggers
run has one tick at a time, because with two on one trigger every property exempts the
trigger; with two triggers, two taken per tick, one edit and no crash the same properties
were found to hold while the module was last changed, in a run too long to keep.

**Fairness.** Weak fairness of `Advance(c)`: Node's event loop serves every settled
promise, so a call that has begun and has not died takes its next step. Weak
fairness of `StartTick`: the workflow `.github/workflows/agent-triggers-cron.yml`
pokes the endpoint every five minutes. Weak fairness of a delivery's `Work`: the worker's
requests have a time limit and its sleeps end. Weak fairness of the Command Center's
`Start` and `Step`: the cron of `docs/COMMAND_CENTER.md` ("Wiring cron on Railway"), once it
is wired, calls every five minutes and what a pass awaits answers or times out; `Throw`, `Die`, the world
and the webhooks are not part of it. Nobody is obliged to approve, pay, deliver, resend
or retry anything. `CHECK_DEADLOCK FALSE` stands where the bounded instance may
have nothing left to do.

**Mutants.** Each checked property has a mutated form of a modelled definition
(the operators commented "Mutant") under which TLC finds it violated.

## Where code and text disagree

Shown by a run:

1. `provisioning-service.ts:21-23`, "a stable resumable state"
   (`OrderFlowResumable`).
2. `app-registry-service.ts:122-123` and the delete dialog (line 77) promise that an
   unreferenced app is removed, or a clear message. Every app registered through the
   platform has an audit row that points to it; the deletion sets that reference to
   null, which the append-only trigger rejects (`HubAuditDeletion`). The same holds of
   the other references of `AuditLog` that are set to null on deletion (user profiles,
   organizations, service identities, object references), whose deletions are not
   modelled.
3. `components/forms/customer-user-actions.tsx:239`, a suspended user loses access "until
   reactivated" by an operator: his next visit or membership event reactivates him
   (`ClerkMirrorSuspension`).
4. `clerk-org-service.ts:70-72`, the courses "across all its purchased packages": every
   push but the provisioning's drops them (`OrgMetadataTraining`).

In the models or beside them, without a run of their own:

5. `prisma/schema.prisma:1790`, re-running execute "never doubles up steps": the
   rows do not double, the effects of two overlapping executions can (`AgentRuns`).
6. `payment-service.ts:17-19`, "provisioning never double-runs": webhook and operator
   can provision a one-time order twice (`OrderFlow`).
7. `provisioning-service.ts:347`, individuals "get their own org": two private buyers at
   one mail provider can share one (`OrderFlow`).
8. `scheduler.ts:21-22`, "one bad trigger does not poison the rest of the tick": the
   advance of a trigger deleted meanwhile (line 143) throws and ends it (`AgentTriggers`).
9. `scheduler.ts:206-208`, no refire within the cooldown: overlapping ticks fire twice
   (`AgentTriggers`).
10. `docs/COMMAND_CENTER.md:204`, duplicates of Railway's webhook "are a no-op": each counts
    as checked now, so one of an old deployment makes it the latest and reopens its crash
    until the next sync (`CommandCenter`).
11. `risk-service.ts:33-36`, without a page probe "we leave any existing application_error
    flag in place": it is resolved, as it is after a probe that failed (`CommandCenter`).
12. A project or branch that cannot be read resolves flags that are still true and opens
    `missing_railway_mapping`, until a pass can read it again (`CommandCenter`).
13. `crash-auto-fix-service.ts:5-6` and `19-20`: the page-render sentinel fires no fix, and
    calls skipped for the feature flag or a missing repository leave no audit entry.
14. `user-service.ts:692`, "Self-lockout protection", and `:705`, "preserves access": `:701`
    refuses only `suspended`, and the request may ask for five other statuses that end one's own
    access (`validations/user.ts:3-11`, `44-48`), so the last super admin can take himself away
    with nothing in between; two demotions at a time pass the count together; and an invitation
    of an operator to a lower role passes neither guard, his own included (`PlatformAdmins`).
15. `checkout-service.ts:15-18`: two submissions of one key at a time bill twice, and one
    that failed is answered "Already processed" ever after, which no retry mends
    (`Checkout`, whose property names the overlap).
16. `app/api/hub/contracts/[[...path]]/route.ts:265-267` means to refuse a contract that "is
    already awarded or closed", but looks at two stages: one awarded and then moved to `MOD`
    or `OPTION` is awarded again, with a new award date. And `prisma/schema.prisma:2249`,
    "Authoritative log": transitions in flight together both start from the stage they read,
    and one may reopen a closed contract (`HubContracts`).
17. `api-key-service.ts:88-89`, "the caller has time to swap in the new key before the old one
    stops working": the new key's plaintext is returned after the old one was revoked
    (`ApiKeys`). A key revoked while it is being rotated lives on in its successor.
18. `prisma/schema.prisma:1617-1620`, "every step ran, but at least one declared invariant did not
    hold", and `docs/AGENT_OPS.md:83-85`, "every step ran cleanly": a run refused by the scope
    check has run no step, and one refused by an invariant stops at the failing step, so the later
    ones stay planned, as `AGENT_OPS.md:77-78` says ("Subsequent steps are not executed").
    `SerialRunsTellTheTruth` follows the code and that sentence (`AgentRuns`).
19. `qbo-event-processor.ts:199-201`, "Provisioning failure shouldn't fail the webhook handler", is
    followed by the throw that does fail it: the event becomes `failed` and the sweep takes it up
    again. `ProcessedMeansProvisioned` follows the code; were the comment followed, a payment
    whose provisioning failed would be filed as processed (`OrderFlow`).
20. `docs/COMMAND_CENTER.md:114-115` and `:229`, and `evaluator.ts:12-13` and `77-78`, keep
    `missing_health_endpoint` to apps in production: an endpoint that answers 404 opens it at any
    lifecycle (`evaluator.ts:100-113`; `CommandCenter`).

In the models, and against no text: items of feedback an issue has no room for are marked
dispatched and linked to it all the same, and so leave the list of open ones untold
(`feedback-service.ts:62-78`, `dispatch/route.ts:101-111`; `FeedbackDispatch`). A trigger's slot
that fires between the read and the write of an operator's call fires once more
(`triggers-service.ts:152-157`, `234-240`; `AgentTriggers`).

Read, and outside the models: `stale_deployment` ("No successful deployment in 7+ days")
does not fire as long as the sync keeps storing the last success as checked now
(`deployment-intelligence-service.ts:124-134`); `hub-audit`'s `ExportManifest` cannot
succeed for a batch with a row from before the migration, because `verifyAuditRow`
recomputes the hash in the new format (this one is in the model).

## Proofs

Every invariant and action property of the passing runs is a theorem, and so is the
refinement of `HubLog`. The theorems hold for any sets of calls, rows and people and any
bounds that satisfy the named assumptions, and they exempt what the properties exempt: most
speak of records that calls worked on one after the other, whatever they did before and whatever
others did elsewhere. Each is proved as `Init => IInv`,
`IInv /\ [Next]_vars => IInv'` with one step per action, and `IInv => Inv`, combined by PTL;
invariants in doubt were given to TLC first. Their common theme is what a call's copy of
a row is still worth statements after it was read.

The assumptions say how sets relate (an operator is a call, a recurring order is an order),
that bounds are numbers, and that the values for "nothing" and "error" are none of the
things they stand beside, which in the code is the difference between null or a thrown error
and a row. Histories are part of the models: where the code has no protection against a race,
the theorem names the race, as the property does.

### AgentRunsProofs
From `PlansAssumption`, `CancellersAssumption` and `NoneAssumption`:

- `TypeCorrect`: `TypeOK` alone is not inductive: a call past its first statement must hold
  an existing run and, inside the loop, a position of its plan.
- `EffectsAreApproved`, `ContextIsTruthful`: a call may only reach a step because it saw
  `planned` or `approved` at its first statement, long ago. The invariant carries this along:
  a run whose status is `approved` has an approver other than the requester, `approvals` only
  grow, `planned` is never the status of a run that needs approval, and every call deciding
  on a run was sent by somebody else than its requester.
- `StepsInOrder`: each executing call has recorded every step before its position, or found
  it recorded; `recorded` only grows.
- `TheUnscopedAreUntouched`: a call gets past `checkScope` only on a run that once resolved in
  scope, and only calls past it write steps or have effects.
- `TheSerialAreTruthful`: on a run no two calls overlapped on, the steps before a call's
  position succeeded once, those after it are untouched, and the row is as the call found it;
  a status says of the steps what the label of the last call allowed it to say.
- `VerdictsStand`: the action property, from the same invariant: whoever still writes saw a
  status that is no verdict, and nobody else has written since.

### OrderFlowProofs
From the four assumptions of `OrderFlow`. Types first (`OrderTypeCorrect`): a call that
settles has an order of ours, one that entitles has an organization that exists, and every
`CHOOSE` finds what it looks for (`findExistingOrgForBuyer` a row of that domain,
`ensureUniqueSlug` a free number, by counting). Then one invariant each:

- `OnlyThePaidAreEntitled`: money moved for the order of every call past its charge.
- `ThePaidAreRecorded`: an order that says paid has its evidence (not the other way round): a call
  past its record has a Payment row, or a refused one, to show.
- `TheProvisionedAreComplete`: what a provisioning has written so far stays written, also
  where the subscription turns out to be there already.
- `OrdersAreProvisionedOnce`: no column claims an order. One without overlap has one worker, who
  knows its status; of a recurring one the unique row of its subscription lets one call through.
- `TheProcessedAreProvisioned`: of the entities a handler has behind it every order is
  provisioned; entities are followed by position, since one order may be paid by several.
- `OrganizationsAreFound`: who founds an organization for a domain nobody raced for is the
  only one between the search and the insert.

### AgentTriggersProofs
From `SlotsAssumption`, `PeriodAssumption` and `BoundsAssumption`. The invariants speak of
`Pending`, the copies a tick has still to deal with: a copy outlives edits, deletions and
other ticks. `SlotInv` (where no two ticks and no tick and edit met, a slot stored, copied or about to
be fired is later than the last one fired, and an operator's call read the clock no earlier than
that one) gives `SlotsAreFiredOnce`; `SpentInv` and `CooldownInv` (where the condition is stored
or copied as false no fire is outstanding; the last fire is not later than rows and copies
say) give the action property `FiresAnswerEdges`; `EdgeInv` (a condition stored as met was
answered or is about to be) gives `NoEdgeIsSwallowed`; `ScheduleInv` (an operator's copy
names the expression of the row) gives `SchedulesAreKept`. `TriggerTypeCorrect` and
`ClashInv`, that whoever holds a trigger together with somebody else was noted, serve all.

### HubAuditProofs
From `HubAuditAssumption`, at either isolation level: `ChainIsUnbroken`, `LockSuffices`,
`LockIsNeverLeaked` (whoever holds the lock is between the lock statement and the end of his
transaction; not among the runs' properties), `ManifestsAreComplete`, and `Refinement`:
`Spec => ImplementsLog`, the whole of `HubLog!Spec`.

The chain is not inductive alone: an insert builds on a last row that was read
statements ago. The invariant `Inv` says what that reading is worth. `LockOK`: exactly
the transactions between lock and end hold the lock. `ViewOK`: a snapshot is a numbered
beginning of the table. `LastOK`: what was read is a row of the table, and at read
committed still the last one. From there `FreeNumberIsNext`: whoever finds his number
free has read the last row, at either level; so the row he adds is numbered and linked
(`NextRowIsNumbered`, `NextRowIsLinked`). `EventsOK` ties rows to program counters: a row
exists only for requests past their commit, which makes a refusal truthful. A manifest
counts no row beyond the end of the table, and the table grows only there. For the
refinement, `LogOf` turns a table into a list, `NextRowAppends` shows that the next row
appends to it, and each action is then a step of `HubLog` or a stutter: the commit
records, the answer acknowledges, rejections, vetoes and exhausted retries refuse, lost
connections break.

### AccessProofs, RecordProofs
From `ServicesAssumption` of `MCServices`, which collects the assumptions of the ten modules.
`OneMoves`: a step of the run is a step of one service and leaves the others alone.

- `AccessIsShortLived`: what a request found active was so at the request's stamp or later,
  which is the stamp of the answer it builds.
- `TheLastSuperAdminStays`: a write that could take a super admin away has seen another one
  and knows when profiles changed since, or is his own for a status `Refused` lets pass.
- `LinesAreClosed`: on a line that two calls never worked on together one call is at work, and its key stays the live one
  until there is a successor. `LogIsTheStage`: stamps grow along the log of a contract with
  one transition at a time, so the stage read is the one at its end.
- `ReferencesAreFound`: no set of superseded references leads only into itself, because a
  successor is active when it is named; stated with sets, it needs no induction along paths.
- `OneOrderPerKey`: the stage of a submission says what QuickBooks may hold for it and what its
  order says. `TheConnectionIsGood`, `MetadataIsTrue`: a call that is alone has the newest
  token, or the rows as they are; while nothing is disturbed whoever is at work is alone.
- `FeedbackIsWorkedOnOnce`: an undisturbed item in hand has a filing to come and no other
  dispatch has it; the items of a group that is being marked were told of or left out. `AutomaticFixesAreSpaced`: the entries a call has checked are a cooldown old.

### BackgroundProofs
From `BackgroundAssumption`. `ReceiptsTellTheTruth`: `WebhookInv` says at each label of an
undisturbed worker, and of a retry, how many requests were made, what was answered, and what
of it the row has by then. `SettledFlagsAreTrue`: a lone pass knows the world as it is
(`FactsOK`); what it has still to write is right (`WriteOK`: each flag that is due is open or
about to be opened, each that is not will be resolved); what it has behind it stays so
(`BehindOK`: mirrors equal to the world, the flags of earlier legs). So at its end all flags
are right (`AllRight`), and from then on every pass, overlapping or not, has facts that are
true and nothing wrong to write.

### ClerkMirrorProofs
From `UsersAssumption`, `BoundsAssumption` (an address can have an account) and
`NoneAssumption` (no event is none). `MirrorIsKept` is the invariant, from which
`MirrorTypesHold`, `AccessFollowsMembership`, `VisitsHeal` and the action property
`SuspensionStays` follow. For each call `Sound` says what it has in hand at its label
(`PlaceOK`), what it knows for good (`KnownOK`: a profile is never deleted), that its event is
the oldest of an undisturbed subject (`InTurn`), what it knows of a user nobody else is at
work on (`FreshOK`: he is a member or an event that says otherwise is to come; the status it
read is the stored one), and what a visitor will find (`VisitOK`). `UserOK` and `OrgOK` say
the same of rows without a call: a profile has every account whose creation was handled, and
an active row is a member's, or the event that ends it is on its way. `Crossing`: two calls
about one user have disturbed him. Steps fall into three sorts with one lemma each: calm ones
that write no row, those that write one user's, and Clerk's own, which announce events.
The proof found an error in the model: see `Overtaking` under "Bounds".

### Not proved
`StartedRunsSettle`, `EventsSettle`, `DueIsServed`, `DeliveriesSettle` and `FlagsConverge` are
only model-checked: they rest on fairness, whose use needs ENABLED, which is outside the
prover's reach. So are the four violations: each is a behaviour, and TLC shows it.

## Plan

All modules planned so far are written, checked and proved about as far as said above. Left
to model: the suite workflow's gates as a pure algorithm against its contract, and the rate
limiter.

## Not modelled

Most of the repository is pages, components, tables, formatters and clients of other
systems: they present, forward or aggregate, and keep no state between statements that
another call could disturb in a way the code cares about. The map therefore covers the
services that keep state and little of the rest. Prices, texts, audit payloads and
timestamps are left out of the modelled parts too, except where an order of events
depends on them. `PROJECT.json` lists every part with its reason and every hazard with
the property that would catch it.

The gates of `suite-workflow-core.ts` are one-pass checks of a read model that the
template route and the tests use. Neither are packages that consist of training only
modelled: they provision nothing in `OrderFlow`.

Dangers that are known and in no model: 50 QuickBooks events that always fail keep the
sweep from newer ones (`qbo-event-processor.ts:43`); the threshold pass takes 100
triggers in no stated order (`scheduler.ts:213`).
