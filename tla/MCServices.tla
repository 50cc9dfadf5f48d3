----------------------------- MODULE MCServices -----------------------------
(***************************************************************************)
(* Ten services that do not touch each other's records, checked in one     *)
(* run: at the start one of them is chosen, and only it moves.             *)
(***************************************************************************)
EXTENDS Naturals, FiniteSets, Sequences

CONSTANTS
    Calls,
    Requests, TTL, MaxTime, MaxChanges,     \* HubAuthority
    Apps, Statuses, Training,               \* OrgMetadata
    Submissions, Keys,                      \* Checkout
    Realms, MaxTokens,                      \* QuickbooksConnection
    MaxRefs, Names, Versioned, Hashes, Verdicts, \* ObjectReferences
    Dispatches, Items, Repos, MaxOpened, \* FeedbackDispatch
    Fixers, Cooldown, MaxNow, MaxIssues,    \* CrashAutoFix
    Admins, Roles, UserStatuses,            \* PlatformAdmins
    Contracts, Stages, Users, MaxEvents,    \* HubContracts
    ApiKeyIds,                              \* ApiKeys
    None

VARIABLES
    which, \* the service that moves
    clock, authStatus, expiry, internal, internalOnly, requiresOrg, changes,
    authPc, authFrame, cache, since,
    org, enabled, meta, metaPc, metaFrame, bought, metaDisturbed,
    order, invoices, templates, shopPc, key, answer, overlapped,
    interrupted,
    row, newer, issued, revoked, qboPc, qboFrame, wanted, qboDisturbed,
    ref, refPc, refFrame, racedCreate, racedSupersede,
    repoOf, fbStatus, linked, fbPc, fbFrame, filed, omitted, opened, fbDisturbed,
    now, entries, fixPc, fixFrame, issues,
    role, adminStatus, adminPc, adminFrame,
    stage, awarded, events, members, lock, hubClock, hubOverlapped, hubPc, hubFrame,
    line, active, keyDisturbed, keyPc, subject

authVars == <<clock, authStatus, expiry, internal, internalOnly, requiresOrg, changes,
              authPc, authFrame, cache, since>>
metaVars == <<org, enabled, meta, metaPc, metaFrame, bought, metaDisturbed>>
shopVars == <<order, invoices, templates, shopPc, key, answer, overlapped, interrupted>>
qboVars  == <<row, newer, issued, revoked, qboPc, qboFrame, wanted, qboDisturbed>>
refVars  == <<ref, refPc, refFrame, racedCreate, racedSupersede>>
fbVars   == <<repoOf, fbStatus, linked, fbPc, fbFrame, filed, omitted, opened, fbDisturbed>>
fixVars  == <<now, entries, fixPc, fixFrame, issues>>
adminVars == <<role, adminStatus, adminPc, adminFrame>>
hubVars  == <<stage, awarded, events, members, lock, hubClock, hubOverlapped, hubPc,
              hubFrame>>
keyVars  == <<line, active, keyDisturbed, keyPc, subject>>

A == INSTANCE HubAuthority WITH
        Calls <- Requests, status <- authStatus, pc <- authPc, frame <- authFrame
M == INSTANCE OrgMetadata WITH
        pc <- metaPc, frame <- metaFrame, disturbed <- metaDisturbed
C == INSTANCE Checkout WITH
        pc <- shopPc
Q == INSTANCE QuickbooksConnection WITH
        pc <- qboPc, frame <- qboFrame, disturbed <- qboDisturbed
R == INSTANCE ObjectReferences WITH
        pc <- refPc, frame <- refFrame
F == INSTANCE FeedbackDispatch WITH
        status <- fbStatus, pc <- fbPc, frame <- fbFrame, disturbed <- fbDisturbed
X == INSTANCE CrashAutoFix WITH
        pc <- fixPc, frame <- fixFrame
P == INSTANCE PlatformAdmins WITH
        status <- adminStatus, pc <- adminPc, frame <- adminFrame
H == INSTANCE HubContracts WITH
        clock <- hubClock, overlapped <- hubOverlapped, pc <- hubPc, frame <- hubFrame
K == INSTANCE ApiKeys WITH
        Keys <- ApiKeyIds, disturbed <- keyDisturbed, pc <- keyPc, key <- subject

ASSUME ServicesAssumption ==
    /\ A!TimeAssumption /\ M!MetadataAssumption /\ C!SubmissionsAssumption /\ Q!TokenAssumption
    /\ R!NamesAssumption /\ R!VerdictsAssumption /\ F!FeedbackAssumption /\ X!CooldownAssumption
    /\ P!AdminsAssumption /\ H!HubContractsAssumption /\ K!ApiKeysAssumption

\* A customer of an app that needs an organization, whose entitlement may
\* expire; or an internal app, for an internal user or for another.
Plain == ~internal /\ ~internalOnly /\ requiresOrg
Asked == Plain \/ (internalOnly /\ ~requiresOrg /\ expiry > MaxTime)

\* The repositories are alike: the one of an item's page can be fixed.
OneItem == CHOOSE i \in Items : TRUE
OneRepo == CHOOSE r \in Repos : TRUE

Init ==
    /\ which \in {"authority", "metadata", "checkout", "quickbooks", "references",
                "feedback", "fixes", "admins", "contracts", "keys"}
    /\ A!Init /\ M!Init /\ C!Init /\ Q!Init /\ R!Init /\ F!Init /\ X!Init
    /\ H!Init /\ K!Init
    /\ P!Init /\ (which = "admins" \/ \A u \in Admins : P!IsSuper(u))
    /\ IF which = "feedback" THEN repoOf[OneItem] = OneRepo
       ELSE repoOf = [i \in Items |-> OneRepo]
    /\ IF which = "authority" THEN Asked ELSE Plain /\ expiry > MaxTime

Authority ==
    /\ which = "authority" /\ A!Next
    /\ UNCHANGED <<which, metaVars, shopVars, qboVars, refVars, fbVars, fixVars, adminVars,
                   hubVars, keyVars>>

Metadata ==
    /\ which = "metadata" /\ M!Next
    /\ UNCHANGED <<which, authVars, shopVars, qboVars, refVars, fbVars, fixVars, adminVars,
                   hubVars, keyVars>>

CheckoutStep ==
    /\ which = "checkout" /\ C!Next
    /\ UNCHANGED <<which, authVars, metaVars, qboVars, refVars, fbVars, fixVars, adminVars,
                   hubVars, keyVars>>

Quickbooks ==
    /\ which = "quickbooks" /\ Q!Next
    /\ UNCHANGED <<which, authVars, metaVars, shopVars, refVars, fbVars, fixVars, adminVars,
                   hubVars, keyVars>>

References ==
    /\ which = "references" /\ R!Next
    /\ UNCHANGED <<which, authVars, metaVars, shopVars, qboVars, fbVars, fixVars, adminVars,
                   hubVars, keyVars>>

Feedback ==
    /\ which = "feedback" /\ F!Next
    /\ UNCHANGED <<which, authVars, metaVars, shopVars, qboVars, refVars, fixVars, adminVars,
                   hubVars, keyVars>>

Fixes ==
    /\ which = "fixes" /\ X!Next
    /\ UNCHANGED <<which, authVars, metaVars, shopVars, qboVars, refVars, fbVars, adminVars,
                   hubVars, keyVars>>

Administration ==
    /\ which = "admins" /\ P!Next
    /\ UNCHANGED <<which, authVars, metaVars, shopVars, qboVars, refVars, fbVars, fixVars,
                   hubVars, keyVars>>

Contract ==
    /\ which = "contracts" /\ H!Next
    /\ UNCHANGED <<which, authVars, metaVars, shopVars, qboVars, refVars, fbVars, fixVars,
                   adminVars, keyVars>>

KeyRing ==
    /\ which = "keys" /\ K!Next
    /\ UNCHANGED <<which, authVars, metaVars, shopVars, qboVars, refVars, fbVars, fixVars,
                   adminVars, hubVars>>

Next ==
    \/ Authority \/ Metadata \/ CheckoutStep \/ Quickbooks
    \/ References \/ Feedback \/ Fixes \/ Administration
    \/ Contract \/ KeyRing

vars == <<which, authVars, metaVars, shopVars, qboVars, refVars, fbVars, fixVars, adminVars,
          hubVars, keyVars>>

Spec == Init /\ [][Next]_vars

-----------------------------------------------------------------------------
\* The satellite lets nobody in for longer than the time to live after a record
\* that access needs ceased to be active (HubAuthority).
AccessEndsWithTTL == which = "authority" => A!AccessEndsWithTTL

\* Clerk's copy of an organization has its status and exactly its enabled apps
\* once a request pushed all by itself (OrgMetadata).
MetadataTellsTruth == which = "metadata" => M!MetadataTellsTruth

\* Submissions under one key, one after the other, lead to one order and one
\* invoice, and the invoice is on its order (Checkout).
CheckoutBillsOnce == which = "checkout" => C!CheckoutBillsOnce

\* The company connected last is the only active one and its row has the newest
\* refresh token (QuickbooksConnection).
ConnectionIsGood == which = "quickbooks" => Q!ConnectionIsGood

\* Superseded references lead to an active one, and an object in one version has
\* one reference (ObjectReferences).
ReferencesResolve == which = "references" => R!SupersededLeadsToActive /\ R!OneReferencePerVersion

\* The issues of dispatches one after the other tell of an item at most as often
\* as it was opened (FeedbackDispatch).
FeedbackIsFiledOnce == which = "feedback" => F!FeedbackIsFiledOnce

\* An issue filed by itself is more than a cooldown younger than those entered
\* before (CrashAutoFix).
FixesAreSpaced == which = "fixes" => X!FixesAreSpaced

\* No change of a role or status takes away the last active super admin, unless
\* another change came in between or he does it himself (PlatformAdmins).
LastSuperAdminStays == P!LastSuperAdminStays

\* A contract's log leads step by step to its stage and never out of closeout
\* (HubContracts).
LogTellsTheStage == which = "contracts" => H!LogTellsTheStage

\* A line of API keys that has ended stays so, and has one live key except
\* while it is being rotated (ApiKeys).
LinesEnd == K!LinesEnd
=============================================================================
