---------------------------- MODULE OrgMetadata ----------------------------
(***************************************************************************)
(* One customer organization, its entitlements and the copy of both that   *)
(* Clerk keeps as the organization's public metadata, from which sibling   *)
(* apps read the status and the enabled apps:                              *)
(* lib/services/customer-org-service.ts, entitlement-service.ts and the    *)
(* push of provisioning-service.ts.                                        *)
(*                                                                         *)
(* Every change writes the rows first, reads the enabled list again and    *)
(* then pushes; a push that fails is reported and forgotten.  Each step    *)
(* below is one awaited call; requests interleave and may die in between.  *)
(*                                                                         *)
(* Out of the model: plans, tiers and the other fields that are copied     *)
(* like the status; members (ClerkMirror); orders (OrderFlow).             *)
(***************************************************************************)
EXTENDS Naturals, FiniteSets

CONSTANTS
    Calls,   \* slots for requests
    Apps,    \* rows of the app registry
    Statuses, \* OrganizationStatus
    Training  \* whether there are packages with, and without, training courses

MetadataAssumption ==
    "onboarding" \in Statuses /\ "none" \notin Statuses /\ Training \subseteq BOOLEAN

VARIABLES
    org,      \* the CustomerOrganization row, or NoOrg
    enabled,  \* apps whose ProductEntitlement is enabled
    meta,     \* publicMetadata of the Clerk organization, or NoMeta
    pc, frame,
    \* history
    bought,   \* an order of a package with training courses is linked
    disturbed \* no request has pushed all by itself since two overlapped,
              \* one died or a push failed

vars == <<org, enabled, meta, pc, frame, bought, disturbed>>

NoOrg   == [status |-> "none", linked |-> FALSE]
NoMeta  == [id |-> "none", status |-> "none", apps |-> {}, training |-> FALSE]
NoFrame == [org |-> NoOrg, todo |-> {}, on |-> TRUE, apps |-> {},
            paid |-> FALSE, training |-> FALSE, alone |-> FALSE]

Goto(c, label) == pc' = [pc EXCEPT ![c] = label]
Active == {c \in Calls : pc[c] # "idle"}

\* A request begins: those under way no longer run alone.
Begin(c, label, f) ==
    /\ pc[c] = "idle"
    /\ frame' = [x \in Calls |-> IF x = c THEN [f EXCEPT !.alone = Active = {}]
                                 ELSE [frame[x] EXCEPT !.alone = FALSE]]
    /\ disturbed' = (disturbed \/ Active # {})
    /\ Goto(c, label)

Return(c) == Goto(c, "idle") /\ frame' = [frame EXCEPT ![c] = NoFrame]

-----------------------------------------------------------------------------
(***************************************************************************)
(* createCustomerOrganization: Clerk first, with an id that is not known   *)
(* yet and no apps; then the row, the initial entitlements and a push.     *)
(***************************************************************************)
Create(c, initial) ==
    /\ org = NoOrg /\ meta = NoMeta
    /\ \A x \in Calls : pc[x] # "clerk" /\ pc[x] # "row"
    /\ Begin(c, "clerk", [NoFrame EXCEPT !.todo = initial])
    /\ UNCHANGED <<org, enabled, meta, bought>>

CreateInClerk(c, ok) ==
    /\ pc[c] = "clerk"
    /\ meta' = IF ok THEN [id |-> "pending", status |-> "onboarding", apps |-> {},
                           training |-> FALSE] ELSE meta
    /\ frame' = [frame EXCEPT ![c].org = [status |-> "onboarding", linked |-> ok]]
    /\ Goto(c, "row")
    /\ UNCHANGED <<org, enabled, bought, disturbed>>

StoreOrg(c) ==
    /\ pc[c] = "row"
    /\ org' = frame[c].org
    /\ IF frame[c].todo = {} THEN Return(c) ELSE Goto(c, "grant") /\ UNCHANGED frame
    /\ UNCHANGED <<enabled, meta, bought, disturbed>>

\* The paid order is provisioned last: it is linked to the organization.
Link(c) == bought' = (bought \/ frame[c].training)

\* One entitlement after the other, also those of a provisioned package.
Grant(c, a) ==
    /\ pc[c] = "grant" /\ a \in frame[c].todo
    /\ enabled' = enabled \cup {a}
    /\ IF frame[c].todo = {a} /\ ~frame[c].org.linked
       THEN Return(c) /\ Link(c)
       ELSE /\ frame' = [frame EXCEPT ![c].todo = @ \ {a}]
            /\ Goto(c, IF frame[c].todo = {a} THEN "list" ELSE "grant")
            /\ UNCHANGED bought
    /\ UNCHANGED <<org, meta, disturbed>>

-----------------------------------------------------------------------------
\* updateCustomerOrganization and suspendCustomerOrganization: one update, and
\* the row it leaves is what will be pushed.
WriteStatus(c, s) ==
    /\ org # NoOrg
    /\ org' = [org EXCEPT !.status = s]
    /\ IF org.linked
       THEN Begin(c, "list", [NoFrame EXCEPT !.org = [org EXCEPT !.status = s]])
       ELSE pc[c] = "idle" /\ UNCHANGED <<pc, frame, disturbed>>
    /\ UNCHANGED <<enabled, meta, bought>>

\* upsertProductEntitlement, also through quickToggleEntitlement and, for
\* several apps, bulkSetEntitlements: the organization is read at the start.
Upsert(c, apps, on) ==
    /\ org # NoOrg
    /\ Begin(c, "upsert", [NoFrame EXCEPT !.todo = apps, !.on = on, !.org = org])
    /\ UNCHANGED <<org, enabled, meta, bought>>

\* What follows one app of a bulk change: the next one, whose upsert reads the
\* organization again.
Following(c) ==
    IF frame[c].todo # {}
    THEN /\ frame' = [frame EXCEPT ![c].org = org]
         /\ Goto(c, "upsert")
    ELSE Return(c)

\* Mutant: The enabled apps are listed before the row is written.
StoreAfterListing(c, a) ==
    /\ pc[c] = "upsert" /\ a \in frame[c].todo
    /\ enabled' = IF frame[c].on THEN enabled \cup {a} ELSE enabled \ {a}
    /\ frame' = [frame EXCEPT ![c].todo = @ \ {a}, ![c].apps = enabled]
    /\ Goto(c, "push")
    /\ UNCHANGED <<org, meta, bought, disturbed>>

StoreEntitlement(c, a) ==
    /\ pc[c] = "upsert" /\ a \in frame[c].todo
    /\ enabled' = IF frame[c].on THEN enabled \cup {a} ELSE enabled \ {a}
    /\ frame' = [frame EXCEPT ![c].todo = @ \ {a}]
    /\ Goto(c, IF frame[c].org.linked THEN "list" ELSE "skip")
    /\ UNCHANGED <<org, meta, bought, disturbed>>

\* Without a Clerk organization nothing is pushed.
SkipPush(c) ==
    /\ pc[c] = "skip"
    /\ Following(c)
    /\ UNCHANGED <<org, enabled, meta, bought, disturbed>>

\* provisionFromPaidOrder for a buyer whose organization exists: the package,
\* which includes apps and may include training courses.
Provision(c, apps, training) ==
    /\ org # NoOrg
    /\ Begin(c, "grant", [NoFrame EXCEPT !.todo = apps, !.org = org,
                             !.paid = TRUE, !.training = training])
    /\ UNCHANGED <<org, enabled, meta, bought>>

-----------------------------------------------------------------------------
\* The enabled entitlements are read again, and only when provisioning the
\* courses of this package and of all linked orders ...
ListEnabled(c) ==
    /\ pc[c] = "list"
    /\ frame' = [frame EXCEPT ![c].apps = enabled,
                              ![c].training = @ \/ (frame[c].paid /\ bought)]
    /\ Goto(c, "push")
    /\ UNCHANGED <<org, enabled, meta, bought, disturbed>>

\* ... and updateClerkOrg replaces the metadata by buildPublicMetadata of the
\* organization as this request has it, that list and those courses, if none
\* are given none.  tryClerk catches a failure.
Push(c, ok) ==
    /\ pc[c] = "push"
    /\ meta' = IF ok THEN [id |-> "real", status |-> frame[c].org.status,
                           apps |-> frame[c].apps, training |-> frame[c].training]
               ELSE meta
    /\ disturbed' = IF ok THEN disturbed /\ ~frame[c].alone ELSE TRUE
    /\ Following(c) /\ Link(c)
    /\ UNCHANGED <<org, enabled>>

\* An app of a bulk change that throws does not stop the others.
Skip(c, a) ==
    /\ pc[c] \in {"upsert", "list"}
    /\ pc[c] = "upsert" => a \in frame[c].todo
    /\ LET rest == IF pc[c] = "upsert" THEN frame[c].todo \ {a} ELSE frame[c].todo IN
       /\ rest # {} /\ ~frame[c].paid
       /\ frame' = [frame EXCEPT ![c].todo = rest, ![c].org = org]
    /\ Goto(c, "upsert")
    /\ disturbed' = TRUE
    /\ UNCHANGED <<org, enabled, meta, bought>>

\* A statement throws, or the process dies.
Abandon(c) ==
    /\ pc[c] # "idle"
    /\ Return(c)
    /\ disturbed' = TRUE
    /\ UNCHANGED <<org, enabled, meta, bought>>

Init ==
    /\ org = NoOrg /\ enabled = {} /\ meta = NoMeta
    /\ pc = [c \in Calls |-> "idle"]
    /\ frame = [c \in Calls |-> NoFrame]
    /\ bought = FALSE /\ disturbed = FALSE

Next ==
    \E c \in Calls :
        \/ \E apps \in SUBSET Apps : Create(c, apps)
        \/ \E ok \in BOOLEAN : CreateInClerk(c, ok) \/ Push(c, ok)
        \/ StoreOrg(c) \/ SkipPush(c) \/ ListEnabled(c) \/ Abandon(c)
        \/ \E a \in Apps : Grant(c, a) \/ StoreEntitlement(c, a) \/ Skip(c, a)
        \/ \E s \in Statuses : WriteStatus(c, s)
        \/ \E apps \in (SUBSET Apps) \ {{}} :
              \/ \E on \in BOOLEAN : Upsert(c, apps, on)
              \/ \E training \in Training : Provision(c, apps, training)

Spec == Init /\ [][Next]_vars

-----------------------------------------------------------------------------
\* What each variable may hold.
TypeOK ==
    /\ org \in [status : Statuses \cup {"none"}, linked : BOOLEAN]
    /\ enabled \subseteq Apps
    /\ meta \in [id : {"none", "pending", "real"}, status : Statuses \cup {"none"},
                 apps : SUBSET Apps, training : BOOLEAN]
    /\ \A c \in Calls : (pc[c] = "idle") = (frame[c] = NoFrame)
    /\ org.linked => meta # NoMeta

\* Sibling apps are told the truth: with nobody at work, Clerk's copy has the
\* organization's status and exactly its enabled apps, under its real id once
\* there are any.  Overlapping requests, deaths and failed pushes can leave the
\* copy behind, but any request that pushes all by itself makes it true again.
MetadataTellsTruth ==
    Active = {} /\ org.linked /\ ~disturbed =>
        /\ meta.status = org.status
        /\ meta.apps = enabled
        /\ enabled # {} => meta.id = "real"

\* What the interface says of the courses: Clerk lists the training courses the
\* organization is entitled to across all its purchased packages.
MetadataKeepsTraining ==
    Active = {} /\ org.linked /\ ~disturbed /\ bought => meta.training
=============================================================================
