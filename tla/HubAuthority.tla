---------------------------- MODULE HubAuthority ----------------------------
(***************************************************************************)
(* Who may use an app: the Hub's decision (lib/hub-authority.ts and        *)
(* hub-authority-core.ts) and the satellite that asks for it and keeps the *)
(* answer for a while (packages/hub-client/src/client.ts).                 *)
(*                                                                         *)
(* The Hub reads the records one after the other, some at the same time,   *)
(* while operators change them; it stamps its answer with the moment it    *)
(* began.  The satellite lets the user in on a kept answer until that      *)
(* stamp is older than the time to live.                                   *)
(*                                                                         *)
(* One user, one app, one organization.  A record is active, inactive (any *)
(* other status) or missing; the API key, source app and service identity  *)
(* that vouch for the satellite are one such record, "service".  Out of    *)
(* the model: contract memberships and counts, which are only passed on;   *)
(* hashes, which protect the answer on its way.                            *)
(***************************************************************************)
EXTENDS Naturals

CONSTANTS
    Calls,      \* slots for requests of the satellite
    TTL,        \* DEFAULT_AUTHORITY_TTL_SECONDS
    MaxTime,    \* bound: the clock
    MaxChanges, \* bound: changes of records
    None

TimeAssumption == TTL \in Nat /\ MaxTime \in Nat /\ MaxChanges \in Nat

Status  == {"active", "inactive", "missing"}
Records == {"app", "user", "organization", "membership", "entitlement"}

VARIABLES
    clock,
    status,      \* [Records \cup {"service"} -> Status]
    expiry,      \* the entitlement's expiresAt
    internal,    \* isInternalMacTechUser with a platform role
    internalOnly, requiresOrg, \* flags of the app
    changes,
    pc, frame,
    cache,       \* the satellite's kept answer, or None
    \* history
    since        \* when each record last ceased to be active

fixed == <<expiry, internal, internalOnly, requiresOrg>>
vars  == <<clock, status, fixed, changes, pc, frame, cache, since>>

NoFrame == [now |-> 0, named |-> TRUE, todo |-> {},
            read |-> [r \in Records |-> "missing"], answer |-> None]

Goto(c, label) == pc' = [pc EXCEPT ![c] = label]
Return(c) == Goto(c, "idle") /\ frame' = [frame EXCEPT ![c] = NoFrame]

-----------------------------------------------------------------------------
(***************************************************************************)
(* The world: operators (suspendCustomerOrganization, updateOrgUserAccess, *)
(* upsertProductEntitlement and others, each one update of the record) and *)
(* time, in which an entitlement may expire whether it is active or not.   *)
(***************************************************************************)
Change(r, s) ==
    /\ changes < MaxChanges /\ status[r] # s
    /\ changes' = changes + 1
    /\ status' = [status EXCEPT ![r] = s]
    /\ since' = IF r \in Records /\ status[r] = "active"
                THEN [since EXCEPT ![r] = clock] ELSE since
    /\ UNCHANGED <<clock, fixed, pc, frame, cache>>

Tick ==
    /\ clock < MaxTime
    /\ clock' = clock + 1
    /\ UNCHANGED <<status, fixed, changes, pc, frame, cache, since>>

-----------------------------------------------------------------------------
(***************************************************************************)
(* evaluateHubAuthorityRecords: access unless one of the code's objections *)
(* applies.  "roles" says whether permissions can be resolved.             *)
(***************************************************************************)
Allows(f, roles) ==
    /\ f.read["app"] = "active"                \* app_registry_missing, app_inactive
    /\ f.read["user"] = "active"               \* user_missing, user_inactive
    /\ internalOnly => internal                \* internal_app_forbidden
    /\ requiresOrg /\ ~internal =>
          /\ f.read["organization"] = "active" \* org_context_required, organization_...
          /\ f.read["membership"] = "active"   \* membership_...
          /\ f.now < expiry                    \* entitlement_expired
          /\ f.read["entitlement"] = "active"  \* entitlement_...
          /\ roles                             \* role_resolution_failed

\* Mutant: The answer is stamped when it is made.
StampedLate(f, roles) ==
    [allow |-> Allows(f, roles), issuedAt |-> clock, expiresAt |-> clock + TTL]

\* buildSnapshot
Snapshot(f, roles) ==
    [allow |-> Allows(f, roles), issuedAt |-> f.now, expiresAt |-> f.now + TTL]

-----------------------------------------------------------------------------
(***************************************************************************)
(* The satellite asks unless it has an answer that has not expired.        *)
(***************************************************************************)
Kept == cache # None /\ cache.expiresAt > clock

Ask(c, named) ==
    /\ pc[c] = "idle" /\ ~Kept
    /\ frame' = [frame EXCEPT ![c].named = named]
    /\ Goto(c, "verify")
    /\ UNCHANGED <<clock, status, fixed, changes, cache, since>>

\* verifyHubServiceRequest rejects, or the Hub notes the time and goes on.
VerifyService(c) ==
    /\ pc[c] = "verify"
    /\ IF status["service"] = "active"
       THEN Goto(c, "user") /\ frame' = [frame EXCEPT ![c].now = clock]
       ELSE Return(c)
    /\ UNCHANGED <<clock, status, fixed, changes, cache, since>>

ReadUser(c) ==
    /\ pc[c] = "user"
    /\ frame' = [frame EXCEPT ![c].read["user"] = status["user"]]
    /\ Goto(c, "organization")
    /\ UNCHANGED <<clock, status, fixed, changes, cache, since>>

\* findOrganization by the id that was named, or else the only organization
\* the user is an active member of, if it is active.
ReadOrganization(c) ==
    LET f     == frame[c]
        known == f.read["user"] # "missing"
        sole  == known /\ ~internal /\ status["membership"] = "active"
                 /\ status["organization"] = "active"
        org   == IF f.named \/ sole THEN status["organization"] ELSE "missing"
        pair  == IF known /\ org # "missing" THEN {"membership", "entitlement"} ELSE {}
    IN  /\ pc[c] = "organization"
        /\ frame' = [frame EXCEPT ![c].read["organization"] = org,
                                  ![c].todo = {"app"} \cup pair]
        /\ Goto(c, "records")
        /\ UNCHANGED <<clock, status, fixed, changes, cache, since>>

\* Promise.all: these reads are under way together and end in any order.
ReadRecord(c, r) ==
    /\ pc[c] = "records" /\ r \in frame[c].todo
    /\ frame' = [frame EXCEPT ![c].read[r] = status[r], ![c].todo = @ \ {r}]
    /\ UNCHANGED <<clock, status, fixed, changes, pc, cache, since>>

\* The role template is read if the membership has no permissions of its own.
Decide(c, roles) ==
    /\ pc[c] = "records" /\ frame[c].todo = {}
    /\ frame' = [frame EXCEPT ![c] = [NoFrame EXCEPT
                                !.answer = Snapshot(frame[c], roles)]]
    /\ Goto(c, "answer")
    /\ UNCHANGED <<clock, status, fixed, changes, cache, since>>

\* The answer, once audited, reaches the satellite, who keeps an allowance
\* that has not expired on the way (verifyAuthoritySnapshot) over any other.
Receive(c) ==
    LET answer == frame[c].answer IN
    /\ pc[c] = "answer"
    /\ cache' = IF answer.allow /\ answer.expiresAt > clock THEN answer ELSE cache
    /\ Return(c)
    /\ UNCHANGED <<clock, status, fixed, changes, since>>

\* A statement throws, also the audit entry, or a process dies.
Abandon(c) ==
    /\ pc[c] # "idle"
    /\ Return(c)
    /\ UNCHANGED <<clock, status, fixed, changes, cache, since>>

\* A satellite that is restarted has nothing kept.
Restart ==
    /\ cache # None
    /\ cache' = None
    /\ UNCHANGED <<clock, status, fixed, changes, pc, frame, since>>

\* Everything is in order, then whatever operators do.
Init ==
    /\ clock = 0
    /\ status = [r \in Records \cup {"service"} |-> "active"]
    /\ expiry \in 1..MaxTime + 1
    /\ internal \in BOOLEAN /\ internalOnly \in BOOLEAN /\ requiresOrg \in BOOLEAN
    /\ changes = 0
    /\ pc = [c \in Calls |-> "idle"]
    /\ frame = [c \in Calls |-> NoFrame]
    /\ cache = None
    /\ since = [r \in Records |-> 0]

Next ==
    \/ Tick \/ Restart
    \/ \E r \in Records \cup {"service"}, s \in Status : Change(r, s)
    \/ \E c \in Calls :
          \/ \E named \in BOOLEAN : Ask(c, named)
          \/ VerifyService(c) \/ ReadUser(c) \/ ReadOrganization(c)
          \/ \E r \in Records : ReadRecord(c, r)
          \/ \E roles \in BOOLEAN : Decide(c, roles)
          \/ Receive(c) \/ Abandon(c)

Spec == Init /\ [][Next]_vars

-----------------------------------------------------------------------------
\* What each variable may hold.
TypeOK ==
    /\ status \in [Records \cup {"service"} -> Status]
    /\ clock \in 0..MaxTime /\ changes \in 0..MaxChanges
    /\ since \in [Records -> 0..MaxTime]
    /\ cache # None => cache.allow /\ cache.issuedAt <= clock
    /\ \A c \in Calls : pc[c] = "idle" => frame[c] = NoFrame

\* The records an allowance rests on.
Needed == {"app", "user"} \cup
          IF requiresOrg /\ ~internal THEN {"organization", "membership", "entitlement"}
          ELSE {}

\* Access ends with the time to live: as long as the satellite lets the user
\* in, each record that access needs is active, or was so no longer than the
\* time to live ago, however slowly the Hub read and answered meanwhile; an
\* entitlement that access needs expired no longer ago than that; and internal
\* apps are for internal users.  Not claimed: that an entitlement was active
\* and unexpired at one and the same moment.  The Hub compares the expiry with
\* the request's stamp, and reads the status later: an entitlement that was
\* reinstated after it had expired is one such case.
AccessEndsWithTTL ==
    Kept => /\ \A r \in Needed : status[r] = "active" \/ clock - since[r] < TTL
            /\ "entitlement" \in Needed => clock < expiry + TTL
            /\ internalOnly => internal
=============================================================================
