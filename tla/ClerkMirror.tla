---------------------------- MODULE ClerkMirror ----------------------------
(***************************************************************************)
(* The local copy of who belongs to a customer's organization.             *)
(*                                                                         *)
(* Clerk owns accounts, organizations and memberships; the platform keeps  *)
(* UserProfile, CustomerOrganization and OrgUserAccess rows beside it.     *)
(* Four kinds of calls write these rows and interleave: the handler of     *)
(* Clerk's webhooks (clerk-sync-service.ts), whose events come in any      *)
(* order, more than once, or not at all; the visit of a user to /welcome,  *)
(* which repairs what the events missed; the operators' actions on one     *)
(* user (user-service.ts), which change Clerk and then the rows; and the   *)
(* operators' reconciliation of a whole organization.                      *)
(*                                                                         *)
(* One organization: no handler reads two.  A user is the holder of one    *)
(* mail address, which Clerk discloses; he may delete his account and sign *)
(* up again under a new id.  Out of the model: roles (a row keeps its      *)
(* role), internal operators, invitations and mails, which touch no row    *)
(* here and whose failure is Abandon, audit entries.                       *)
(***************************************************************************)
EXTENDS Naturals, FiniteSets

CONSTANTS
    Users,       \* holders of mail addresses
    Calls,       \* slots for concurrently running calls
    MaxAccounts, \* bound: accounts one user ever opens
    MaxChanges,  \* bound: changes Clerk announces
    Org,         \* the organization, as the subject of a call or event
    None

ASSUME UsersAssumption == Org \notin Users /\ None \notin Users /\ Org # None
ASSUME BoundsAssumption == MaxAccounts \in Nat \ {0} /\ MaxChanges \in Nat

ProfileStatus == {"none", "invited", "active", "suspended"}
AccessStatus  == {"none", "invited", "active", "suspended"}
OrgStatus     == {"none", "onboarding", "active", "archived"}

VARIABLES
    \* Clerk
    accounts,   \* accounts each user has opened; the last is the current id
    live,       \* users whose last account exists
    members,    \* users who are members of the organization
    orgLive,    \* whether the organization exists
    events,     \* webhooks sent and not yet acknowledged
    clock,      \* changes announced so far
    \* rows; "none" where there is no row
    profile,    \* UserProfile.status
    clerkId,    \* UserProfile.clerkUserId, 0 for a pending_ placeholder
    access,     \* OrgUserAccess.status
    orgRow,     \* CustomerOrganization.status
    \* calls
    pc, frame,
    \* history
    disturbed,  \* subjects whose events or calls crossed, see Crossing
    held        \* users an operator suspended and none has let in since

clerk   == <<accounts, live, members, orgLive>>
outside == <<clerk, events, clock>>
rows    == <<profile, clerkId, access, orgRow>>
history == <<disturbed, held>>
vars    == <<outside, rows, pc, frame, history>>

-----------------------------------------------------------------------------
(***************************************************************************)
(* Calls.                                                                  *)
(***************************************************************************)
NoFrame == [event |-> None, user |-> None, account |-> 0, seen |-> "none",
            org |-> FALSE, gone |-> {}, remove |-> {}, add |-> {},
            now |-> None, was |-> FALSE, at |-> 0, alone |-> TRUE]

\* The users a call is about: reconciling the organization is about all.
Concerns(f) == IF f.user = Org THEN Users ELSE {f.user} \cap Users

Goto(c, label) == pc' = [pc EXCEPT ![c] = label]

Return(c) == Goto(c, "idle") /\ frame' = [frame EXCEPT ![c] = NoFrame]

\* A call begins, out of turn for the subjects in late.  Those under way about
\* the same user are no longer alone.
Enter(c, label, f, late) ==
    LET others == {d \in Calls : Concerns(frame[d]) \cap Concerns(f) # {}}
        shared == {u \in Concerns(f) : \E d \in others : u \in Concerns(frame[d])}
    IN  /\ pc[c] = "idle"
        /\ Goto(c, label)
        /\ frame' = [d \in Calls |->
                        IF d = c THEN [f EXCEPT !.alone = others = {} \/ ~f.was]
                        ELSE IF d \in others THEN [frame[d] EXCEPT !.alone = ~frame[d].was]
                        ELSE frame[d]]
        /\ disturbed' = disturbed \cup shared \cup late

\* Where a call is that has an access row in hand.
Holding == {"heal", "reinvite", "set", "remove_member", "remove_row", "apply"}

\* A row is deleted: calls that read it hold an id no statement finds again.
RowDeleted(c, u, f) ==
    /\ access' = [access EXCEPT ![u] = "none"]
    /\ frame' = [d \in Calls |->
                    IF d = c THEN f
                    ELSE IF u \in Concerns(frame[d]) /\ pc[d] \in Holding
                         THEN [frame[d] EXCEPT !.gone = @ \cup {u}]
                    ELSE frame[d]]

-----------------------------------------------------------------------------
(***************************************************************************)
(* Clerk.                                                                  *)
(***************************************************************************)
Announce(kinds, s, account) ==
    /\ clock < MaxChanges
    /\ clock' = clock + 1
    /\ events' = events \cup {[kind |-> k, of |-> s, account |-> account,
                               seq |-> clock + 1] : k \in kinds}

SignUp(u) ==
    /\ u \notin live /\ accounts[u] < MaxAccounts
    /\ accounts' = [accounts EXCEPT ![u] = @ + 1]
    /\ live' = live \cup {u}
    /\ Announce({"user.created"}, u, accounts[u] + 1)
    /\ UNCHANGED <<members, orgLive, rows, pc, frame, history>>

DeleteAccount(u) ==
    /\ u \in live
    /\ live' = live \ {u}
    /\ members' = members \ {u}
    /\ Announce({"user.deleted"} \cup
                IF u \in members THEN {"membership.deleted"} ELSE {}, u, accounts[u])
    /\ UNCHANGED <<accounts, orgLive, rows, pc, frame, history>>

\* An invitation is accepted, or somebody uses Clerk's dashboard.
Join(u) ==
    /\ u \in live \ members /\ orgLive
    /\ members' = members \cup {u}
    /\ Announce({"membership.created"}, u, accounts[u])
    /\ UNCHANGED <<accounts, live, orgLive, rows, pc, frame, history>>

Leave(u) ==
    /\ u \in members
    /\ members' = members \ {u}
    /\ Announce({"membership.deleted"}, u, accounts[u])
    /\ UNCHANGED <<accounts, live, orgLive, rows, pc, frame, history>>

\* A role is changed there: organizationMembership.updated, handled like a
\* creation.
ChangeRole(u) ==
    /\ u \in members
    /\ Announce({"membership.created"}, u, accounts[u])
    /\ UNCHANGED <<clerk, rows, pc, frame, history>>

DeleteOrg ==
    /\ orgLive
    /\ orgLive' = FALSE
    /\ members' = {}
    /\ Announce({"organization.deleted"}, Org, 0)
    /\ UNCHANGED <<accounts, live, rows, pc, frame, history>>

\* Clerk stops repeating a webhook that is not acknowledged.
GiveUp(e) ==
    /\ e \in events
    /\ events' = events \ {e}
    /\ disturbed' = disturbed \cup {e.of}
    /\ UNCHANGED <<clerk, clock, rows, pc, frame, held>>

-----------------------------------------------------------------------------
(***************************************************************************)
(* The profile of a Clerk account.                                         *)
(***************************************************************************)
ById(u, account) == profile[u] # "none" /\ clerkId[u] = account

\* Mutant: Every profile that signs in becomes active.
ClaimAwake(u, account, seen) ==
    /\ seen = "none" => profile[u] = "none"
    /\ profile' = [profile EXCEPT ![u] = "active"]
    /\ clerkId' = [clerkId EXCEPT ![u] = account]

\* Update the profile read before (an invited one becomes active, any other
\* status is written back as it was read), or create one, which the unique
\* address prevents if there is one by now.
Claim(u, account, seen) ==
    /\ seen = "none" => profile[u] = "none"
    /\ profile' = [profile EXCEPT ![u] =
                      IF seen \in {"none", "invited"} THEN "active" ELSE seen]
    /\ clerkId' = [clerkId EXCEPT ![u] = account]

\* The row leaves one account for another, whose late events will miss it.
Relinked(u, account) ==
    IF profile[u] # "none" /\ clerkId[u] \notin {0, account} THEN {u} ELSE {}

\* resolveOrAdoptUserProfile and autoProvisionFromClerk, after the lookup by
\* id failed: ask Clerk for the address; an error there is an absent profile.
AskClerk(c) ==
    /\ pc[c] = "ask"
    /\ frame[c].user \in live /\ accounts[frame[c].user] = frame[c].account
    /\ Goto(c, "by_email")
    /\ UNCHANGED <<outside, rows, frame, history>>

AskFails(c) ==
    /\ pc[c] = "ask"
    /\ IF frame[c].event = None THEN Return(c)
                                ELSE Goto(c, "log") /\ UNCHANGED frame
    /\ UNCHANGED <<outside, rows, history>>

FindByEmail(c) ==
    /\ pc[c] = "by_email"
    /\ frame' = [frame EXCEPT ![c].seen = profile[frame[c].user]]
    /\ Goto(c, "adopt")
    /\ UNCHANGED <<outside, rows, history>>

\* A visitor goes on unless he is suspended, an event if the organization was
\* found as well.
Adopt(c) ==
    LET f == frame[c] IN
    /\ pc[c] = "adopt"
    /\ Claim(f.user, f.account, f.seen)
    /\ disturbed' = disturbed \cup Relinked(f.user, f.account)
    /\ IF f.event = None /\ f.seen = "suspended"
       THEN Return(c)
       ELSE /\ Goto(c, IF f.event = None THEN "list"
                       ELSE IF f.org THEN "grant" ELSE "log")
            /\ frame' = [frame EXCEPT ![c].seen = "none"]
    /\ UNCHANGED <<outside, access, orgRow, held>>

-----------------------------------------------------------------------------
(***************************************************************************)
(* POST /api/webhooks/clerk.  Whatever throws answers 500, so the event    *)
(* stays with Clerk; a handler that finds nothing to do answers 200.       *)
(***************************************************************************)
\* An event comes out of turn if an older one of its subject is still to be
\* handled.
Overtaking(e) == IF \E o \in events : o.of = e.of /\ o.seq < e.seq THEN {e.of} ELSE {}

Receive(c, e) ==
    /\ e \in events
    /\ Enter(c, "find", [NoFrame EXCEPT !.event = e, !.account = e.account,
                                        !.user = IF e.of = Org THEN None ELSE e.of],
             Overtaking(e))
    /\ UNCHANGED <<outside, rows, held>>

Handling(c, kind) == pc[c] = "find" /\ frame[c].event.kind = kind

\* upsertUserFromClerk finds the profile by id or by address.
FindUser(c) ==
    /\ Handling(c, "user.created")
    /\ frame' = [frame EXCEPT ![c].seen = profile[frame[c].user]]
    /\ Goto(c, "store_user")
    /\ UNCHANGED <<outside, rows, history>>

StoreUser(c) ==
    LET f == frame[c] IN
    /\ pc[c] = "store_user"
    /\ Claim(f.user, f.account, f.seen)
    /\ disturbed' = disturbed \cup Relinked(f.user, f.account)
    /\ frame' = [frame EXCEPT ![c].seen = "none"]
    /\ Goto(c, "log")
    /\ UNCHANGED <<outside, access, orgRow, held>>

\* deleteUserFromClerk
FindDeletedUser(c) ==
    /\ Handling(c, "user.deleted")
    /\ Goto(c, IF ById(frame[c].user, frame[c].account) THEN "suspend" ELSE "log")
    /\ UNCHANGED <<outside, rows, frame, history>>

Suspend(c) ==
    /\ pc[c] = "suspend"
    /\ profile' = [profile EXCEPT ![frame[c].user] = "suspended"]
    /\ Goto(c, "log")
    /\ UNCHANGED <<outside, clerkId, access, orgRow, frame, history>>

\* upsertOrgFromClerk: an update leaves the status alone; the unique
\* clerkOrgId rejects a second create.
FindOrg(c) ==
    /\ Handling(c, "organization.created")
    /\ frame' = [frame EXCEPT ![c].org = orgRow # "none"]
    /\ Goto(c, "store_org")
    /\ UNCHANGED <<outside, rows, history>>

StoreOrg(c) ==
    /\ pc[c] = "store_org"
    /\ frame[c].org \/ orgRow = "none"
    /\ orgRow' = IF frame[c].org THEN orgRow ELSE "onboarding"
    /\ Goto(c, "log")
    /\ UNCHANGED <<outside, profile, clerkId, access, frame, history>>

\* deleteOrgFromClerk; the row is never removed, so it is read and archived
\* at once.
ArchiveOrg(c) ==
    /\ Handling(c, "organization.deleted")
    /\ orgRow' = IF orgRow = "none" THEN "none" ELSE "archived"
    /\ Goto(c, "log")
    /\ UNCHANGED <<outside, profile, clerkId, access, frame, history>>

\* upsertMembershipFromClerk: both lookups are issued together.
FindMember(c) ==
    /\ Handling(c, "membership.created")
    /\ frame' = [frame EXCEPT ![c].org = orgRow # "none"]
    /\ Goto(c, IF ~ById(frame[c].user, frame[c].account) THEN "ask"
               ELSE IF orgRow # "none" THEN "grant" ELSE "log")
    /\ UNCHANGED <<outside, rows, history>>

Grant(c) ==
    /\ pc[c] = "grant"
    /\ access' = [access EXCEPT ![frame[c].user] = "active"]
    /\ Goto(c, "log")
    /\ UNCHANGED <<outside, profile, clerkId, orgRow, frame, history>>

\* deleteMembershipFromClerk finds the profile by id only.
FindRemoved(c) ==
    /\ Handling(c, "membership.deleted")
    /\ Goto(c, IF ById(frame[c].user, frame[c].account) /\ orgRow # "none"
               THEN "revoke" ELSE "log")
    /\ UNCHANGED <<outside, rows, frame, history>>

Revoke(c) ==
    /\ pc[c] = "revoke"
    /\ RowDeleted(c, frame[c].user, frame[c])
    /\ Goto(c, "log")
    /\ UNCHANGED <<outside, profile, clerkId, orgRow, history>>

\* logWebhookEvent and the answer.
Acknowledge(c) ==
    LET e == frame[c].event IN
    /\ pc[c] = "log"
    /\ events' = events \ {e}
    /\ Return(c)
    /\ UNCHANGED <<clerk, clock, rows, history>>

-----------------------------------------------------------------------------
(***************************************************************************)
(* A signed-in user opens /welcome: getCurrentAuthContext, then            *)
(* reconcileUserOrgMembershipsFromClerk, which never throws, then the list *)
(* of what he can launch.                                                  *)
(***************************************************************************)
\* Someone who should find the organization's apps on his list.
Welcome(u) ==
    /\ u \in live \cap members
    /\ orgRow # "none" /\ profile[u] # "suspended"

Visit(c, u) ==
    /\ u \in live
    /\ Enter(c, "context", [NoFrame EXCEPT !.user = u, !.account = accounts[u],
                                           !.was = Welcome(u), !.at = clock], {})
    /\ UNCHANGED <<outside, rows, held>>

Authenticate(c) ==
    LET u == frame[c].user IN
    /\ pc[c] = "context"
    /\ IF ById(u, frame[c].account) /\ profile[u] = "suspended"
       THEN Return(c)
       ELSE /\ Goto(c, IF ById(u, frame[c].account) THEN "list" ELSE "ask")
            /\ UNCHANGED frame
    /\ UNCHANGED <<outside, rows, history>>

\* Mutant: The list is not looked at.
ListNothing(c) ==
    /\ pc[c] = "list"
    /\ Goto(c, "heal_find")
    /\ UNCHANGED <<outside, rows, frame, history>>

ListMemberships(c) ==
    LET u == frame[c].user IN
    /\ pc[c] = "list"
    /\ Goto(c, IF u \in members /\ accounts[u] = frame[c].account
               THEN "heal_find" ELSE "launch")
    /\ UNCHANGED <<outside, rows, frame, history>>

\* Mutant: A row that is there is taken for right, also one stuck at invited.
FindMissingAccess(c) ==
    LET u == frame[c].user IN
    /\ pc[c] = "heal_find"
    /\ frame' = [frame EXCEPT ![c].seen = access[u], ![c].gone = {}]
    /\ Goto(c, IF orgRow = "none" \/ access[u] # "none" THEN "launch" ELSE "heal")
    /\ UNCHANGED <<outside, rows, history>>

\* The organization's row, once there, stays; so it and the access row are
\* read at once.
FindAccess(c) ==
    LET u == frame[c].user IN
    /\ pc[c] = "heal_find"
    /\ frame' = [frame EXCEPT ![c].seen = access[u], ![c].gone = {}]
    /\ Goto(c, IF orgRow = "none" \/ access[u] = "active" THEN "launch" ELSE "heal")
    /\ UNCHANGED <<outside, rows, history>>

Heal(c) ==
    LET u == frame[c].user IN
    /\ pc[c] = "heal"
    /\ IF frame[c].seen = "none" THEN access[u] = "none" ELSE u \notin frame[c].gone
    /\ access' = [access EXCEPT ![u] = "active"]
    /\ frame' = [frame EXCEPT ![c].seen = "none", ![c].gone = {}]
    /\ Goto(c, "launch")
    /\ UNCHANGED <<outside, profile, clerkId, orgRow, history>>

\* An error while reconciling is swallowed; the page is shown all the same.
HealFails(c) ==
    /\ pc[c] \in {"list", "heal_find", "heal"}
    /\ frame' = [frame EXCEPT ![c].was = FALSE]
    /\ Goto(c, "launch")
    /\ UNCHANGED <<outside, rows, history>>

Launch(c) ==
    /\ pc[c] = "launch"
    /\ Return(c)
    /\ UNCHANGED <<outside, rows, history>>

-----------------------------------------------------------------------------
(***************************************************************************)
(* An operator acts on one user.                                           *)
(***************************************************************************)
Operations == {"invite", "onboard", "resend", "update", "add", "remove"}

Operate(c, u, operation) ==
    /\ Enter(c, operation, [NoFrame EXCEPT !.user = u], {})
    /\ UNCHANGED <<outside, rows, held>>

\* The row that is read first, without which the operation throws, and the
\* account its profile has by then.
ReadAccess(c, label) ==
    LET u == frame[c].user IN
    /\ access[u] # "none"
    /\ frame' = [frame EXCEPT ![c].account = clerkId[u], ![c].gone = {}]
    /\ Goto(c, label)
    /\ UNCHANGED <<outside, rows, history>>

\* inviteCustomerUser and, for another application, onboardSuiteEmployee:
\* ensureUserProfileByEmail leaves an existing profile as it is; then the
\* invitation is sent, or not asked for.
EnsureProfile(c) ==
    LET u == frame[c].user IN
    /\ pc[c] \in {"invite", "onboard"} /\ orgRow # "none"
    /\ profile' = [profile EXCEPT ![u] = IF @ = "none" THEN "invited" ELSE @]
    /\ Goto(c, IF pc[c] = "invite" THEN "store_invited" ELSE "store_onboarded")
    /\ UNCHANGED <<outside, clerkId, access, orgRow, frame, history>>

StoreInvited(c) ==
    /\ pc[c] = "store_invited"
    /\ access' = [access EXCEPT ![frame[c].user] = "invited"]
    /\ held' = held \ {frame[c].user}
    /\ Return(c)
    /\ UNCHANGED <<outside, profile, clerkId, orgRow, disturbed>>

\* An onboarding leaves the status of an existing row as it is.
StoreOnboarded(c) ==
    /\ pc[c] = "store_onboarded"
    /\ access' = [access EXCEPT ![frame[c].user] = IF @ = "none" THEN "invited" ELSE @]
    /\ Return(c)
    /\ UNCHANGED <<outside, profile, clerkId, orgRow, history>>

\* resendCustomerUserInvitation: somebody with an account is mailed a sign-in
\* link; for others the invitation is replaced and the row set to invited.
Resend(c) ==
    /\ pc[c] = "resend"
    /\ IF clerkId[frame[c].user] = 0
       THEN ReadAccess(c, "reinvite")
       ELSE Return(c) /\ UNCHANGED <<outside, rows, history>>

Reinvite(c) ==
    LET u == frame[c].user IN
    /\ pc[c] = "reinvite" /\ u \notin frame[c].gone
    /\ access' = [access EXCEPT ![u] = "invited"]
    /\ held' = held \ {u}
    /\ Return(c)
    /\ UNCHANGED <<outside, profile, clerkId, orgRow, disturbed>>

\* updateOrgUserAccess: the status is what the operator says, whatever Clerk
\* thinks; a role that crosses the line between Clerk's two is sent there.
Update(c) == pc[c] = "update" /\ ReadAccess(c, "set")

SetStatus(c, status) ==
    LET u == frame[c].user IN
    /\ pc[c] = "set" /\ u \notin frame[c].gone
    /\ access' = [access EXCEPT ![u] = status]
    /\ held' = IF status = "suspended" THEN held \cup {u} ELSE held \ {u}
    /\ disturbed' = IF status = "active" /\ u \notin members
                    THEN disturbed \cup {u} ELSE disturbed
    /\ Return(c)
    /\ UNCHANGED <<outside, profile, clerkId, orgRow>>

SetRole(c) ==
    /\ pc[c] = "set" /\ frame[c].user \notin frame[c].gone
    /\ Goto(c, "mirror_role")
    /\ UNCHANGED <<outside, rows, frame, history>>

\* Clerk's members by the account a call has in hand.
MemberAs(u, account) == u \in members /\ accounts[u] = account

\* tryClerk: a refusal is logged and the operation goes on.
MirrorRole(c) ==
    LET u == frame[c].user IN
    /\ pc[c] = "mirror_role"
    /\ \/ MemberAs(u, frame[c].account) /\ Announce({"membership.created"}, u, accounts[u])
       \/ UNCHANGED <<events, clock>>
    /\ Return(c)
    /\ UNCHANGED <<clerk, rows, history>>

\* addUserToOrg: for users with a real account, and Clerk first.
FindUserAndOrg(c) ==
    LET u == frame[c].user IN
    /\ pc[c] = "add"
    /\ profile[u] # "none" /\ clerkId[u] # 0 /\ orgRow # "none"
    /\ frame' = [frame EXCEPT ![c].account = clerkId[u]]
    /\ Goto(c, "add_member")
    /\ UNCHANGED <<outside, rows, history>>

AddMember(c) ==
    LET u == frame[c].user IN
    /\ pc[c] = "add_member"
    /\ orgLive /\ u \in live \ members /\ accounts[u] = frame[c].account
    /\ members' = members \cup {u}
    /\ Announce({"membership.created"}, u, accounts[u])
    /\ Goto(c, "store_member")
    /\ UNCHANGED <<accounts, live, orgLive, rows, frame, history>>

StoreMember(c) ==
    /\ pc[c] = "store_member"
    /\ access' = [access EXCEPT ![frame[c].user] = "active"]
    /\ held' = held \ {frame[c].user}
    /\ Return(c)
    /\ UNCHANGED <<outside, profile, clerkId, orgRow, disturbed>>

\* removeCustomerUser: Clerk's membership if it can be had, then the row.
Remove(c) ==
    /\ pc[c] = "remove"
    /\ ReadAccess(c, IF clerkId[frame[c].user] = 0 THEN "remove_row" ELSE "remove_member")

RemoveMember(c) ==
    LET u == frame[c].user IN
    /\ pc[c] = "remove_member"
    /\ \/ /\ MemberAs(u, frame[c].account)
          /\ members' = members \ {u}
          /\ Announce({"membership.deleted"}, u, accounts[u])
       \/ UNCHANGED <<members, events, clock>>
    /\ Goto(c, "remove_row")
    /\ UNCHANGED <<accounts, live, orgLive, rows, frame, history>>

RemoveRow(c) ==
    LET u == frame[c].user IN
    /\ pc[c] = "remove_row" /\ u \notin frame[c].gone
    /\ RowDeleted(c, u, NoFrame)
    /\ held' = held \ {u}
    /\ Goto(c, "idle")
    /\ UNCHANGED <<outside, profile, clerkId, orgRow, disturbed>>

-----------------------------------------------------------------------------
(***************************************************************************)
(* reconcileOrgMembersWithClerk: Clerk's list and the rows are read once,  *)
(* then rows are dropped and added one after the other.                    *)
(***************************************************************************)
Reconcile(c) ==
    /\ Enter(c, "reconcile", [NoFrame EXCEPT !.user = Org], {})
    /\ UNCHANGED <<outside, rows, held>>

ReadBoth(c) ==
    LET listed(u) == u \in members /\ accounts[u] = clerkId[u] IN
    /\ pc[c] = "reconcile" /\ orgRow # "none" /\ orgLive
    /\ frame' = [frame EXCEPT
          ![c].gone   = {},
          ![c].remove = {u \in Users : access[u] # "none" /\ clerkId[u] # 0 /\ ~listed(u)},
          ![c].add    = {<<u, accounts[u]>> : u \in
                            {v \in members : access[v] = "none" \/ ~listed(v)}}]
    /\ Goto(c, "apply")
    /\ UNCHANGED <<outside, rows, history>>

Drop(c, u) ==
    /\ pc[c] = "apply" /\ u \in frame[c].remove \ frame[c].gone
    /\ RowDeleted(c, u, [frame[c] EXCEPT !.remove = @ \ {u}])
    /\ UNCHANGED <<outside, profile, clerkId, orgRow, pc, history>>

\* The profile by its address; its status is not touched.
AddProfile(c, u, account) ==
    /\ pc[c] = "apply" /\ frame[c].remove = {}
    /\ <<u, account>> \in frame[c].add
    /\ profile' = [profile EXCEPT ![u] = IF @ = "none" THEN "active" ELSE @]
    /\ clerkId' = [clerkId EXCEPT ![u] = account]
    /\ disturbed' = disturbed \cup Relinked(u, account)
    /\ frame' = [frame EXCEPT ![c].add = @ \ {<<u, account>>}, ![c].now = u]
    /\ Goto(c, "apply_access")
    /\ UNCHANGED <<outside, access, orgRow, held>>

AddAccess(c) ==
    /\ pc[c] = "apply_access"
    /\ access' = [access EXCEPT ![frame[c].now] = "active"]
    /\ held' = held \ {frame[c].now}
    /\ frame' = [frame EXCEPT ![c].now = None]
    /\ Goto(c, "apply")
    /\ UNCHANGED <<outside, profile, clerkId, orgRow, disturbed>>

Reconciled(c) ==
    /\ pc[c] = "apply" /\ frame[c].remove = {} /\ frame[c].add = {}
    /\ Return(c)
    /\ UNCHANGED <<outside, rows, history>>

\* A statement throws or the process dies.  A webhook is then not acknowledged.
Abandon(c) ==
    /\ pc[c] # "idle"
    /\ Return(c)
    /\ UNCHANGED <<outside, rows, history>>

-----------------------------------------------------------------------------
\* The organization was set up here, or in Clerk's dashboard, with its event
\* on the way; in the first case users may be members of long standing.
Init ==
    /\ orgRow \in {"none", "active"}
    /\ members \in SUBSET Users
    /\ orgRow = "none" => members = {}
    /\ live = members
    /\ accounts = [u \in Users |-> IF u \in members THEN 1 ELSE 0]
    /\ clerkId = accounts
    /\ profile = [u \in Users |-> IF u \in members THEN "active" ELSE "none"]
    /\ access = profile
    /\ orgLive = TRUE
    /\ events = IF orgRow = "active" THEN {}
                ELSE {[kind |-> "organization.created", of |-> Org, account |-> 0,
                       seq |-> 0]}
    /\ clock = 0
    /\ pc = [c \in Calls |-> "idle"]
    /\ frame = [c \in Calls |-> NoFrame]
    /\ disturbed = {}
    /\ held = {}

ClerkActs ==
    \/ \E u \in Users : SignUp(u) \/ DeleteAccount(u) \/ Join(u) \/ Leave(u) \/ ChangeRole(u)
    \/ DeleteOrg
    \/ \E e \in events : GiveUp(e)

WebhookStep(c) ==
    \/ FindUser(c) \/ StoreUser(c) \/ FindDeletedUser(c) \/ Suspend(c)
    \/ FindOrg(c) \/ StoreOrg(c) \/ ArchiveOrg(c)
    \/ FindMember(c) \/ Grant(c) \/ FindRemoved(c) \/ Revoke(c) \/ Acknowledge(c)

VisitStep(c) ==
    \/ Authenticate(c) \/ ListMemberships(c) \/ FindAccess(c)
    \/ Heal(c) \/ HealFails(c) \/ Launch(c)

ProfileStep(c) == AskClerk(c) \/ AskFails(c) \/ FindByEmail(c) \/ Adopt(c)

OperatorStep(c) ==
    \/ EnsureProfile(c) \/ StoreInvited(c) \/ StoreOnboarded(c)
    \/ Resend(c) \/ Reinvite(c)
    \/ Update(c) \/ \E status \in {"active", "suspended"} : SetStatus(c, status)
    \/ SetRole(c) \/ MirrorRole(c)
    \/ FindUserAndOrg(c) \/ AddMember(c) \/ StoreMember(c)
    \/ Remove(c) \/ RemoveMember(c) \/ RemoveRow(c)

ReconcileStep(c) ==
    \/ ReadBoth(c) \/ \E u \in Users : Drop(c, u)
    \/ \E item \in frame[c].add : AddProfile(c, item[1], item[2])
    \/ AddAccess(c) \/ Reconciled(c)

Next ==
    \/ ClerkActs
    \/ \E c \in Calls :
          \/ \E e \in events : Receive(c, e)
          \/ \E u \in Users : Visit(c, u) \/ \E o \in Operations : Operate(c, u, o)
          \/ Reconcile(c)
          \/ WebhookStep(c) \/ VisitStep(c) \/ ProfileStep(c)
          \/ OperatorStep(c) \/ ReconcileStep(c) \/ Abandon(c)

Spec == Init /\ [][Next]_vars

-----------------------------------------------------------------------------
Seq == 0..MaxChanges
Event == [kind : {"user.created", "user.deleted", "organization.created",
                  "organization.deleted", "membership.created", "membership.deleted"},
          of : Users \cup {Org}, account : 0..MaxAccounts, seq : Seq]

ASSUME NoneAssumption == None \notin Event

\* What each variable may hold, and that a call in no slot is forgotten.
TypeOK ==
    /\ accounts \in [Users -> 0..MaxAccounts]
    /\ members \subseteq live /\ live \subseteq Users
    /\ orgLive \in BOOLEAN /\ events \subseteq Event /\ clock \in Seq
    /\ profile \in [Users -> ProfileStatus] /\ access \in [Users -> AccessStatus]
    /\ clerkId \in [Users -> 0..MaxAccounts] /\ orgRow \in OrgStatus
    /\ disturbed \subseteq Users \cup {Org} /\ held \subseteq Users
    /\ \A c \in Calls : pc[c] = "idle" => frame[c] = NoFrame
    /\ \A u \in Users : access[u] # "none" => profile[u] # "none" /\ orgRow # "none"

\* An event on its way, or being handled, that will take the row away.
RevocationDue(u) ==
    \/ \E e \in events : e.of = u /\ e.kind = "membership.deleted"
    \/ \E e \in events : e.of = Org /\ e.kind = "organization.deleted"

\* Nobody keeps access who is no member in Clerk: an active row of a live
\* organization belongs to a member, or the event that takes it away is still
\* on its way.  (Unless events of this user or of the organization were
\* handled out of order or given up, two calls about him overlapped, an
\* operator activated him by hand, or his address moved to a new account.)
NoStaleAccess ==
    \A u \in Users \ disturbed :
        access[u] = "active" /\ orgRow # "archived" /\ Org \notin disturbed
            => u \in members \/ RevocationDue(u)

\* A visit repairs what webhooks missed: somebody who was a member when he
\* opened /welcome finds himself active there, with a row that was missing or
\* stuck at invited, whatever events came late, were lost or still wait, if
\* nothing changed while the page was made.  Nothing is asked for somebody an
\* operator keeps suspended (SuspensionHolds says what the page says of him).
VisitHeals ==
    \A c \in Calls :
        frame[c].user \notin held /\ pc[c] = "launch" /\ frame[c].was
        /\ frame[c].at = clock /\ frame[c].alone
            => access[frame[c].user] = "active"

\* Once suspended, a profile is not woken by anything Clerk says or the user
\* does, unless two calls about him overlap: a stale copy is written back.
SuspendedStays ==
    [][\A u \in Users : profile[u] = "suspended" /\ u \notin disturbed
           => profile'[u] = "suspended"]_vars

\* Who is suspended from an organization loses access until an operator lets
\* him in again.
SuspensionHolds == \A u \in held : access[u] # "active"
=============================================================================
