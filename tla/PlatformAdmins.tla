--------------------------- MODULE PlatformAdmins ---------------------------
(***************************************************************************)
(* The operators of the platform: updatePlatformUser and                   *)
(* inviteMacTechAdmin of lib/services/user-service.ts.  Only an active     *)
(* super admin may change roles and statuses, so the last one must stay.   *)
(*                                                                         *)
(* A step is one awaited call; requests interleave and may die in between. *)
(* External: Clerk takes or rejects an invitation, signs people in and     *)
(* deletes accounts.  Out of the model: memberships of the internal        *)
(* organization, isInternalMacTechUser, which is written with the role and *)
(* agrees with it, audit entries.                                          *)
(***************************************************************************)
EXTENDS FiniteSets

CONSTANTS
    Calls,  \* slots for requests
    Admins, \* mail addresses, with or without a profile
    Roles,  \* platform roles
    UserStatuses, \* statuses a request may set: UserStatusEnum
    None

AdminsAssumption ==
    /\ {"mactech_super_admin", "none"} \subseteq Roles /\ None \notin Roles \cup Calls
    /\ {"active", "suspended"} \subseteq UserStatuses
    /\ {"missing", None} \cap UserStatuses = {}

VARIABLES
    role, status, \* of each UserProfile; status "missing" without one
    pc, frame

vars == <<role, status, pc, frame>>

\* stale (history): a role or status changed since the read a write rests on.
NoFrame == [actor |-> None, target |-> None, role |-> None, status |-> None, stale |-> FALSE]

Goto(c, label) == pc' = [pc EXCEPT ![c] = label]
Return(c) == Goto(c, "idle") /\ frame' = [frame EXCEPT ![c] = NoFrame]

\* The frames after a change of a profile, by call c or by nobody.
Stale(c) == [x \in Calls |-> IF x = c \/ pc[x] = "idle" THEN NoFrame
                             ELSE [frame[x] EXCEPT !.stale = TRUE]]

IsSuper(u) == role[u] = "mactech_super_admin"
Supers == {u \in Admins : IsSuper(u) /\ status[u] = "active"}

-----------------------------------------------------------------------------
\* requirePlatformPermission(MACTECH_USERS_MANAGE): a super admin's request.
Request(c, actor, label, f) ==
    /\ pc[c] = "idle" /\ actor \in Supers
    /\ Goto(c, label)
    /\ frame' = [frame EXCEPT ![c] = f]
    /\ UNCHANGED <<role, status>>

\* updatePlatformUserSchema: a role, a status, or both.
Update(c, actor, target, r, s) ==
    /\ r # None \/ s # None
    /\ Request(c, actor, "load", [NoFrame EXCEPT !.actor = actor, !.target = target,
                                                 !.role = r, !.status = s])

Demotes(f) == f.role \notin {None, "mactech_super_admin"}

\* Of the statuses that end one's own access only "suspended" is refused.
Refused(f) == f.target = f.actor /\ (Demotes(f) \/ f.status = "suspended")

\* The profile as it was before, which must exist.
Load(c) ==
    /\ pc[c] = "load"
    /\ LET f == frame[c] IN
       IF status[f.target] = "missing" \/ Refused(f) THEN Return(c)
       ELSE /\ Goto(c, IF f.target # f.actor /\ IsSuper(f.target) /\ Demotes(f)
                       THEN "count" ELSE "write")
            /\ frame' = [frame EXCEPT ![c].actor = IF @ = f.target THEN @ ELSE None]
    /\ UNCHANGED <<role, status>>

\* Mutant: The one to be demoted is counted too.
CountAll(c) ==
    /\ pc[c] = "count"
    /\ IF Supers = {} THEN Return(c)
       ELSE Goto(c, "write") /\ frame' = [frame EXCEPT ![c].stale = FALSE]
    /\ UNCHANGED <<role, status>>

\* Another active super admin must remain.
Count(c) ==
    /\ pc[c] = "count"
    /\ IF Supers \ {frame[c].target} = {} THEN Return(c)
       ELSE Goto(c, "write") /\ frame' = [frame EXCEPT ![c].stale = FALSE]
    /\ UNCHANGED <<role, status>>

Write(c) ==
    /\ pc[c] = "write"
    /\ LET f == frame[c] IN
       /\ role' = [role EXCEPT ![f.target] = IF f.role = None THEN @ ELSE f.role]
       /\ status' = [status EXCEPT ![f.target] = IF f.status = None THEN @ ELSE f.status]
    /\ frame' = Stale(c) /\ Goto(c, "idle")

-----------------------------------------------------------------------------
\* inviteMacTechAdmin: by mail address, also of somebody who is an operator.
Invite(c, actor, target, r) ==
    /\ r # "none"
    /\ Request(c, actor, "ensure", [NoFrame EXCEPT !.target = target, !.role = r])

\* ensureUserProfileByEmail.
EnsureProfile(c) ==
    /\ pc[c] = "ensure" /\ Goto(c, "invite")
    /\ status' = [status EXCEPT ![frame[c].target] = IF @ = "missing" THEN "invited" ELSE @]
    /\ UNCHANGED <<role, frame>>

\* createClerkInvitation; Clerk rejects who is a member already.
CreateInvitation(c, ok) ==
    /\ pc[c] = "invite"
    /\ IF ok THEN Goto(c, "promote") /\ UNCHANGED frame ELSE Return(c)
    /\ UNCHANGED <<role, status>>

Promote(c) ==
    /\ pc[c] = "promote"
    /\ role' = [role EXCEPT ![frame[c].target] = frame[c].role]
    /\ frame' = Stale(c) /\ Goto(c, "idle")
    /\ UNCHANGED status

\* A statement throws, or the process dies.
Abandon(c) ==
    /\ pc[c] # "idle" /\ Return(c)
    /\ UNCHANGED <<role, status>>

-----------------------------------------------------------------------------
\* upsertUserFromClerk, or the first request: an invited profile is claimed,
\* a missing one is created.
SignIn(u) ==
    /\ status[u] \in {"invited", "missing"}
    /\ status' = [status EXCEPT ![u] = "active"]
    /\ UNCHANGED <<role, pc, frame>>

\* deleteUserFromClerk.
DeleteAccount(u) ==
    /\ status[u] # "missing"
    /\ status' = [status EXCEPT ![u] = "suspended"]
    /\ frame' = Stale(None)
    /\ UNCHANGED <<role, pc>>

Init ==
    /\ role \in [Admins -> Roles]
    /\ status = [u \in Admins |-> IF role[u] = "none" THEN "missing" ELSE "active"]
    /\ Supers # {}
    /\ pc = [c \in Calls |-> "idle"]
    /\ frame = [c \in Calls |-> NoFrame]

Next ==
    \/ \E u \in Admins : SignIn(u) \/ DeleteAccount(u)
    \/ \E c \in Calls :
          \/ \E actor, target \in Admins :
                \/ \E r \in Roles \cup {None}, s \in UserStatuses \cup {None} :
                      Update(c, actor, target, r, s)
                \/ \E r \in Roles : Invite(c, actor, target, r)
          \/ Load(c) \/ Count(c) \/ Write(c)
          \/ EnsureProfile(c) \/ CreateInvitation(c, TRUE) \/ CreateInvitation(c, FALSE)
          \/ Promote(c) \/ Abandon(c)

Spec == Init /\ [][Next]_vars

-----------------------------------------------------------------------------
\* What each variable may hold.
TypeOK ==
    /\ role \in [Admins -> Roles]
    /\ status \in [Admins -> UserStatuses \cup {"invited", "missing"}]
    /\ \A c \in Calls : (pc[c] = "idle") = (frame[c] = NoFrame)

\* A super admin who sets himself to something else than active.
EndsOwnAccess(f) == f.actor = f.target /\ f.status \notin {None, "active"}

\* Somebody can always administer the platform: no change of a role or status
\* takes away the last active super admin, although changes of a status are not
\* counted, unless another change came between the read it rests on (the count
\* of the others, or the request's own permission) and its write.  Outside the
\* guard are Clerk's deletion of his account, an invitation that lowers him, and
\* his own request for a status other than "suspended".
LastSuperAdminStays ==
    [][Supers # {} /\ Supers' = {} =>
          \/ pc' = pc
          \/ \E c \in Calls : pc[c] = "promote" /\ pc'[c] = "idle"
          \/ \E c \in Calls : /\ pc[c] = "write" /\ pc'[c] = "idle"
                              /\ frame[c].stale \/ EndsOwnAccess(frame[c])]_vars
=============================================================================
