------------------------- MODULE ClerkMirrorProofs -------------------------
(***************************************************************************)
(* What holds of the mirror of Clerk's memberships, for any users, any     *)
(* number of concurrent calls and any number of changes: a call about a    *)
(* user nobody else is at work on knows what it acts upon.                 *)
(***************************************************************************)
EXTENDS ClerkMirror, TLAPS

-----------------------------------------------------------------------------
(***************************************************************************)
(* Types.                                                                  *)
(***************************************************************************)
OrgKinds == {"organization.created", "organization.deleted"}
Account  == 0..MaxAccounts
Frame == [event : Event \cup {None}, user : Users \cup {Org, None}, account : Account,
          seen : ProfileStatus, org : BOOLEAN, gone : SUBSET Users, remove : SUBSET Users,
          add : SUBSET (Users \X Account), now : Users \cup {None}, was : BOOLEAN, at : Seq,
          alone : BOOLEAN]

\* Where a call of each sort may be.
EventOnly == {"find", "store_user", "suspend", "store_org", "grant", "revoke", "log"}
VisitOnly == {"context", "list", "heal_find", "heal", "launch"}
Shared    == {"ask", "by_email", "adopt"}
OperatorAt == {"invite", "onboard", "store_invited", "store_onboarded", "resend", "reinvite",
               "update", "set", "mirror_role", "add", "add_member", "store_member",
               "remove", "remove_member", "remove_row"}
OrgAt   == {"reconcile", "apply", "apply_access"}
CallAt  == {"idle"} \cup EventOnly \cup VisitOnly \cup Shared \cup OperatorAt \cup OrgAt

\* Where a call knows that the user has a profile and the organization a row.
KnowsProfile == {"list", "heal_find", "heal", "launch", "grant", "store_invited",
                 "store_onboarded", "reinvite", "set", "mirror_role", "add_member",
                 "store_member", "remove_member", "remove_row"}
KnowsOrg == {"heal", "grant", "store_invited", "store_onboarded", "reinvite", "set",
             "mirror_role", "add_member", "store_member", "remove_member", "remove_row",
             "apply", "apply_access"}

MirrorTypes ==
    /\ accounts \in [Users -> Account] /\ members \subseteq live /\ live \subseteq Users
    /\ orgLive \in BOOLEAN /\ events \subseteq Event /\ clock \in Seq
    /\ profile \in [Users -> ProfileStatus] /\ access \in [Users -> AccessStatus]
    /\ clerkId \in [Users -> Account] /\ orgRow \in OrgStatus
    /\ disturbed \subseteq Users \cup {Org} /\ held \subseteq Users
    /\ pc \in [Calls -> CallAt] /\ frame \in [Calls -> Frame]
    /\ \A u \in live : accounts[u] > 0
    /\ \A u \in Users : /\ profile[u] = "none" => clerkId[u] = 0
                        /\ access[u] # "none" => profile[u] # "none" /\ orgRow # "none"

\* An event names its subject, and those about an account come after its creation.
EventOK(e) ==
    /\ e.seq <= clock
    /\ e.kind \in OrgKinds <=> e.of = Org
    /\ e.of # Org => e.account > 0 /\ e.account <= accounts[e.of]
    /\ e.kind = "organization.created" => e.seq = 0
    /\ e.kind = "organization.deleted" => e.seq > 0

EventsOK ==
    /\ \A e \in events : EventOK(e)
    /\ \A o, e \in events :
          o.kind = "user.created" /\ e.kind # "user.created" /\ o.of = e.of
             /\ o.account = e.account => o.seq < e.seq

\* What a call has in hand, wherever it is.
PlaceOK(l, f) ==
    /\ l = "idle" => f = NoFrame
    /\ l \in OrgAt <=> f.user = Org
    /\ l \notin {"idle", "find", "log", "store_org"} \cup OrgAt => f.user \in Users
    /\ l \in EventOnly => f.event # None
    /\ f.event # None =>
          /\ l \in EventOnly \cup Shared /\ f.account = f.event.account
          /\ f.user = IF f.event.of = Org THEN None ELSE f.event.of
          /\ f.event.kind \in OrgKinds <=> f.event.of = Org
          /\ f.event.kind = "organization.deleted" => f.event.seq > 0
    /\ l = "store_user" => f.event.kind = "user.created"
    /\ l = "suspend" => f.event.kind = "user.deleted"
    /\ l = "store_org" => f.event.kind = "organization.created"
    /\ l = "revoke" => f.event.kind = "membership.deleted"
    /\ l = "grant" \/ (l \in Shared /\ f.event # None) => f.event.kind = "membership.created"
    /\ l = "apply_access" => f.now \in Users
    /\ f.user # Org => f.add = {} /\ f.now = None
    /\ f.was => l \in VisitOnly \cup Shared /\ f.user \in Users /\ f.event = None

\* What it knows for good.
KnownOK(l, f) ==
    /\ f.at <= clock
    /\ l \in KnowsProfile => profile[f.user] # "none"
    /\ l \in KnowsOrg => orgRow # "none"
    /\ f.org => orgRow # "none"
    /\ f.now # None => profile[f.now] # "none"
    /\ l = "log" /\ f.event.kind = "organization.created" => orgRow # "none"
    /\ f.event # None => f.event.seq <= clock

\* Some event takes the row of u away, or no member is left.
Excused(u) ==
    \/ u \in members \/ ~orgLive
    \/ \E o \in events : o.kind = "membership.deleted" /\ o.of = u

\* An event in hand is the oldest of its subject.
InTurn(f) ==
    f.event # None /\ f.event.of \notin disturbed =>
        /\ f.event.of # Org => f.event \in events
        /\ \A o \in events : o.of = f.event.of => f.event.seq <= o.seq

\* What it knows of a user nobody else is at work on.
FreshOK(l, f) ==
    /\ l \in {"adopt", "store_user"} /\ f.user \notin disturbed => f.seen = profile[f.user]
    /\ l \in {"heal_find", "heal", "store_member"} /\ f.user \notin disturbed => Excused(f.user)
    /\ \A item \in f.add : item[1] \notin disturbed => Excused(item[1])
    /\ f.now # None /\ f.now \notin disturbed => Excused(f.now)
    /\ l = "log" /\ f.event.of \notin disturbed =>
          /\ f.event.kind = "user.created" => clerkId[f.user] = f.event.account
          /\ f.event.kind = "membership.deleted" => access[f.user] = "none"
          /\ f.event.kind = "organization.deleted" => orgRow = "archived"

\* What a visitor who was a member finds.
VisitOK(l, f) ==
    f.was /\ f.at = clock /\ f.alone =>
        /\ f.user \in members /\ accounts[f.user] = f.account /\ orgRow # "none"
        /\ l = "launch" => access[f.user] = "active"

Sound(l, f) ==
    PlaceOK(l, f) /\ KnownOK(l, f) /\ InTurn(f) /\ FreshOK(l, f) /\ VisitOK(l, f)

CallOK(c) == Sound(pc[c], frame[c])

\* Two calls about one user have disturbed him, and no visitor is alone then.
Crossing ==
    \A c, d \in Calls : c # d =>
        /\ Concerns(frame[c]) \cap Concerns(frame[d]) \subseteq disturbed
        /\ frame[c].was /\ frame[c].alone => Concerns(frame[c]) \cap Concerns(frame[d]) = {}

\* The profile has every account whose creation has been handled; an event
\* that says he is a member is true, or a later one takes it back.
UserOK(u) ==
    u \notin disturbed =>
        /\ \A a \in Account : a > 0 /\ a <= accounts[u] =>
              \/ clerkId[u] = a
              \/ \E o \in events : o.kind = "user.created" /\ o.of = u /\ o.account = a
        /\ \A e \in events : e.kind = "membership.created" /\ e.of = u =>
              \/ u \in members \/ ~orgLive
              \/ \E o \in events : o.kind = "membership.deleted" /\ o.of = u /\ e.seq < o.seq
        /\ access[u] = "active" => Excused(u)

OrgOK ==
    Org \notin disturbed =>
        /\ orgRow = "none" => \E o \in events : o.kind = "organization.created"
        /\ ~orgLive => orgRow = "archived"
                       \/ \E o \in events : o.kind = "organization.deleted"

MirrorInv ==
    /\ MirrorTypes /\ EventsOK /\ Crossing /\ OrgOK
    /\ \A c \in Calls : CallOK(c)
    /\ \A u \in Users : UserOK(u)

-----------------------------------------------------------------------------
(***************************************************************************)
(* Frames.                                                                 *)
(***************************************************************************)
LEMMA NoFrameIsAFrame ==
    /\ NoFrame \in Frame
    /\ NoFrame.event = None /\ NoFrame.user = None /\ NoFrame.add = {} /\ NoFrame.now = None
    /\ NoFrame.was = FALSE /\ NoFrame.org = FALSE /\ NoFrame.at = 0 /\ NoFrame.account = 0
  BY BoundsAssumption DEF NoFrame, Frame, Account, Seq, ProfileStatus

\* BOOLEAN, by a name.
Truth == BOOLEAN

\* What a step of a call may change of what it has in hand, field by field.
LEMMA Set_seen ==
    ASSUME NEW f \in Frame, NEW v \in ProfileStatus,
           NEW g, g = [f EXCEPT !.seen = v]
    PROVE  /\ g \in Frame /\ g.seen = v
           /\ g.event = f.event /\ g.user = f.user /\ g.account = f.account /\ g.org = f.org
           /\ g.add = f.add /\ g.now = f.now /\ g.was = f.was /\ g.at = f.at /\ g.alone = f.alone
  BY DEF Frame

LEMMA Set_org ==
    ASSUME NEW f \in Frame, NEW v \in Truth,
           NEW g, g = [f EXCEPT !.org = v]
    PROVE  /\ g \in Frame /\ g.org = v
           /\ g.event = f.event /\ g.user = f.user /\ g.account = f.account /\ g.seen = f.seen
           /\ g.add = f.add /\ g.now = f.now /\ g.was = f.was /\ g.at = f.at /\ g.alone = f.alone
  BY DEF Frame, Truth

LEMMA Set_account ==
    ASSUME NEW f \in Frame, NEW v \in Account,
           NEW g, g = [f EXCEPT !.account = v]
    PROVE  /\ g \in Frame /\ g.account = v
           /\ g.event = f.event /\ g.user = f.user /\ g.seen = f.seen /\ g.org = f.org
           /\ g.add = f.add /\ g.now = f.now /\ g.was = f.was /\ g.at = f.at /\ g.alone = f.alone
  BY DEF Frame

With_gone(f, v) == [f EXCEPT !.gone = v]

LEMMA Set_gone ==
    ASSUME NEW f \in Frame, NEW v \in SUBSET Users,
           NEW g, g = With_gone(f, v)
    PROVE  /\ g \in Frame /\ g.gone = v
           /\ g.event = f.event /\ g.user = f.user /\ g.account = f.account /\ g.seen = f.seen
           /\ g.org = f.org /\ g.add = f.add /\ g.now = f.now /\ g.was = f.was /\ g.at = f.at /\ g.alone = f.alone
  BY DEF Frame, With_gone

With_remove(f, v) == [f EXCEPT !.remove = v]

LEMMA Set_remove ==
    ASSUME NEW f \in Frame, NEW v \in SUBSET Users,
           NEW g, g = With_remove(f, v)
    PROVE  /\ g \in Frame /\ g.remove = v
           /\ g.event = f.event /\ g.user = f.user /\ g.account = f.account /\ g.seen = f.seen
           /\ g.org = f.org /\ g.add = f.add /\ g.now = f.now /\ g.was = f.was /\ g.at = f.at /\ g.alone = f.alone
  BY DEF Frame, With_remove

LEMMA Set_now ==
    ASSUME NEW f \in Frame, NEW v \in Users \cup {None},
           NEW g, g = [f EXCEPT !.now = v]
    PROVE  /\ g \in Frame /\ g.now = v
           /\ g.event = f.event /\ g.user = f.user /\ g.account = f.account /\ g.seen = f.seen
           /\ g.org = f.org /\ g.add = f.add /\ g.was = f.was /\ g.at = f.at /\ g.alone = f.alone
  BY DEF Frame

LEMMA Set_was ==
    ASSUME NEW f \in Frame, NEW v \in Truth,
           NEW g, g = [f EXCEPT !.was = v]
    PROVE  /\ g \in Frame /\ g.was = v
           /\ g.event = f.event /\ g.user = f.user /\ g.account = f.account /\ g.seen = f.seen
           /\ g.org = f.org /\ g.add = f.add /\ g.now = f.now /\ g.at = f.at /\ g.alone = f.alone
  BY DEF Frame, Truth

With_alone(f, v) == [f EXCEPT !.alone = v]

LEMMA Set_alone ==
    ASSUME NEW f \in Frame, NEW v \in Truth,
           NEW g, g = With_alone(f, v)
    PROVE  /\ g \in Frame /\ g.alone = v
           /\ g.event = f.event /\ g.user = f.user /\ g.account = f.account /\ g.seen = f.seen
           /\ g.org = f.org /\ g.add = f.add /\ g.now = f.now /\ g.was = f.was /\ g.at = f.at
  BY DEF Frame, Truth, With_alone

With_seen_gone(f, v, w) == [f EXCEPT !.seen = v, !.gone = w]

LEMMA Set_seen_gone ==
    ASSUME NEW f \in Frame, NEW v \in ProfileStatus, NEW w \in SUBSET Users,
           NEW g, g = With_seen_gone(f, v, w)
    PROVE  /\ g \in Frame /\ g.seen = v /\ g.gone = w
           /\ g.event = f.event /\ g.user = f.user /\ g.account = f.account /\ g.org = f.org
           /\ g.add = f.add /\ g.now = f.now /\ g.was = f.was /\ g.at = f.at /\ g.alone = f.alone
  BY DEF Frame, With_seen_gone

With_account_gone(f, v, w) == [f EXCEPT !.account = v, !.gone = w]

LEMMA Set_account_gone ==
    ASSUME NEW f \in Frame, NEW v \in Account, NEW w \in SUBSET Users,
           NEW g, g = With_account_gone(f, v, w)
    PROVE  /\ g \in Frame /\ g.account = v /\ g.gone = w
           /\ g.event = f.event /\ g.user = f.user /\ g.seen = f.seen /\ g.org = f.org
           /\ g.add = f.add /\ g.now = f.now /\ g.was = f.was /\ g.at = f.at /\ g.alone = f.alone
  BY DEF Frame, With_account_gone

With_gone_remove_add(f, v, w, z) == [f EXCEPT !.gone = v, !.remove = w, !.add = z]

LEMMA Set_gone_remove_add ==
    ASSUME NEW f \in Frame, NEW v \in SUBSET Users,
           NEW w \in SUBSET Users,
           NEW z \in SUBSET (Users \X Account),
           NEW g, g = With_gone_remove_add(f, v, w, z)
    PROVE  /\ g \in Frame /\ g.gone = v /\ g.remove = w /\ g.add = z
           /\ g.event = f.event /\ g.user = f.user /\ g.account = f.account /\ g.seen = f.seen
           /\ g.org = f.org /\ g.now = f.now /\ g.was = f.was /\ g.at = f.at /\ g.alone = f.alone
  BY DEF Frame, With_gone_remove_add

With_add_now(f, v, w) == [f EXCEPT !.add = v, !.now = w]

LEMMA Set_add_now ==
    ASSUME NEW f \in Frame, NEW v \in SUBSET (Users \X Account), NEW w \in Users \cup {None},
           NEW g, g = With_add_now(f, v, w)
    PROVE  /\ g \in Frame /\ g.add = v /\ g.now = w
           /\ g.event = f.event /\ g.user = f.user /\ g.account = f.account /\ g.seen = f.seen
           /\ g.org = f.org /\ g.was = f.was /\ g.at = f.at /\ g.alone = f.alone
  BY DEF Frame, With_add_now

With_event_account_user(f, v, w, z) == [f EXCEPT !.event = v, !.account = w, !.user = z]

LEMMA Set_event_account_user ==
    ASSUME NEW f \in Frame, NEW v \in Event \cup {None},
           NEW w \in Account,
           NEW z \in Users \cup {Org, None},
           NEW g, g = With_event_account_user(f, v, w, z)
    PROVE  /\ g \in Frame /\ g.event = v /\ g.account = w /\ g.user = z
           /\ g.seen = f.seen /\ g.org = f.org /\ g.add = f.add /\ g.now = f.now
           /\ g.was = f.was /\ g.at = f.at /\ g.alone = f.alone
  BY DEF Frame, With_event_account_user

With_user_account_was_at(f, v, w, z, y) == [f EXCEPT !.user = v, !.account = w, !.was = z, !.at = y]

LEMMA Set_user_account_was_at ==
    ASSUME NEW f \in Frame, NEW v \in Users \cup {Org, None},
           NEW w \in Account,
           NEW z \in Truth,
           NEW y \in Seq,
           NEW g, g = With_user_account_was_at(f, v, w, z, y)
    PROVE  /\ g \in Frame /\ g.user = v /\ g.account = w /\ g.was = z /\ g.at = y
           /\ g.event = f.event /\ g.seen = f.seen /\ g.org = f.org /\ g.add = f.add
           /\ g.now = f.now /\ g.alone = f.alone
  BY DEF Frame, Truth, With_user_account_was_at

LEMMA Set_user ==
    ASSUME NEW f \in Frame, NEW v \in Users \cup {Org, None},
           NEW g, g = [f EXCEPT !.user = v]
    PROVE  /\ g \in Frame /\ g.user = v
           /\ g.event = f.event /\ g.account = f.account /\ g.seen = f.seen /\ g.org = f.org
           /\ g.add = f.add /\ g.now = f.now /\ g.was = f.was /\ g.at = f.at /\ g.alone = f.alone
  BY DEF Frame


-----------------------------------------------------------------------------
(***************************************************************************)
(* The other calls.  A step touches the rows of the users in S only, and   *)
(* of those it touches the others know nothing unless they are disturbed.  *)
(***************************************************************************)
Calm(S) ==
    /\ \A u \in Users : profile[u] # "none" => profile'[u] # "none"
    /\ orgRow # "none" => orgRow' # "none"
    /\ orgRow = "archived" => orgRow' = "archived"
    /\ disturbed \subseteq disturbed' /\ clock <= clock'
    /\ \A u \in Users \ S : /\ profile'[u] = profile[u] /\ clerkId'[u] = clerkId[u]
                            /\ access'[u] = access[u]
    /\ \A u \in Users \ S : u \notin disturbed' /\ Excused(u) => Excused(u)'
    /\ clock' = clock => members' = members /\ accounts' = accounts
    /\ \A e \in events \ events' : e.of \in S \cup {Org} \cup disturbed'
    /\ \A o \in events' \ events : o.seq > clock

\* Another call keeps what it has in hand, except for the rows it lost and for
\* whether it is alone.
Keeps(d) ==
    /\ pc'[d] = pc[d] /\ frame'[d] \in Frame
    /\ pc[d] = "idle" => frame'[d] = frame[d]
    /\ frame'[d].event = frame[d].event /\ frame'[d].user = frame[d].user
    /\ frame'[d].account = frame[d].account /\ frame'[d].seen = frame[d].seen
    /\ frame'[d].org = frame[d].org /\ frame'[d].add = frame[d].add
    /\ frame'[d].now = frame[d].now /\ frame'[d].was = frame[d].was
    /\ frame'[d].at = frame[d].at
    /\ frame'[d].was /\ frame'[d].alone => frame[d].alone

LEMMA SamePlace ==
    ASSUME NEW l, NEW f, NEW g, PlaceOK(l, f), l = "idle" => g = f,
           g.event = f.event, g.user = f.user, g.account = f.account,
           g.add = f.add, g.now = f.now, g.was = f.was
    PROVE  PlaceOK(l, g)
  BY DEF PlaceOK

LEMMA WhatItHolds ==
    ASSUME MirrorInv, NEW S \in SUBSET Users, Calm(S), MirrorTypes',
           NEW l \in CallAt, NEW f \in Frame, NEW g \in Frame,
           Sound(l, f),
           g.event = f.event, g.user = f.user, g.account = f.account, g.seen = f.seen,
           g.org = f.org, g.add = f.add, g.now = f.now, g.was = f.was, g.at = f.at,
           g.was /\ g.alone => f.was /\ f.alone, l = "idle" => g = f,
           Concerns(f) \cap S \subseteq disturbed',
           f.was /\ f.alone => Concerns(f) \cap S = {}
    PROVE  Sound(l, g)'
<1>0. PlaceOK(l, f) /\ KnownOK(l, f) /\ InTurn(f) /\ FreshOK(l, f) /\ VisitOK(l, f)
  BY DEF Sound
<1> USE <1>0
<1>4. /\ f.event \in Event \cup {None} /\ f.user \in Users \cup {Org, None}
      /\ f.add \subseteq Users \X Account /\ f.now \in Users \cup {None} /\ f.at \in Seq
      /\ clock \in Seq /\ clock' \in Seq
  BY DEF Frame, MirrorInv, MirrorTypes
<1>5. \A u \in Users : u \in Concerns(f) /\ u \notin disturbed' =>
         /\ u \notin S /\ u \notin disturbed
         /\ profile'[u] = profile[u] /\ clerkId'[u] = clerkId[u] /\ access'[u] = access[u]
         /\ Excused(u) => Excused(u)'
  BY DEF Calm
<1>6. \A u \in Users : f.user = u \/ f.user = Org => u \in Concerns(f)
  BY UsersAssumption DEF Concerns
<1>7. PlaceOK(l, g)
  BY SamePlace
<1>8. KnownOK(l, g)'
  <2>1. /\ \A u \in Users : profile[u] # "none" => profile'[u] # "none"
        /\ orgRow # "none" => orgRow' # "none"
        /\ clock <= clock'
    BY DEF Calm
  <2>2. l \in KnowsProfile => f.user \in Users
    BY DEF PlaceOK, KnowsProfile, OrgAt
  <2>3. f.event # None => f.event.seq \in Seq
    BY <1>4 DEF Event
  <2>4. f.at <= clock' /\ (f.event # None => f.event.seq <= clock')
    BY <1>4, <2>1, <2>3, BoundsAssumption DEF KnownOK, Seq
  <2> QED
    BY <1>4, <2>1, <2>2, <2>4, UsersAssumption DEF KnownOK
<1>9. InTurn(g)'
  <2> SUFFICES ASSUME f.event # None, f.event.of \notin disturbed'
               PROVE  /\ f.event.of # Org => f.event \in events'
                      /\ \A o \in events' : o.of = f.event.of => f.event.seq <= o.seq
    BY DEF InTurn
  <2>1. f.event \in Event /\ events' \subseteq Event
    BY <1>4 DEF MirrorTypes
  <2>2. f.event.of \notin disturbed
    BY DEF Calm
  <2>3. f.event.of # Org => f.event \in events'
    <3> SUFFICES ASSUME f.event.of # Org, f.event \notin events'
                 PROVE  FALSE
      OBVIOUS
    <3>1. f.event \in events
      BY <2>2 DEF InTurn
    <3>2. f.event.of \in S
      BY <3>1 DEF Calm
    <3>3. f.user = f.event.of /\ f.user \in Users
      BY <2>1 DEF PlaceOK, Event
    <3> QED
      BY <1>5, <1>6, <3>2, <3>3
  <2>4. ASSUME NEW o \in events', o.of = f.event.of
        PROVE  f.event.seq <= o.seq
    <3>1. f.event.seq \in Seq /\ o.seq \in Seq
      BY <2>1 DEF Event
    <3>2. CASE o \in events
      BY <2>2, <2>4, <3>2 DEF InTurn
    <3>3. CASE o \notin events
      <4>1. f.event.seq <= clock /\ o.seq > clock
        BY <2>4, <3>3 DEF KnownOK, Calm
      <4> QED
        BY <3>1, <4>1, <1>4, BoundsAssumption DEF Seq
    <3> QED
      BY <3>2, <3>3
  <2> QED
    BY <2>3, <2>4
<1>10. FreshOK(l, g)'
  <2>1. l \in {"adopt", "store_user"} /\ f.user \notin disturbed' => f.seen = profile'[f.user]
    BY <1>5, <1>6 DEF FreshOK, PlaceOK, OrgAt
  <2>2. l \in {"heal_find", "heal", "store_member"} /\ f.user \notin disturbed'
            => Excused(f.user)'
    <3> SUFFICES ASSUME l \in {"heal_find", "heal", "store_member"}, f.user \notin disturbed'
                 PROVE  Excused(f.user)'
      OBVIOUS
    <3>1. f.user \in Users
      BY DEF PlaceOK, OrgAt
    <3>2. f.user \notin disturbed
      BY DEF Calm
    <3>3. Excused(f.user)
      BY <3>2 DEF FreshOK
    <3> QED
      BY <1>5, <1>6, <3>1, <3>3
  <2>3. \A u \in Users : f.user = Org /\ u \notin disturbed' /\ Excused(u) => Excused(u)'
    BY <1>5, <1>6
  <2>4. ASSUME NEW item \in f.add, item[1] \notin disturbed'
        PROVE  Excused(item[1])'
    <3>1. item[1] \in Users
      BY <1>4
    <3>2. f.user = Org /\ item[1] \notin disturbed
      BY <2>4 DEF PlaceOK, Calm
    <3>3. Excused(item[1])
      BY <3>2 DEF FreshOK
    <3> QED
      BY <2>3, <2>4, <3>1, <3>2, <3>3
  <2>5. ASSUME f.now # None, f.now \notin disturbed'
        PROVE  Excused(f.now)'
    <3>1. f.now \in Users /\ f.user = Org /\ f.now \notin disturbed
      BY <1>4, <2>5 DEF PlaceOK, Calm
    <3>2. Excused(f.now)
      BY <2>5, <3>1 DEF FreshOK
    <3> QED
      BY <2>3, <2>5, <3>1, <3>2
  <2>6. ASSUME l = "log", f.event.of \notin disturbed'
        PROVE  /\ f.event.kind = "user.created" => clerkId'[f.user] = f.event.account
               /\ f.event.kind = "membership.deleted" => access'[f.user] = "none"
               /\ f.event.kind = "organization.deleted" => orgRow' = "archived"
    <3>1. f.event.of \notin disturbed /\ (orgRow = "archived" => orgRow' = "archived")
      BY <2>6 DEF Calm
    <3>2. f.event # None /\ f.event.of \in Users \cup {Org}
      BY <1>4, <2>6 DEF PlaceOK, EventOnly, Event
    <3>3. f.event.kind \in {"user.created", "membership.deleted"}
             => f.user \in Users /\ f.user = f.event.of
      BY <3>2 DEF PlaceOK, OrgKinds
    <3>4. f.event.kind \in {"user.created", "membership.deleted"}
             => clerkId'[f.user] = clerkId[f.user] /\ access'[f.user] = access[f.user]
      BY <1>5, <1>6, <2>6, <3>3
    <3> QED
      BY <2>6, <3>1, <3>4 DEF FreshOK
  <2> QED
    BY <2>1, <2>2, <2>4, <2>5, <2>6 DEF FreshOK
<1>11. VisitOK(l, g)'
  <2> SUFFICES ASSUME g.was, g.at = clock', g.alone
               PROVE  /\ g.user \in members' /\ accounts'[g.user] = g.account /\ orgRow' # "none"
                      /\ l = "launch" => access'[g.user] = "active"
    BY DEF VisitOK
  <2>1. f.was /\ f.alone /\ f.at = clock'
    OBVIOUS
  <2>2. f.at <= clock /\ clock <= clock'
    BY DEF KnownOK, Calm
  <2>3. clock' = clock
    BY <1>4, <2>1, <2>2, BoundsAssumption DEF Seq
  <2>4. members' = members /\ accounts' = accounts /\ (orgRow # "none" => orgRow' # "none")
    BY <2>3 DEF Calm
  <2>5. f.user \in Users /\ f.user \notin S
    BY <1>6, <2>1 DEF PlaceOK
  <2>6. access'[f.user] = access[f.user]
    BY <2>5 DEF Calm
  <2> QED
    BY <2>1, <2>3, <2>4, <2>6 DEF VisitOK
<1> QED
  BY <1>7, <1>8, <1>9, <1>10, <1>11 DEF Sound

LEMMA OtherCall ==
    ASSUME MirrorInv, NEW S \in SUBSET Users, Calm(S), MirrorTypes',
           NEW d \in Calls, Keeps(d),
           Concerns(frame[d]) \cap S \subseteq disturbed',
           frame[d].was /\ frame[d].alone => Concerns(frame[d]) \cap S = {}
    PROVE  CallOK(d)'
<1>1. PICK l, f, g : l = pc[d] /\ f = frame[d] /\ g = frame'[d]
  OBVIOUS
<1>2. /\ l \in CallAt /\ f \in Frame /\ g \in Frame /\ pc'[d] = l
      /\ Sound(l, f)
  BY <1>1 DEF MirrorInv, MirrorTypes, CallOK, Keeps
<1>3. /\ g.event = f.event /\ g.user = f.user /\ g.account = f.account /\ g.seen = f.seen
      /\ g.org = f.org /\ g.add = f.add /\ g.now = f.now /\ g.was = f.was /\ g.at = f.at
      /\ g.was /\ g.alone => f.was /\ f.alone
      /\ l = "idle" => g = f
  BY <1>1 DEF Keeps
<1>4. Sound(l, g)'
  BY <1>1, <1>2, <1>3, WhatItHolds
<1> QED
  BY <1>1, <1>2, <1>4 DEF CallOK

-----------------------------------------------------------------------------
(***************************************************************************)
(* A step of call c to l, with f in hand.                                  *)
(***************************************************************************)
LEMMA StepOK ==
    ASSUME MirrorInv, NEW c \in Calls, NEW l \in CallAt, NEW f \in Frame,
           pc'[c] = l, frame'[c] = f, \A d \in Calls \ {c} : Keeps(d),
           f.user = frame[c].user \/ f = NoFrame,
           f.was /\ f.alone => frame[c].was /\ frame[c].alone,
           Calm(Concerns(frame[c])), Sound(l, f)',
           MirrorTypes', EventsOK', OrgOK', \A u \in Users : UserOK(u)'
    PROVE  MirrorInv'
<1>1. \A d \in Calls : Concerns(frame[d]) \in SUBSET Users
  BY DEF Concerns
<1>2. \A d, b \in Calls : d # b =>
         /\ Concerns(frame[d]) \cap Concerns(frame[b]) \subseteq disturbed
         /\ frame[d].was /\ frame[d].alone => Concerns(frame[d]) \cap Concerns(frame[b]) = {}
  BY DEF MirrorInv, Crossing
<1>3. disturbed \subseteq disturbed'
  BY DEF Calm
<1>4. ASSUME NEW d \in Calls, d # c
      PROVE  CallOK(d)'
  <2>1. /\ Concerns(frame[d]) \cap Concerns(frame[c]) \subseteq disturbed'
        /\ frame[d].was /\ frame[d].alone => Concerns(frame[d]) \cap Concerns(frame[c]) = {}
    BY <1>2, <1>3, <1>4
  <2> QED
    BY <1>1, <1>4, <2>1, OtherCall
<1>5. CallOK(c)'
  BY DEF CallOK
<1>6. Concerns(f) = Concerns(frame[c]) \/ Concerns(f) = {}
  BY UsersAssumption, NoFrameIsAFrame DEF Concerns
<1>7. \A d \in Calls : /\ Concerns(frame'[d]) \subseteq Concerns(frame[d])
                       /\ frame'[d].was /\ frame'[d].alone => frame[d].was /\ frame[d].alone
  BY <1>6 DEF Keeps, Concerns
<1>8. Crossing'
  <2> SUFFICES ASSUME NEW d \in Calls, NEW b \in Calls, d # b
               PROVE  /\ Concerns(frame'[d]) \cap Concerns(frame'[b]) \subseteq disturbed'
                      /\ frame'[d].was /\ frame'[d].alone
                            => Concerns(frame'[d]) \cap Concerns(frame'[b]) = {}
    BY DEF Crossing, Concerns
  <2> QED
    BY <1>2, <1>3, <1>7
<1> QED
  BY <1>4, <1>5, <1>8 DEF MirrorInv

\* A call whose frame is left alone keeps it.
LEMMA Untouched ==
    ASSUME MirrorTypes, NEW c \in Calls, NEW l, NEW f,
           pc' = [pc EXCEPT ![c] = l], frame' = [frame EXCEPT ![c] = f]
    PROVE  pc'[c] = l /\ frame'[c] = f /\ \A d \in Calls \ {c} : Keeps(d)
  BY DEF MirrorTypes, Keeps

\* A step that only finds something out.
LEMMA Finds ==
    ASSUME MirrorInv, NEW c \in Calls, NEW l \in CallAt, NEW f \in Frame,
           pc' = [pc EXCEPT ![c] = l], frame' = [frame EXCEPT ![c] = f],
           UNCHANGED <<outside, rows, history>>,
           f.user = frame[c].user \/ f = NoFrame,
           f.was /\ f.alone => frame[c].was /\ frame[c].alone,
           Sound(l, f)
    PROVE  MirrorInv'
<1> USE DEF outside, clerk, rows, history
<1>1. pc'[c] = l /\ frame'[c] = f /\ \A d \in Calls \ {c} : Keeps(d)
  BY Untouched DEF MirrorInv
<1>2. MirrorTypes'
  BY DEF MirrorInv, MirrorTypes
<1>3. EventsOK' /\ OrgOK' /\ \A u \in Users : UserOK(u)'
  BY DEF MirrorInv, EventsOK, EventOK, OrgOK, UserOK, Excused
<1>4. Sound(l, f)'
  BY DEF Sound, PlaceOK, KnownOK, InTurn, FreshOK, VisitOK, Excused
<1>5. Calm(Concerns(frame[c]))
  BY BoundsAssumption DEF Calm, Excused, MirrorInv, MirrorTypes, Seq
<1> QED
  BY <1>1, <1>2, <1>3, <1>4, <1>5, StepOK

\* A call that is over.
LEMMA IdleIsSound ==
    /\ MirrorTypes => Sound("idle", NoFrame)
    /\ MirrorTypes' => Sound("idle", NoFrame)'
<1>1. ~ NoFrame.was
  BY NoFrameIsAFrame
<1>2. PlaceOK("idle", NoFrame)
  BY <1>1, NoFrameIsAFrame, UsersAssumption DEF PlaceOK, OrgAt, EventOnly, Shared
<1>3. MirrorTypes => KnownOK("idle", NoFrame)
  BY NoFrameIsAFrame, BoundsAssumption DEF KnownOK, KnowsProfile, KnowsOrg, MirrorTypes, Seq
<1>4. MirrorTypes' => KnownOK("idle", NoFrame)'
  BY NoFrameIsAFrame, BoundsAssumption DEF KnownOK, KnowsProfile, KnowsOrg, MirrorTypes, Seq
<1>5. InTurn(NoFrame) /\ FreshOK("idle", NoFrame) /\ VisitOK("idle", NoFrame)
  BY <1>1, NoFrameIsAFrame DEF InTurn, FreshOK, VisitOK
<1>6. InTurn(NoFrame)' /\ FreshOK("idle", NoFrame)' /\ VisitOK("idle", NoFrame)'
  BY <1>1, NoFrameIsAFrame DEF InTurn, FreshOK, VisitOK
<1> QED
  BY <1>2, <1>3, <1>4, <1>5, <1>6 DEF Sound

LEMMA Returns ==
    ASSUME MirrorInv, NEW c \in Calls, Return(c), UNCHANGED <<outside, rows, history>>
    PROVE  MirrorInv'
<1>1. "idle" \in CallAt /\ NoFrame \in Frame /\ (NoFrame.was => FALSE)
  BY NoFrameIsAFrame DEF CallAt
<1>2. pc' = [pc EXCEPT ![c] = "idle"] /\ frame' = [frame EXCEPT ![c] = NoFrame]
  BY DEF Return, Goto
<1>3. Sound("idle", NoFrame)
  BY IdleIsSound DEF MirrorInv
<1> QED
  BY <1>1, <1>2, <1>3, Finds

\* What a call at k with f in hand knows.
LEMMA InHand ==
    ASSUME MirrorInv, NEW c \in Calls, NEW k, k = pc[c], NEW f, f = frame[c]
    PROVE  /\ k \in CallAt /\ f \in Frame /\ Sound(k, f)
           /\ PlaceOK(k, f) /\ KnownOK(k, f) /\ InTurn(f) /\ FreshOK(k, f) /\ VisitOK(k, f)
           /\ f.event \in Event \cup {None} /\ f.user \in Users \cup {Org, None}
           /\ f.account \in Account /\ f.seen \in ProfileStatus /\ f.org \in BOOLEAN
           /\ f.gone \subseteq Users /\ f.remove \subseteq Users
           /\ f.add \subseteq Users \X Account /\ f.now \in Users \cup {None} /\ f.at \in Seq
           /\ f.was \in BOOLEAN /\ f.alone \in BOOLEAN
  BY DEF MirrorInv, MirrorTypes, CallOK, Sound, Frame

\* A step to l with the frame as it was.
LEMMA Moves ==
    ASSUME MirrorInv, NEW c \in Calls, NEW l \in CallAt, Goto(c, l), frame' = frame,
           UNCHANGED <<outside, rows, history>>, Sound(l, frame[c])
    PROVE  MirrorInv'
<1>1. frame[c] \in Frame /\ frame' = [frame EXCEPT ![c] = frame[c]]
  BY DEF MirrorInv, MirrorTypes
<1>2. PICK f : f = frame[c]
  OBVIOUS
<1> QED
  BY <1>1, <1>2, Finds DEF Goto

-----------------------------------------------------------------------------
(***************************************************************************)
(* Steps that only find something out.                                     *)
(***************************************************************************)
LEMMA OfAskClerk == ASSUME MirrorInv, NEW c \in Calls, AskClerk(c)  PROVE MirrorInv'
<1>1. PICK k, f : k = pc[c] /\ f = frame[c]
  OBVIOUS
<1>2. k = "ask" /\ Sound(k, f)
  BY <1>1, InHand DEF AskClerk
<1>3. "by_email" \in CallAt /\ Sound("by_email", f)
  BY <1>2 DEF Sound, PlaceOK, KnownOK, FreshOK, VisitOK, CallAt, EventOnly, VisitOnly, Shared,
     OrgAt, KnowsProfile, KnowsOrg
<1> QED
  BY <1>1, <1>3, Moves DEF AskClerk

LEMMA OfAskFails == ASSUME MirrorInv, NEW c \in Calls, AskFails(c)  PROVE MirrorInv'
<1>1. PICK k, f : k = pc[c] /\ f = frame[c]
  OBVIOUS
<1>2. k = "ask" /\ Sound(k, f)
  BY <1>1, InHand DEF AskFails
<1>3. CASE f.event = None
  BY <1>1, <1>3, Returns DEF AskFails
<1>4. CASE f.event # None
  <2>1. "log" \in CallAt /\ Sound("log", f)
    BY <1>2, <1>4 DEF Sound, PlaceOK, KnownOK, FreshOK, VisitOK, CallAt, EventOnly, VisitOnly,
       Shared, OrgAt, OrgKinds, KnowsProfile, KnowsOrg
  <2> QED
    BY <1>1, <1>4, <2>1, Moves DEF AskFails
<1> QED
  BY <1>3, <1>4

LEMMA OfFindByEmail == ASSUME MirrorInv, NEW c \in Calls, FindByEmail(c)  PROVE MirrorInv'
<1>1. PICK k, f, g : k = pc[c] /\ f = frame[c] /\ g = [f EXCEPT !.seen = profile[f.user]]
  OBVIOUS
<1>2. k = "by_email" /\ Sound(k, f) /\ f \in Frame /\ f.user \in Users
  BY <1>1, InHand DEF FindByEmail, PlaceOK, OrgAt
<1>3. profile[f.user] \in ProfileStatus
  BY <1>2 DEF MirrorInv, MirrorTypes
<1>4. /\ g \in Frame /\ g.seen = profile[f.user]
      /\ g.event = f.event /\ g.user = f.user /\ g.account = f.account /\ g.org = f.org
      /\ g.add = f.add /\ g.now = f.now /\ g.was = f.was /\ g.at = f.at /\ g.alone = f.alone
  BY <1>1, <1>2, <1>3, Set_seen
<1>5. "adopt" \in CallAt /\ Sound("adopt", g)
  BY <1>2, <1>4 DEF Sound, PlaceOK, KnownOK, InTurn, FreshOK, VisitOK,
     CallAt, EventOnly, VisitOnly, Shared, OperatorAt, OrgAt,
     OrgKinds, KnowsProfile, KnowsOrg
<1>6. pc' = [pc EXCEPT ![c] = "adopt"] /\ frame' = [frame EXCEPT ![c] = g]
  BY <1>1 DEF FindByEmail, Goto
<1> QED
  BY <1>1, <1>4, <1>5, <1>6, Finds DEF FindByEmail

LEMMA OfFindUser == ASSUME MirrorInv, NEW c \in Calls, FindUser(c)  PROVE MirrorInv'
<1>1. PICK k, f, g : k = pc[c] /\ f = frame[c] /\ g = [f EXCEPT !.seen = profile[f.user]]
  OBVIOUS
<1>2. k = "find" /\ Sound(k, f) /\ f \in Frame /\ f.event.kind = "user.created"
  BY <1>1, InHand DEF FindUser, Handling
<1>3. f.event # None /\ f.event \in Event /\ f.user \in Users
  BY <1>1, <1>2, InHand DEF Sound, PlaceOK, EventOnly, OrgKinds, Event
<1>4. profile[f.user] \in ProfileStatus
  BY <1>3 DEF MirrorInv, MirrorTypes
<1>5. /\ g \in Frame /\ g.seen = profile[f.user]
      /\ g.event = f.event /\ g.user = f.user /\ g.account = f.account /\ g.org = f.org
      /\ g.add = f.add /\ g.now = f.now /\ g.was = f.was /\ g.at = f.at /\ g.alone = f.alone
  BY <1>1, <1>2, <1>4, Set_seen
<1>6. "store_user" \in CallAt /\ Sound("store_user", g)
  BY <1>2, <1>3, <1>5 DEF Sound, PlaceOK, KnownOK, InTurn, FreshOK, VisitOK,
     CallAt, EventOnly, VisitOnly, Shared, OperatorAt, OrgAt,
     OrgKinds, KnowsProfile, KnowsOrg
<1>7. pc' = [pc EXCEPT ![c] = "store_user"] /\ frame' = [frame EXCEPT ![c] = g]
  BY <1>1 DEF FindUser, Goto
<1> QED
  BY <1>1, <1>5, <1>6, <1>7, Finds DEF FindUser

LEMMA OfFindDeletedUser ==
    ASSUME MirrorInv, NEW c \in Calls, FindDeletedUser(c)  PROVE MirrorInv'
<1>1. PICK k, f : k = pc[c] /\ f = frame[c]
  OBVIOUS
<1>2. k = "find" /\ Sound(k, f) /\ f.event.kind = "user.deleted"
  BY <1>1, InHand DEF FindDeletedUser, Handling
<1>3. f.event # None /\ f.event \in Event /\ f.user \in Users
  BY <1>1, <1>2, InHand DEF Sound, PlaceOK, EventOnly, OrgKinds, Event
<1>4. /\ "suspend" \in CallAt /\ Sound("suspend", f)
      /\ "log" \in CallAt /\ Sound("log", f)
  BY <1>2, <1>3 DEF Sound, PlaceOK, KnownOK, InTurn, FreshOK, VisitOK,
     CallAt, EventOnly, VisitOnly, Shared, OperatorAt, OrgAt,
     OrgKinds, KnowsProfile, KnowsOrg
<1>5. CASE ById(f.user, f.account)
  BY <1>1, <1>4, <1>5, Moves DEF FindDeletedUser
<1>6. CASE ~ById(f.user, f.account)
  BY <1>1, <1>4, <1>6, Moves DEF FindDeletedUser
<1> QED
  BY <1>5, <1>6

LEMMA OfFindOrg == ASSUME MirrorInv, NEW c \in Calls, FindOrg(c)  PROVE MirrorInv'
<1>1. PICK k, f, g, b : k = pc[c] /\ f = frame[c] /\ b = (orgRow # "none")
                        /\ g = [f EXCEPT !.org = b]
  OBVIOUS
<1>2. k = "find" /\ Sound(k, f) /\ f \in Frame /\ f.event.kind = "organization.created"
  BY <1>1, InHand DEF FindOrg, Handling
<1>3. f.event # None /\ b \in BOOLEAN
  BY <1>1, <1>2 DEF Sound, PlaceOK, EventOnly
<1>4. /\ g \in Frame /\ g.org = b
      /\ g.event = f.event /\ g.user = f.user /\ g.account = f.account /\ g.seen = f.seen
      /\ g.add = f.add /\ g.now = f.now /\ g.was = f.was /\ g.at = f.at /\ g.alone = f.alone
  <2>1. f \in Frame /\ b \in Truth /\ g = [f EXCEPT !.org = b]
    BY <1>1, <1>2, <1>3, Zenon DEF Truth
  <2> QED
    BY <2>1, Set_org
<1>5. "store_org" \in CallAt /\ Sound("store_org", g)
  BY <1>1, <1>2, <1>3, <1>4 DEF Sound, PlaceOK, KnownOK, InTurn, FreshOK, VisitOK,
     CallAt, EventOnly, VisitOnly, Shared, OperatorAt, OrgAt,
     OrgKinds, KnowsProfile, KnowsOrg
<1>6. pc' = [pc EXCEPT ![c] = "store_org"] /\ frame' = [frame EXCEPT ![c] = g]
  BY <1>1, Zenon DEF FindOrg, Goto
<1> QED
  BY <1>1, <1>4, <1>5, <1>6, Finds DEF FindOrg

LEMMA OfFindMember == ASSUME MirrorInv, NEW c \in Calls, FindMember(c)  PROVE MirrorInv'
<1>1. PICK k, f, g, b : k = pc[c] /\ f = frame[c] /\ b = (orgRow # "none")
                        /\ g = [f EXCEPT !.org = b]
  OBVIOUS
<1>2. k = "find" /\ Sound(k, f) /\ f \in Frame /\ f.event.kind = "membership.created"
  BY <1>1, InHand DEF FindMember, Handling
<1>3. f.event # None /\ b \in BOOLEAN /\ f.user \in Users
  BY <1>1, <1>2, InHand DEF Sound, PlaceOK, EventOnly, OrgKinds, Event
<1>4. /\ g \in Frame /\ g.org = b
      /\ g.event = f.event /\ g.user = f.user /\ g.account = f.account /\ g.seen = f.seen
      /\ g.add = f.add /\ g.now = f.now /\ g.was = f.was /\ g.at = f.at /\ g.alone = f.alone
  <2>1. f \in Frame /\ b \in Truth /\ g = [f EXCEPT !.org = b]
    BY <1>1, <1>2, <1>3, Zenon DEF Truth
  <2> QED
    BY <2>1, Set_org
<1>5. PICK l : l = IF ~ ById(f.user, f.account) THEN "ask"
                   ELSE IF orgRow # "none" THEN "grant" ELSE "log"
  OBVIOUS
<1>6. /\ l \in {"ask", "grant", "log"}
      /\ l = "grant" => profile[f.user] # "none" /\ orgRow # "none"
      /\ g.org => orgRow # "none"
  BY <1>1, <1>4, <1>5 DEF ById
<1>8. l \in CallAt /\ Sound(l, g)
  BY <1>2, <1>3, <1>4, <1>6
     DEF Sound, PlaceOK, KnownOK, InTurn, FreshOK, VisitOK,
     CallAt, EventOnly, VisitOnly, Shared, OperatorAt, OrgAt,
     OrgKinds, KnowsProfile, KnowsOrg
<1>7. pc' = [pc EXCEPT ![c] = l] /\ frame' = [frame EXCEPT ![c] = g]
  BY <1>1, <1>5, Zenon DEF FindMember, Goto
<1> QED
  BY <1>1, <1>4, <1>8, <1>7, Finds DEF FindMember

\* A deletion that comes in turn finds the profile by its account.
LEMMA OfFindRemoved == ASSUME MirrorInv, NEW c \in Calls, FindRemoved(c)  PROVE MirrorInv'
<1>1. PICK k, f : k = pc[c] /\ f = frame[c]
  OBVIOUS
<1>2. k = "find" /\ Sound(k, f) /\ f.event.kind = "membership.deleted"
  BY <1>1, InHand DEF FindRemoved, Handling
<1>3. /\ f.event # None /\ f.event \in Event /\ f.event.of # Org
      /\ f.user \in Users /\ f.user = f.event.of /\ f.account = f.event.account
  BY <1>1, <1>2, InHand DEF Sound, PlaceOK, EventOnly, OrgKinds, Event
<1>4. ASSUME f.user \notin disturbed, ~(ById(f.user, f.account) /\ orgRow # "none")
      PROVE  access[f.user] = "none"
  <2> DEFINE u == f.user  a == f.account
  <2>1. f.event \in events /\ \A o \in events : o.of = u => f.event.seq <= o.seq
    BY <1>2, <1>3, <1>4 DEF Sound, InTurn
  <2>2. a \in Account /\ a > 0 /\ a <= accounts[u]
    BY <1>3, <2>1 DEF MirrorInv, EventsOK, EventOK, Event, Account
  <2>3. clerkId[u] = a \/ \E o \in events : o.kind = "user.created" /\ o.of = u /\ o.account = a
    BY <1>3, <1>4, <2>2 DEF MirrorInv, UserOK
  <2>4. ASSUME NEW o \in events, o.kind = "user.created", o.of = u, o.account = a
        PROVE  FALSE
    <3>1. o.seq < f.event.seq
      BY <1>2, <1>3, <2>1, <2>4 DEF MirrorInv, EventsOK
    <3>2. f.event.seq <= o.seq
      BY <2>1, <2>4
    <3>3. o.seq \in Seq /\ f.event.seq \in Seq
      BY <1>3 DEF MirrorInv, MirrorTypes, Event
    <3> QED
      BY <3>1, <3>2, <3>3, BoundsAssumption DEF Seq
  <2>5. clerkId[u] = a
    BY <2>3, <2>4
  <2>6. profile[u] = "none" \/ orgRow = "none"
    BY <1>4, <2>5 DEF ById
  <2>7. access[u] # "none" => profile[u] # "none" /\ orgRow # "none"
    BY <1>3 DEF MirrorInv, MirrorTypes
  <2> QED
    BY <2>6, <2>7
<1>5. PICK l : l = IF ById(f.user, f.account) /\ orgRow # "none" THEN "revoke" ELSE "log"
  OBVIOUS
<1>6. l \in {"revoke", "log"} /\ (l = "log" => ~(ById(f.user, f.account) /\ orgRow # "none"))
  BY <1>5
<1>7. l = "log" /\ f.event.of \notin disturbed => access[f.user] = "none"
  BY <1>3, <1>4, <1>6
<1>8. l \in CallAt /\ Sound(l, f)
  BY <1>2, <1>3, <1>6, <1>7 DEF Sound, PlaceOK, KnownOK, InTurn, FreshOK, VisitOK,
     CallAt, EventOnly, VisitOnly, Shared, OperatorAt, OrgAt,
     OrgKinds, KnowsProfile, KnowsOrg
<1>9. Goto(c, l)
  BY <1>1, <1>5 DEF FindRemoved
<1> QED
  BY <1>1, <1>8, <1>9, Moves DEF FindRemoved

LEMMA OfAuthenticate ==
    ASSUME MirrorInv, NEW c \in Calls, Authenticate(c)  PROVE MirrorInv'
<1>1. PICK k, f : k = pc[c] /\ f = frame[c]
  OBVIOUS
<1>2. k = "context" /\ Sound(k, f)
  BY <1>1, InHand DEF Authenticate
<1>3. CASE ById(f.user, f.account) /\ profile[f.user] = "suspended"
  BY <1>1, <1>3, Returns DEF Authenticate
<1>4. CASE ~(ById(f.user, f.account) /\ profile[f.user] = "suspended")
  <2>1. PICK l : l = IF ById(f.user, f.account) THEN "list" ELSE "ask"
    OBVIOUS
  <2>2. l \in {"list", "ask"} /\ (l = "list" => profile[f.user] # "none")
    BY <2>1 DEF ById
  <2>3. l \in CallAt /\ Sound(l, f)
    BY <1>2, <2>2 DEF Sound, PlaceOK, KnownOK, InTurn, FreshOK, VisitOK,
     CallAt, EventOnly, VisitOnly, Shared, OperatorAt, OrgAt,
     OrgKinds, KnowsProfile, KnowsOrg
  <2>4. Goto(c, l) /\ UNCHANGED frame
    BY <1>1, <1>4, <2>1 DEF Authenticate
  <2> QED
    BY <1>1, <2>3, <2>4, Moves DEF Authenticate
<1> QED
  BY <1>3, <1>4

LEMMA OfListMemberships ==
    ASSUME MirrorInv, NEW c \in Calls, ListMemberships(c)  PROVE MirrorInv'
<1>1. PICK k, f : k = pc[c] /\ f = frame[c]
  OBVIOUS
<1>2. k = "list" /\ Sound(k, f)
  BY <1>1, InHand DEF ListMemberships
<1>3. PICK l : l = IF f.user \in members /\ accounts[f.user] = f.account
                   THEN "heal_find" ELSE "launch"
  OBVIOUS
<1>4. /\ l \in {"heal_find", "launch"} /\ (l = "heal_find" => f.user \in members)
      /\ l = "launch" => ~(f.user \in members /\ accounts[f.user] = f.account)
  BY <1>3
<1>5. l \in CallAt /\ Sound(l, f)
  BY <1>2, <1>4
     DEF Sound, PlaceOK, KnownOK, InTurn, FreshOK, VisitOK, Excused,
     CallAt, EventOnly, VisitOnly, Shared, OperatorAt, OrgAt,
     OrgKinds, KnowsProfile, KnowsOrg
<1>6. Goto(c, l)
  BY <1>1, <1>3 DEF ListMemberships
<1> QED
  BY <1>1, <1>5, <1>6, Moves DEF ListMemberships

LEMMA OfFindAccess == ASSUME MirrorInv, NEW c \in Calls, FindAccess(c)  PROVE MirrorInv'
<1>1. PICK k, f, g : /\ k = pc[c] /\ f = frame[c]
                     /\ g = With_seen_gone(f, access[f.user], {})
  OBVIOUS
<1>2. k = "heal_find" /\ Sound(k, f) /\ f \in Frame /\ f.user \in Users
  BY <1>1, InHand DEF FindAccess, PlaceOK, OrgAt
<1>3. access[f.user] \in ProfileStatus
  BY <1>2 DEF MirrorInv, MirrorTypes, ProfileStatus, AccessStatus
<1>4. /\ g \in Frame
      /\ g.event = f.event /\ g.user = f.user /\ g.account = f.account /\ g.org = f.org
      /\ g.add = f.add /\ g.now = f.now /\ g.was = f.was /\ g.at = f.at /\ g.alone = f.alone
  <2>1. {} \in SUBSET Users /\ g = With_seen_gone(f, access[f.user], {})
    BY <1>1
  <2> QED
    BY <1>2, <1>3, <2>1, Set_seen_gone
<1>5. PICK l : l = IF orgRow = "none" \/ access[f.user] = "active" THEN "launch" ELSE "heal"
  OBVIOUS
<1>6. /\ l \in {"launch", "heal"}
      /\ l = "launch" => orgRow = "none" \/ access[f.user] = "active"
      /\ l = "heal" => orgRow # "none"
  BY <1>5
<1>7. l \in CallAt /\ Sound(l, g)
  BY <1>2, <1>4, <1>6 DEF Sound, PlaceOK, KnownOK, InTurn, FreshOK, VisitOK,
     CallAt, EventOnly, VisitOnly, Shared, OperatorAt, OrgAt,
     OrgKinds, KnowsProfile, KnowsOrg
<1>8. pc' = [pc EXCEPT ![c] = l]
  BY <1>1, <1>5 DEF FindAccess, Goto
<1>9. frame' = [frame EXCEPT ![c] = g]
  BY <1>1 DEF FindAccess, MirrorInv, MirrorTypes, Frame, With_seen_gone
<1> QED
  BY <1>1, <1>4, <1>7, <1>8, <1>9, Finds DEF FindAccess

LEMMA OfHealFails == ASSUME MirrorInv, NEW c \in Calls, HealFails(c)  PROVE MirrorInv'
<1>1. PICK k, f, g, b : /\ k = pc[c] /\ f = frame[c] /\ b = FALSE
                        /\ g = [f EXCEPT !.was = b]
  OBVIOUS
<1>2. /\ k \in {"list", "heal_find", "heal"} /\ Sound(k, f) /\ f \in Frame
      /\ b \in Truth /\ g = [f EXCEPT !.was = b] /\ ~b
  BY <1>1, InHand DEF HealFails, Truth
<1>3. /\ g \in Frame /\ g.was = b
      /\ g.event = f.event /\ g.user = f.user /\ g.account = f.account /\ g.seen = f.seen
      /\ g.org = f.org /\ g.add = f.add /\ g.now = f.now /\ g.at = f.at /\ g.alone = f.alone
  BY <1>2, Set_was
<1>4. "launch" \in CallAt /\ Sound("launch", g)
  BY <1>2, <1>3 DEF Sound, PlaceOK, KnownOK, InTurn, FreshOK, VisitOK,
     CallAt, EventOnly, VisitOnly, Shared, OperatorAt, OrgAt,
     OrgKinds, KnowsProfile, KnowsOrg
<1>5. pc' = [pc EXCEPT ![c] = "launch"] /\ frame' = [frame EXCEPT ![c] = g]
  BY <1>1, Zenon DEF HealFails, Goto
<1> QED
  BY <1>1, <1>2, <1>3, <1>4, <1>5, Finds DEF HealFails

\* The row an operation starts from stays, if not its status.
LEMMA OfReadAccess ==
    ASSUME MirrorInv, NEW c \in Calls, NEW l \in {"reinvite", "set", "remove_row", "remove_member"},
           pc[c] \in {"resend", "update", "remove"}, ReadAccess(c, l)
    PROVE  MirrorInv'
<1>1. PICK k, f, g : /\ k = pc[c] /\ f = frame[c]
                     /\ g = With_account_gone(f, clerkId[f.user], {})
  OBVIOUS
<1>2. /\ k \in {"resend", "update", "remove"} /\ Sound(k, f) /\ f \in Frame
      /\ f.user \in Users /\ f.event = None /\ l \in CallAt
  BY <1>1, InHand DEF PlaceOK,
     CallAt, EventOnly, VisitOnly, Shared, OperatorAt, OrgAt,
     OrgKinds, KnowsProfile, KnowsOrg
<1>3. /\ clerkId[f.user] \in Account
      /\ profile[f.user] # "none" /\ orgRow # "none"
  BY <1>1, <1>2 DEF ReadAccess, MirrorInv, MirrorTypes
<1>4. /\ g \in Frame
      /\ g.event = f.event /\ g.user = f.user /\ g.seen = f.seen /\ g.org = f.org
      /\ g.add = f.add /\ g.now = f.now /\ g.was = f.was /\ g.at = f.at /\ g.alone = f.alone
  <2>1. {} \in SUBSET Users /\ g = With_account_gone(f, clerkId[f.user], {})
    BY <1>1
  <2> QED
    BY <1>2, <1>3, <2>1, Set_account_gone
<1>5. ~f.was
  BY <1>2 DEF Sound, PlaceOK, VisitOnly, Shared
<1>6. Sound(l, g)
  BY <1>2, <1>3, <1>4, <1>5 DEF Sound, PlaceOK, KnownOK, InTurn, FreshOK, VisitOK,
     CallAt, EventOnly, VisitOnly, Shared, OperatorAt, OrgAt,
     OrgKinds, KnowsProfile, KnowsOrg
<1>7. pc' = [pc EXCEPT ![c] = l]
  BY DEF ReadAccess, Goto
<1>8. frame' = [frame EXCEPT ![c] = g]
  BY <1>1 DEF ReadAccess, MirrorInv, MirrorTypes, Frame, With_account_gone
<1> QED
  BY <1>1, <1>2, <1>4, <1>6, <1>7, <1>8, Finds DEF ReadAccess

LEMMA OfResend == ASSUME MirrorInv, NEW c \in Calls, Resend(c)  PROVE MirrorInv'
<1>1. pc[c] \in {"resend", "update", "remove"}
  BY DEF Resend
<1>2. CASE clerkId[frame[c].user] = 0
  <2>1. ReadAccess(c, "reinvite")
    BY <1>2 DEF Resend
  <2> QED
    BY <1>1, <2>1, OfReadAccess
<1>3. CASE clerkId[frame[c].user] # 0
  BY <1>3, Returns DEF Resend
<1> QED
  BY <1>2, <1>3

LEMMA OfUpdate == ASSUME MirrorInv, NEW c \in Calls, Update(c)  PROVE MirrorInv'
<1>1. pc[c] \in {"resend", "update", "remove"} /\ ReadAccess(c, "set")
  BY DEF Update
<1> QED
  BY <1>1, OfReadAccess

LEMMA OfRemove == ASSUME MirrorInv, NEW c \in Calls, Remove(c)  PROVE MirrorInv'
<1>1. pc[c] \in {"resend", "update", "remove"}
  BY DEF Remove
<1>2. PICK l : l = IF clerkId[frame[c].user] = 0 THEN "remove_row" ELSE "remove_member"
  OBVIOUS
<1>3. l \in {"reinvite", "set", "remove_row", "remove_member"} /\ ReadAccess(c, l)
  BY <1>2 DEF Remove
<1> QED
  BY <1>1, <1>3, OfReadAccess

LEMMA OfSetRole == ASSUME MirrorInv, NEW c \in Calls, SetRole(c)  PROVE MirrorInv'
<1>1. PICK k, f : k = pc[c] /\ f = frame[c]
  OBVIOUS
<1>2. k = "set" /\ Sound(k, f)
  BY <1>1, InHand DEF SetRole
<1>3. "mirror_role" \in CallAt /\ Sound("mirror_role", f)
  BY <1>2 DEF Sound, PlaceOK, KnownOK, InTurn, FreshOK, VisitOK,
     CallAt, EventOnly, VisitOnly, Shared, OperatorAt, OrgAt,
     OrgKinds, KnowsProfile, KnowsOrg
<1> QED
  BY <1>1, <1>3, Moves DEF SetRole

LEMMA OfFindUserAndOrg ==
    ASSUME MirrorInv, NEW c \in Calls, FindUserAndOrg(c)  PROVE MirrorInv'
<1>1. PICK k, f, g : k = pc[c] /\ f = frame[c] /\ g = [f EXCEPT !.account = clerkId[f.user]]
  OBVIOUS
<1>2. /\ k = "add" /\ Sound(k, f) /\ f \in Frame
      /\ f.user \in Users /\ f.event = None /\ ~f.was
  BY <1>1, InHand DEF FindUserAndOrg, PlaceOK,
     CallAt, EventOnly, VisitOnly, Shared, OperatorAt, OrgAt,
     OrgKinds, KnowsProfile, KnowsOrg
<1>3. /\ clerkId[f.user] \in Account
      /\ profile[f.user] # "none" /\ orgRow # "none"
  BY <1>1, <1>2 DEF FindUserAndOrg, MirrorInv, MirrorTypes
<1>4. /\ g \in Frame
      /\ g.event = f.event /\ g.user = f.user /\ g.seen = f.seen /\ g.org = f.org
      /\ g.add = f.add /\ g.now = f.now /\ g.was = f.was /\ g.at = f.at /\ g.alone = f.alone
  BY <1>1, <1>2, <1>3, Set_account
<1>5. "add_member" \in CallAt /\ Sound("add_member", g)
  BY <1>2, <1>3, <1>4 DEF Sound, PlaceOK, KnownOK, InTurn, FreshOK, VisitOK,
     CallAt, EventOnly, VisitOnly, Shared, OperatorAt, OrgAt,
     OrgKinds, KnowsProfile, KnowsOrg
<1>6. pc' = [pc EXCEPT ![c] = "add_member"] /\ frame' = [frame EXCEPT ![c] = g]
  BY <1>1 DEF FindUserAndOrg, Goto
<1> QED
  BY <1>1, <1>4, <1>5, <1>6, Finds DEF FindUserAndOrg

\* Who is to be added is a member by Clerk's list.
LEMMA OfReadBoth == ASSUME MirrorInv, NEW c \in Calls, ReadBoth(c)  PROVE MirrorInv'
<1>1. PICK rm, ad :
         /\ rm = {u \in Users : access[u] # "none" /\ clerkId[u] # 0
                                /\ ~(u \in members /\ accounts[u] = clerkId[u])}
         /\ ad = {<<u, accounts[u]>> : u \in
                     {v \in members : access[v] = "none"
                                      \/ ~(v \in members /\ accounts[v] = clerkId[v])}}
  OBVIOUS
<1>2. PICK k, f, g, none :
         /\ k = pc[c] /\ f = frame[c] /\ none = {}
         /\ g = With_gone_remove_add(f, none, rm, ad)
  OBVIOUS
<1>3. k = "reconcile" /\ Sound(k, f) /\ f \in Frame /\ orgRow # "none"
  BY <1>2, InHand DEF ReadBoth
<1>4. members \subseteq Users /\ accounts \in [Users -> Account]
  BY DEF MirrorInv, MirrorTypes
<1>5. ad \in SUBSET (Users \X Account) /\ \A item \in ad : item[1] \in members
  BY <1>1, <1>4
<1>6. rm \in SUBSET Users /\ none \in SUBSET Users
  BY <1>1, <1>2
<1>7. /\ g \in Frame /\ g.add = ad
      /\ g.event = f.event /\ g.user = f.user /\ g.account = f.account /\ g.seen = f.seen
      /\ g.org = f.org /\ g.now = f.now /\ g.was = f.was /\ g.at = f.at /\ g.alone = f.alone
  BY <1>2, <1>3, <1>5, <1>6, Set_gone_remove_add
<1>8. f.user = Org /\ Org # None
  BY <1>3, UsersAssumption DEF Sound, PlaceOK, OrgAt
<1>9. "apply" \in CallAt /\ Sound("apply", g)
  BY <1>3, <1>5, <1>7, <1>8 DEF Sound, PlaceOK, KnownOK, InTurn, FreshOK, VisitOK, Excused,
     CallAt, EventOnly, VisitOnly, Shared, OperatorAt, OrgAt,
     OrgKinds, KnowsProfile, KnowsOrg
<1>10. pc' = [pc EXCEPT ![c] = "apply"]
  BY DEF ReadBoth, Goto
<1>11. frame' = [frame EXCEPT ![c].gone = none, ![c].remove = rm, ![c].add = ad]
  BY <1>1, <1>2, Zenon DEF ReadBoth
<1>12. frame' = [frame EXCEPT ![c] = g]
  BY <1>2, <1>11 DEF MirrorInv, MirrorTypes, Frame, With_gone_remove_add
<1> QED
  BY <1>2, <1>7, <1>9, <1>10, <1>12, Finds DEF ReadBoth

LEMMA OfTheEnd ==
    ASSUME MirrorInv, NEW c \in Calls, Launch(c) \/ Reconciled(c) \/ Abandon(c)
    PROVE  MirrorInv'
  BY Returns DEF Launch, Reconciled, Abandon

-----------------------------------------------------------------------------
(***************************************************************************)
(* Steps that write rows.  A profile keeps its account, and access becomes *)
(* active where it is excused, unless the user is disturbed.               *)
(***************************************************************************)
Writing(c) ==
    /\ UNCHANGED outside /\ disturbed \subseteq disturbed'
    /\ \A u \in Users : profile[u] # "none" => profile'[u] # "none"
    /\ orgRow # "none" => orgRow' # "none"
    /\ orgRow = "archived" => orgRow' = "archived"
    /\ \A u \in Users \ Concerns(frame[c]) :
          profile'[u] = profile[u] /\ clerkId'[u] = clerkId[u] /\ access'[u] = access[u]
    /\ \A u \in Users \ disturbed' :
          /\ clerkId[u] # 0 => clerkId'[u] = clerkId[u]
          /\ access'[u] = "active" => access[u] = "active" \/ Excused(u)

LEMMA Writes ==
    ASSUME MirrorInv, NEW c \in Calls, NEW l \in CallAt, NEW f \in Frame,
           pc'[c] = l, frame'[c] = f, \A d \in Calls \ {c} : Keeps(d),
           f.user = frame[c].user \/ f = NoFrame,
           f.was /\ f.alone => frame[c].was /\ frame[c].alone,
           Writing(c), MirrorTypes', Sound(l, f)'
    PROVE  MirrorInv'
<1>1. UNCHANGED <<accounts, live, members, orgLive, events, clock>>
  BY DEF Writing, outside, clerk
<1>2. EventsOK'
  BY <1>1 DEF MirrorInv, EventsOK, EventOK
<1>3. OrgOK'
  BY <1>1 DEF MirrorInv, OrgOK, Writing
<1>4. \A u : Excused(u)' <=> Excused(u)
  BY <1>1 DEF Excused
<1>5. ASSUME NEW u \in Users, u \notin disturbed'  PROVE UserOK(u)'
  <2>1. UserOK(u) /\ u \notin disturbed
    BY <1>5 DEF MirrorInv, Writing
  <2>2. clerkId[u] # 0 => clerkId'[u] = clerkId[u]
    BY <1>5 DEF Writing
  <2>3. access'[u] = "active" => Excused(u)'
    BY <1>4, <1>5, <2>1 DEF Writing, UserOK
  <2>4. \A a \in Account : a > 0 /\ a <= accounts'[u] =>
           \/ clerkId'[u] = a
           \/ \E o \in events' : o.kind = "user.created" /\ o.of = u /\ o.account = a
    BY <1>1, <2>1, <2>2, BoundsAssumption DEF UserOK, Account
  <2> QED
    BY <1>1, <2>1, <2>3, <2>4 DEF UserOK
<1>6. \A u \in Users : UserOK(u)'
  BY <1>5 DEF UserOK
<1>7. Calm(Concerns(frame[c]))
  <2>1. clock <= clock'
    BY <1>1, BoundsAssumption DEF MirrorInv, MirrorTypes, Seq
  <2> QED
    BY <1>1, <1>4, <2>1 DEF Calm, Writing
<1> QED
  BY <1>2, <1>3, <1>6, <1>7, StepOK

\* What claiming a profile does.
LEMMA Claims ==
    ASSUME MirrorTypes, NEW u \in Users, NEW a \in Account, NEW seen \in ProfileStatus,
           Claim(u, a, seen), disturbed' = disturbed \cup Relinked(u, a)
    PROVE  /\ profile' \in [Users -> ProfileStatus] /\ clerkId' \in [Users -> Account]
           /\ profile'[u] # "none" /\ clerkId'[u] = a
           /\ \A v \in Users \ {u} : profile'[v] = profile[v] /\ clerkId'[v] = clerkId[v]
           /\ disturbed \subseteq disturbed' /\ disturbed' \subseteq Users \cup {Org}
           /\ u \notin disturbed' /\ clerkId[u] # 0 => clerkId'[u] = clerkId[u]
           /\ profile'[u] = IF seen \in {"none", "invited"} THEN "active" ELSE seen
<1>1. PICK s : s = IF seen \in {"none", "invited"} THEN "active" ELSE seen
  OBVIOUS
<1>2. s \in ProfileStatus /\ s # "none"
  BY <1>1 DEF ProfileStatus
<1>3. profile' = [profile EXCEPT ![u] = s] /\ clerkId' = [clerkId EXCEPT ![u] = a]
  BY <1>1 DEF Claim
<1>4. profile \in [Users -> ProfileStatus] /\ clerkId \in [Users -> Account]
  BY DEF MirrorTypes
<1>5. profile[u] = "none" => clerkId[u] = 0
  BY DEF MirrorTypes
<1>6. u \notin disturbed' /\ clerkId[u] # 0 => clerkId[u] = a
  BY <1>5 DEF Relinked
<1>7. disturbed \subseteq disturbed' /\ disturbed' \subseteq Users \cup {Org}
  BY DEF Relinked, MirrorTypes
<1> QED
  BY <1>1, <1>2, <1>3, <1>4, <1>6, <1>7

LEMMA OfStoreUser == ASSUME MirrorInv, NEW c \in Calls, StoreUser(c)  PROVE MirrorInv'
<1>1. PICK k, f, v, g : k = pc[c] /\ f = frame[c] /\ v = "none" /\ g = [f EXCEPT !.seen = v]
  OBVIOUS
<1>2. /\ k = "store_user" /\ Sound(k, f) /\ f \in Frame /\ f.user \in Users
      /\ f.seen \in ProfileStatus /\ f.account \in Account
      /\ f.event # None /\ f.event.kind = "user.created" /\ f.account = f.event.account
      /\ f.add = {} /\ f.now = None /\ ~f.was
  BY <1>1, InHand DEF StoreUser, PlaceOK,
     CallAt, EventOnly, VisitOnly, Shared, OperatorAt, OrgAt,
     OrgKinds, KnowsProfile, KnowsOrg
<1>3. v \in ProfileStatus
  BY <1>1 DEF ProfileStatus
<1>4. /\ g \in Frame
      /\ g.event = f.event /\ g.user = f.user /\ g.account = f.account /\ g.org = f.org
      /\ g.add = f.add /\ g.now = f.now /\ g.was = f.was /\ g.at = f.at /\ g.alone = f.alone
  BY <1>1, <1>2, <1>3, Set_seen
<1>5. pc' = [pc EXCEPT ![c] = "log"] /\ frame' = [frame EXCEPT ![c] = g]
  BY <1>1 DEF StoreUser, Goto
<1>6. pc'[c] = "log" /\ frame'[c] = g /\ \A d \in Calls \ {c} : Keeps(d)
  BY <1>5, Untouched DEF MirrorInv
<1>7. UNCHANGED <<accounts, live, members, orgLive, events, clock, access, orgRow, held>>
  BY DEF StoreUser, outside, clerk
<1>8. /\ profile' \in [Users -> ProfileStatus] /\ clerkId' \in [Users -> Account]
      /\ profile'[f.user] # "none" /\ clerkId'[f.user] = f.account
      /\ \A u \in Users \ {f.user} : profile'[u] = profile[u] /\ clerkId'[u] = clerkId[u]
      /\ disturbed \subseteq disturbed' /\ disturbed' \subseteq Users \cup {Org}
      /\ f.user \notin disturbed' /\ clerkId[f.user] # 0 => clerkId'[f.user] = clerkId[f.user]
  BY <1>1, <1>2, Claims DEF StoreUser, MirrorInv
<1>9. MirrorTypes'
  BY <1>2, <1>4, <1>5, <1>7, <1>8 DEF MirrorInv, MirrorTypes, CallAt, EventOnly
<1>10. Writing(c)
  BY <1>1, <1>2, <1>7, <1>8 DEF Writing, outside, clerk, Concerns
<1>11. Sound("log", g)'
  BY <1>2, <1>4, <1>7, <1>8 DEF Sound, PlaceOK, KnownOK, InTurn, FreshOK, VisitOK,
     CallAt, EventOnly, VisitOnly, Shared, OperatorAt, OrgAt,
     OrgKinds, KnowsProfile, KnowsOrg
<1> QED
  BY <1>1, <1>4, <1>6, <1>9, <1>10, <1>11, Writes DEF CallAt, EventOnly

LEMMA OfAdopt == ASSUME MirrorInv, NEW c \in Calls, Adopt(c)  PROVE MirrorInv'
<1>1. PICK k, f, v, g : k = pc[c] /\ f = frame[c] /\ v = "none" /\ g = [f EXCEPT !.seen = v]
  OBVIOUS
<1>2. /\ k = "adopt" /\ Sound(k, f) /\ f \in Frame /\ f.user \in Users
      /\ f.seen \in ProfileStatus /\ f.account \in Account
      /\ f.event # None => f.event.kind = "membership.created" /\ ~f.was
      /\ f.add = {} /\ f.now = None
  BY <1>1, InHand DEF Adopt, PlaceOK,
     CallAt, EventOnly, VisitOnly, Shared, OperatorAt, OrgAt,
     OrgKinds, KnowsProfile, KnowsOrg
<1>3. v \in ProfileStatus
  BY <1>1 DEF ProfileStatus
<1>4. /\ g \in Frame
      /\ g.event = f.event /\ g.user = f.user /\ g.account = f.account /\ g.org = f.org
      /\ g.add = f.add /\ g.now = f.now /\ g.was = f.was /\ g.at = f.at /\ g.alone = f.alone
  BY <1>1, <1>2, <1>3, Set_seen
<1>5. UNCHANGED <<accounts, live, members, orgLive, events, clock, access, orgRow, held>>
  BY DEF Adopt, outside, clerk
<1>6. /\ profile' \in [Users -> ProfileStatus] /\ clerkId' \in [Users -> Account]
      /\ profile'[f.user] # "none" /\ clerkId'[f.user] = f.account
      /\ \A u \in Users \ {f.user} : profile'[u] = profile[u] /\ clerkId'[u] = clerkId[u]
      /\ disturbed \subseteq disturbed' /\ disturbed' \subseteq Users \cup {Org}
      /\ f.user \notin disturbed' /\ clerkId[f.user] # 0 => clerkId'[f.user] = clerkId[f.user]
  BY <1>1, <1>2, Claims DEF Adopt, MirrorInv
<1>7. Writing(c)
  BY <1>1, <1>2, <1>5, <1>6 DEF Writing, outside, clerk, Concerns
<1>8. ASSUME NEW l \in CallAt, NEW h \in Frame,
             h.user = f.user \/ h = NoFrame, h.was /\ h.alone => f.was /\ f.alone,
             pc' = [pc EXCEPT ![c] = l], frame' = [frame EXCEPT ![c] = h],
             MirrorTypes' => Sound(l, h)'
      PROVE  MirrorInv'
  <2>1. pc'[c] = l /\ frame'[c] = h /\ \A d \in Calls \ {c} : Keeps(d)
    BY <1>8, Untouched DEF MirrorInv
  <2>2. MirrorTypes'
    BY <1>2, <1>5, <1>6, <1>8 DEF MirrorInv, MirrorTypes
  <2> QED
    BY <1>1, <1>7, <1>8, <2>1, <2>2, Writes
<1>9. CASE f.event = None /\ f.seen = "suspended"
  <2>1. pc' = [pc EXCEPT ![c] = "idle"] /\ frame' = [frame EXCEPT ![c] = NoFrame]
    BY <1>1, <1>9 DEF Adopt, Return, Goto
  <2> QED
    BY <1>8, <2>1, IdleIsSound, NoFrameIsAFrame DEF CallAt
<1>10. CASE ~(f.event = None /\ f.seen = "suspended")
  <2>1. PICK l : l = IF f.event = None THEN "list" ELSE IF f.org THEN "grant" ELSE "log"
    OBVIOUS
  <2>2. pc' = [pc EXCEPT ![c] = l] /\ frame' = [frame EXCEPT ![c] = g]
    BY <1>1, <1>10, <2>1 DEF Adopt, Goto
  <2>3. /\ l \in {"list", "grant", "log"} /\ (l = "list" <=> f.event = None)
        /\ l = "grant" => f.org
    BY <2>1
  <2>4. l \in CallAt /\ Sound(l, g)'
    BY <1>2, <1>4, <1>5, <1>6, <2>3
       DEF Sound, PlaceOK, KnownOK, InTurn, FreshOK, VisitOK,
     CallAt, EventOnly, VisitOnly, Shared, OperatorAt, OrgAt,
     OrgKinds, KnowsProfile, KnowsOrg
  <2> QED
    BY <1>4, <1>8, <2>2, <2>4
<1> QED
  BY <1>9, <1>10

LEMMA OfSuspend == ASSUME MirrorInv, NEW c \in Calls, Suspend(c)  PROVE MirrorInv'
<1>1. PICK k, f : k = pc[c] /\ f = frame[c]
  OBVIOUS
<1>2. /\ k = "suspend" /\ Sound(k, f) /\ f \in Frame /\ f.user \in Users
      /\ f.event # None /\ f.event.kind = "user.deleted"
      /\ f.add = {} /\ f.now = None /\ ~f.was
  BY <1>1, InHand DEF Suspend, PlaceOK,
     CallAt, EventOnly, VisitOnly, Shared, OperatorAt, OrgAt,
     OrgKinds, KnowsProfile, KnowsOrg
<1>3. pc' = [pc EXCEPT ![c] = "log"] /\ frame' = [frame EXCEPT ![c] = f]
  BY <1>1 DEF Suspend, Goto, MirrorInv, MirrorTypes
<1>4. pc'[c] = "log" /\ frame'[c] = f /\ \A d \in Calls \ {c} : Keeps(d)
  BY <1>3, Untouched DEF MirrorInv
<1>5. UNCHANGED <<accounts, live, members, orgLive, events, clock, clerkId, access, orgRow,
                  disturbed, held>>
  BY DEF Suspend, outside, clerk, history
<1>6. profile' = [profile EXCEPT ![f.user] = "suspended"]
  BY <1>1 DEF Suspend
<1>7. profile \in [Users -> ProfileStatus] /\ "suspended" \in ProfileStatus
  BY DEF MirrorInv, MirrorTypes, ProfileStatus
<1>8. MirrorTypes'
  BY <1>2, <1>3, <1>5, <1>6, <1>7 DEF MirrorInv, MirrorTypes, CallAt, EventOnly
<1>9. Writing(c)
  BY <1>1, <1>2, <1>5, <1>6, <1>7 DEF Writing, outside, clerk, Concerns
<1>10. Sound("log", f)'
  BY <1>2, <1>5, <1>6, <1>7 DEF Sound, PlaceOK, KnownOK, InTurn, FreshOK, VisitOK,
     CallAt, EventOnly, VisitOnly, Shared, OperatorAt, OrgAt,
     OrgKinds, KnowsProfile, KnowsOrg
<1> QED
  BY <1>1, <1>2, <1>4, <1>8, <1>9, <1>10, Writes DEF CallAt, EventOnly

LEMMA OfEnsureProfile == ASSUME MirrorInv, NEW c \in Calls, EnsureProfile(c)  PROVE MirrorInv'
<1>1. PICK k, f : k = pc[c] /\ f = frame[c]
  OBVIOUS
<1>2. /\ k \in {"invite", "onboard"} /\ Sound(k, f) /\ f \in Frame /\ f.user \in Users
      /\ orgRow # "none" /\ f.event = None /\ f.add = {} /\ f.now = None /\ ~f.was
  BY <1>1, InHand DEF EnsureProfile, PlaceOK,
     CallAt, EventOnly, VisitOnly, Shared, OperatorAt, OrgAt,
     OrgKinds, KnowsProfile, KnowsOrg
<1>3. PICK l, s : /\ l = IF k = "invite" THEN "store_invited" ELSE "store_onboarded"
                  /\ s = IF profile[f.user] = "none" THEN "invited" ELSE profile[f.user]
  OBVIOUS
<1>4. l \in {"store_invited", "store_onboarded"} /\ l \in CallAt
  BY <1>3 DEF CallAt, OperatorAt
<1>5. pc' = [pc EXCEPT ![c] = l] /\ frame' = [frame EXCEPT ![c] = f]
  BY <1>1, <1>3 DEF EnsureProfile, Goto, MirrorInv, MirrorTypes
<1>6. pc'[c] = l /\ frame'[c] = f /\ \A d \in Calls \ {c} : Keeps(d)
  BY <1>5, Untouched DEF MirrorInv
<1>7. UNCHANGED <<accounts, live, members, orgLive, events, clock, clerkId, access, orgRow,
                  disturbed, held>>
  BY DEF EnsureProfile, outside, clerk, history
<1>8. profile' = [profile EXCEPT ![f.user] = s]
  BY <1>1, <1>3 DEF EnsureProfile
<1>9. profile \in [Users -> ProfileStatus] /\ s \in ProfileStatus /\ s # "none"
  BY <1>2, <1>3 DEF MirrorInv, MirrorTypes, ProfileStatus
<1>10. MirrorTypes'
  BY <1>2, <1>4, <1>5, <1>7, <1>8, <1>9 DEF MirrorInv, MirrorTypes
<1>11. Writing(c)
  BY <1>1, <1>2, <1>7, <1>8, <1>9 DEF Writing, outside, clerk, Concerns
<1>12. Sound(l, f)'
  BY <1>2, <1>4, <1>7, <1>8, <1>9 DEF Sound, PlaceOK, KnownOK, InTurn, FreshOK, VisitOK,
     CallAt, EventOnly, VisitOnly, Shared, OperatorAt, OrgAt,
     OrgKinds, KnowsProfile, KnowsOrg
<1> QED
  BY <1>1, <1>2, <1>4, <1>6, <1>10, <1>11, <1>12, Writes

LEMMA OfStoreOrg == ASSUME MirrorInv, NEW c \in Calls, StoreOrg(c)  PROVE MirrorInv'
<1>1. PICK k, f : k = pc[c] /\ f = frame[c]
  OBVIOUS
<1>2. /\ k = "store_org" /\ Sound(k, f) /\ f \in Frame /\ f.event # None
      /\ f.event.kind = "organization.created" /\ ~f.was
      /\ f.user = None /\ f.add = {} /\ f.now = None
  BY <1>1, InHand, UsersAssumption DEF StoreOrg, PlaceOK,
     CallAt, EventOnly, VisitOnly, Shared, OperatorAt, OrgAt,
     OrgKinds, KnowsProfile, KnowsOrg
<1>3. pc' = [pc EXCEPT ![c] = "log"] /\ frame' = [frame EXCEPT ![c] = f]
  BY <1>1 DEF StoreOrg, Goto, MirrorInv, MirrorTypes
<1>4. pc'[c] = "log" /\ frame'[c] = f /\ \A d \in Calls \ {c} : Keeps(d)
  BY <1>3, Untouched DEF MirrorInv
<1>5. UNCHANGED <<accounts, live, members, orgLive, events, clock, profile, clerkId, access,
                  disturbed, held>>
  BY DEF StoreOrg, outside, clerk, history
<1>6. /\ orgRow' \in OrgStatus /\ orgRow' # "none"
      /\ orgRow # "none" => orgRow' = orgRow
  BY <1>1, <1>2 DEF StoreOrg, MirrorInv, MirrorTypes, OrgStatus, Sound, KnownOK
<1>7. MirrorTypes'
  BY <1>2, <1>3, <1>5, <1>6 DEF MirrorInv, MirrorTypes, CallAt, EventOnly
<1>8. Writing(c)
  BY <1>5, <1>6 DEF Writing, outside, clerk
<1>9. Sound("log", f)'
  BY <1>2, <1>5, <1>6 DEF Sound, PlaceOK, KnownOK, InTurn, FreshOK, VisitOK,
     CallAt, EventOnly, VisitOnly, Shared, OperatorAt, OrgAt,
     OrgKinds, KnowsProfile, KnowsOrg
<1> QED
  BY <1>1, <1>2, <1>4, <1>7, <1>8, <1>9, Writes DEF CallAt, EventOnly

\* The row is there by the time its deletion is handled in turn.
LEMMA OfArchiveOrg == ASSUME MirrorInv, NEW c \in Calls, ArchiveOrg(c)  PROVE MirrorInv'
<1>1. PICK k, f : k = pc[c] /\ f = frame[c]
  OBVIOUS
<1>2. /\ k = "find" /\ Sound(k, f) /\ f \in Frame
      /\ f.event.kind = "organization.deleted"
  BY <1>1, InHand DEF ArchiveOrg, Handling
<1>3. /\ f.event # None /\ f.event \in Event /\ f.event.of = Org /\ ~f.was
      /\ f.event.seq > 0 /\ f.user = None /\ f.add = {} /\ f.now = None
  <2>0. PlaceOK(k, f) /\ f.event \in Event \cup {None}
    BY <1>1, InHand
  <2>1. f.event # None /\ f.event \in Event /\ PlaceOK(k, f)
    BY <1>2, <2>0 DEF PlaceOK, EventOnly
  <2>2. f.event.of = Org /\ f.event.seq > 0 /\ ~f.was
    BY <1>2, <2>1 DEF PlaceOK, OrgKinds
  <2>3. f.user = None
    BY <2>1, <2>2 DEF PlaceOK
  <2> QED
    BY <2>1, <2>2, <2>3, UsersAssumption DEF PlaceOK
<1>4. pc' = [pc EXCEPT ![c] = "log"] /\ frame' = [frame EXCEPT ![c] = f]
  BY <1>1 DEF ArchiveOrg, Goto, MirrorInv, MirrorTypes
<1>5. pc'[c] = "log" /\ frame'[c] = f /\ \A d \in Calls \ {c} : Keeps(d)
  BY <1>4, Untouched DEF MirrorInv
<1>6. UNCHANGED <<accounts, live, members, orgLive, events, clock, profile, clerkId, access,
                  disturbed, held>>
  BY DEF ArchiveOrg, outside, clerk, history
<1>7. /\ orgRow' \in OrgStatus /\ (orgRow # "none" => orgRow' = "archived")
  BY DEF ArchiveOrg, OrgStatus
<1>8. ASSUME Org \notin disturbed, orgRow = "none"  PROVE FALSE
  <2>1. PICK o \in events : o.kind = "organization.created"
    BY <1>8 DEF MirrorInv, OrgOK
  <2>2. o.of = Org /\ o.seq = 0
    BY <2>1 DEF MirrorInv, EventsOK, EventOK, OrgKinds
  <2>3. f.event.seq <= o.seq
    BY <1>2, <1>3, <1>8, <2>2 DEF Sound, InTurn
  <2>4. f.event.seq \in Seq
    BY <1>3 DEF Event
  <2> QED
    BY <1>3, <2>2, <2>3, <2>4, BoundsAssumption DEF Seq
<1>9. MirrorTypes'
  BY <1>2, <1>4, <1>6, <1>7 DEF MirrorInv, MirrorTypes, CallAt, EventOnly
<1>10. Writing(c)
  BY <1>6, <1>7 DEF Writing, outside, clerk
<1>11. Sound("log", f)'
  BY <1>2, <1>3, <1>6, <1>7, <1>8
     DEF Sound, PlaceOK, KnownOK, InTurn, FreshOK, VisitOK,
     CallAt, EventOnly, VisitOnly, Shared, OperatorAt, OrgAt,
     OrgKinds, KnowsProfile, KnowsOrg
<1> QED
  BY <1>1, <1>2, <1>5, <1>9, <1>10, <1>11, Writes DEF CallAt, EventOnly

\* Access rows.
LEMMA Accesses ==
    ASSUME MirrorInv, NEW c \in Calls, NEW l \in CallAt, NEW f \in Frame,
           NEW u \in Users, NEW s \in AccessStatus,
           pc' \in [Calls -> CallAt], frame' \in [Calls -> Frame],
           pc'[c] = l, frame'[c] = f, \A d \in Calls \ {c} : Keeps(d),
           f.user = frame[c].user \/ f = NoFrame,
           f.was /\ f.alone => frame[c].was /\ frame[c].alone,
           access' = [access EXCEPT ![u] = s], UNCHANGED <<outside, profile, clerkId, orgRow>>,
           disturbed \subseteq disturbed', disturbed' \subseteq Users \cup {Org},
           held' \subseteq Users, u \in Concerns(frame[c]),
           s # "none" => profile[u] # "none" /\ orgRow # "none",
           u \notin disturbed' /\ s = "active" => access[u] = "active" \/ Excused(u),
           Sound(l, f)'
    PROVE  MirrorInv'
<1>1. UNCHANGED <<accounts, live, members, orgLive, events, clock>>
  BY DEF outside, clerk
<1>2. access \in [Users -> AccessStatus]
  BY DEF MirrorInv, MirrorTypes
<1>3. MirrorTypes'
  BY <1>1, <1>2 DEF MirrorInv, MirrorTypes
<1>4. Writing(c)
  BY <1>2 DEF Writing
<1> QED
  BY <1>3, <1>4, Writes

\* The end of an operation on one user that wrote his row.
LEMMA WritesAndReturns ==
    ASSUME MirrorInv, NEW c \in Calls, NEW s \in AccessStatus, frame[c].user \in Users,
           Return(c), access' = [access EXCEPT ![frame[c].user] = s],
           UNCHANGED <<outside, profile, clerkId, orgRow>>,
           disturbed \subseteq disturbed', disturbed' \subseteq Users \cup {Org},
           held' \subseteq Users,
           s # "none" => profile[frame[c].user] # "none" /\ orgRow # "none",
           frame[c].user \notin disturbed' /\ s = "active"
              => access[frame[c].user] = "active" \/ Excused(frame[c].user)
    PROVE  MirrorInv'
<1>1. PICK l, f, u : l = "idle" /\ f = NoFrame /\ u = frame[c].user
  OBVIOUS
<1>2. l \in CallAt /\ f \in Frame /\ ~f.was /\ u \in Users
  BY <1>1, NoFrameIsAFrame DEF CallAt
<1>3. pc' = [pc EXCEPT ![c] = l] /\ frame' = [frame EXCEPT ![c] = f]
  BY <1>1 DEF Return, Goto
<1>4. pc'[c] = l /\ frame'[c] = f /\ \A d \in Calls \ {c} : Keeps(d)
  BY <1>3, Untouched DEF MirrorInv
<1>5. pc' \in [Calls -> CallAt] /\ frame' \in [Calls -> Frame]
  BY <1>2, <1>3 DEF MirrorInv, MirrorTypes
<1>6. KnownOK(l, f)'
  BY <1>1, NoFrameIsAFrame, BoundsAssumption
     DEF MirrorInv, MirrorTypes, KnownOK, outside, Seq, KnowsProfile, KnowsOrg
<1>7. PlaceOK(l, f)
  BY <1>1, IdleIsSound DEF MirrorInv, Sound
<1>8. InTurn(f)' /\ FreshOK(l, f)' /\ VisitOK(l, f)'
  BY <1>1, NoFrameIsAFrame DEF InTurn, FreshOK, VisitOK
<1>9. Sound(l, f)'
  BY <1>6, <1>7, <1>8 DEF Sound, PlaceOK
<1>10. u \in Concerns(frame[c])
  BY <1>1, <1>2 DEF Concerns
<1> QED
  BY <1>1, <1>2, <1>4, <1>5, <1>9, <1>10, Accesses

LEMMA OfStoreInvited == ASSUME MirrorInv, NEW c \in Calls, StoreInvited(c)  PROVE MirrorInv'
<1>1. PICK k, f, s : k = pc[c] /\ f = frame[c] /\ s = "invited"
  OBVIOUS
<1>2. k = "store_invited" /\ f.user \in Users /\ profile[f.user] # "none" /\ orgRow # "none"
  BY <1>1, InHand DEF StoreInvited, PlaceOK, KnownOK,
     CallAt, EventOnly, VisitOnly, Shared, OperatorAt, OrgAt,
     OrgKinds, KnowsProfile, KnowsOrg
<1>3. s \in AccessStatus /\ access' = [access EXCEPT ![f.user] = s] /\ s # "active"
  BY <1>1 DEF StoreInvited, AccessStatus
<1>4. /\ disturbed' = disturbed /\ disturbed' \subseteq Users \cup {Org} /\ held' \subseteq Users
  BY DEF StoreInvited, MirrorInv, MirrorTypes
<1> QED
  BY <1>1, <1>2, <1>3, <1>4, WritesAndReturns DEF StoreInvited

LEMMA OfStoreOnboarded ==
    ASSUME MirrorInv, NEW c \in Calls, StoreOnboarded(c)  PROVE MirrorInv'
<1>1. PICK k, f, s : /\ k = pc[c] /\ f = frame[c]
                     /\ s = IF access[f.user] = "none" THEN "invited" ELSE access[f.user]
  OBVIOUS
<1>2. k = "store_onboarded" /\ f.user \in Users /\ profile[f.user] # "none" /\ orgRow # "none"
  BY <1>1, InHand DEF StoreOnboarded, PlaceOK, KnownOK,
     CallAt, EventOnly, VisitOnly, Shared, OperatorAt, OrgAt,
     OrgKinds, KnowsProfile, KnowsOrg
<1>3. /\ s \in AccessStatus /\ (s = "active" => access[f.user] = "active")
      /\ access' = [access EXCEPT ![f.user] = s]
  BY <1>1, <1>2 DEF StoreOnboarded, AccessStatus, MirrorInv, MirrorTypes
<1>4. /\ disturbed' = disturbed /\ disturbed' \subseteq Users \cup {Org} /\ held' \subseteq Users
  BY DEF StoreOnboarded, MirrorInv, MirrorTypes, history
<1> QED
  BY <1>1, <1>2, <1>3, <1>4, WritesAndReturns DEF StoreOnboarded

LEMMA OfReinvite == ASSUME MirrorInv, NEW c \in Calls, Reinvite(c)  PROVE MirrorInv'
<1>1. PICK k, f, s : k = pc[c] /\ f = frame[c] /\ s = "invited"
  OBVIOUS
<1>2. k = "reinvite" /\ f.user \in Users /\ profile[f.user] # "none" /\ orgRow # "none"
  BY <1>1, InHand DEF Reinvite, PlaceOK, KnownOK,
     CallAt, EventOnly, VisitOnly, Shared, OperatorAt, OrgAt,
     OrgKinds, KnowsProfile, KnowsOrg
<1>3. s \in AccessStatus /\ access' = [access EXCEPT ![f.user] = s] /\ s # "active"
  BY <1>1 DEF Reinvite, AccessStatus
<1>4. /\ disturbed' = disturbed /\ disturbed' \subseteq Users \cup {Org} /\ held' \subseteq Users
  BY DEF Reinvite, MirrorInv, MirrorTypes
<1> QED
  BY <1>1, <1>2, <1>3, <1>4, WritesAndReturns DEF Reinvite

LEMMA OfSetStatus ==
    ASSUME MirrorInv, NEW c \in Calls, NEW s \in {"active", "suspended"}, SetStatus(c, s)
    PROVE  MirrorInv'
<1>1. PICK k, f : k = pc[c] /\ f = frame[c]
  OBVIOUS
<1>2. k = "set" /\ f.user \in Users /\ profile[f.user] # "none" /\ orgRow # "none"
  BY <1>1, InHand DEF SetStatus, PlaceOK, KnownOK,
     CallAt, EventOnly, VisitOnly, Shared, OperatorAt, OrgAt,
     OrgKinds, KnowsProfile, KnowsOrg
<1>3. s \in AccessStatus /\ access' = [access EXCEPT ![f.user] = s]
  BY <1>1 DEF SetStatus, AccessStatus
<1>4. /\ disturbed \subseteq disturbed' /\ disturbed' \subseteq Users \cup {Org}
      /\ held' \subseteq Users
      /\ f.user \notin disturbed' /\ s = "active" => f.user \in members
  BY <1>1, <1>2 DEF SetStatus, MirrorInv, MirrorTypes
<1>5. f.user \notin disturbed' /\ s = "active" => access[f.user] = "active" \/ Excused(f.user)
  BY <1>4 DEF Excused
<1> QED
  BY <1>1, <1>2, <1>3, <1>4, <1>5, WritesAndReturns DEF SetStatus

LEMMA OfStoreMember == ASSUME MirrorInv, NEW c \in Calls, StoreMember(c)  PROVE MirrorInv'
<1>1. PICK k, f, s : k = pc[c] /\ f = frame[c] /\ s = "active"
  OBVIOUS
<1>2. /\ k = "store_member" /\ f.user \in Users /\ profile[f.user] # "none" /\ orgRow # "none"
      /\ f.user \notin disturbed => Excused(f.user)
  BY <1>1, InHand DEF StoreMember, PlaceOK, KnownOK, FreshOK,
     CallAt, EventOnly, VisitOnly, Shared, OperatorAt, OrgAt,
     OrgKinds, KnowsProfile, KnowsOrg
<1>3. s \in AccessStatus /\ access' = [access EXCEPT ![f.user] = s]
  BY <1>1 DEF StoreMember, AccessStatus
<1>4. /\ disturbed' = disturbed /\ disturbed' \subseteq Users \cup {Org} /\ held' \subseteq Users
  BY DEF StoreMember, MirrorInv, MirrorTypes
<1> QED
  BY <1>1, <1>2, <1>3, <1>4, WritesAndReturns DEF StoreMember

\* An event that says he is a member, in turn.
LEMMA OfGrant == ASSUME MirrorInv, NEW c \in Calls, Grant(c)  PROVE MirrorInv'
<1>1. PICK k, f, s : k = pc[c] /\ f = frame[c] /\ s = "active"
  OBVIOUS
<1>2. /\ k = "grant" /\ Sound(k, f) /\ f \in Frame /\ f.user \in Users
      /\ profile[f.user] # "none" /\ orgRow # "none" /\ f.event # None
      /\ f.event.kind = "membership.created" /\ f.event.of = f.user
      /\ f.add = {} /\ f.now = None /\ ~f.was
  BY <1>1, InHand DEF Grant, PlaceOK, KnownOK,
     CallAt, EventOnly, VisitOnly, Shared, OperatorAt, OrgAt,
     OrgKinds, KnowsProfile, KnowsOrg
<1>3. s \in AccessStatus /\ access' = [access EXCEPT ![f.user] = s]
  BY <1>1 DEF Grant, AccessStatus
<1>4. UNCHANGED <<accounts, live, members, orgLive, events, clock, profile, clerkId, orgRow,
                  disturbed, held>>
  BY DEF Grant, outside, clerk, history
<1>5. pc' = [pc EXCEPT ![c] = "log"] /\ frame' = [frame EXCEPT ![c] = f]
  BY <1>1 DEF Grant, Goto, MirrorInv, MirrorTypes
<1>6. pc'[c] = "log" /\ frame'[c] = f /\ \A d \in Calls \ {c} : Keeps(d)
  BY <1>5, Untouched DEF MirrorInv
<1>7. pc' \in [Calls -> CallAt] /\ frame' \in [Calls -> Frame]
  BY <1>2, <1>5 DEF MirrorInv, MirrorTypes, CallAt, EventOnly
<1>8. f.user \notin disturbed => Excused(f.user)
  <2> SUFFICES ASSUME f.user \notin disturbed  PROVE Excused(f.user)
    OBVIOUS
  <2>1. f.event \in events
    BY <1>2, UsersAssumption DEF Sound, InTurn
  <2> QED
    BY <1>2, <2>1 DEF MirrorInv, UserOK, Excused
<1>9. f.user \in Concerns(f)
  BY <1>2 DEF Concerns
<1>10. Sound("log", f)'
  BY <1>2, <1>4 DEF Sound, PlaceOK, KnownOK, InTurn, FreshOK, VisitOK,
     CallAt, EventOnly, VisitOnly, Shared, OperatorAt, OrgAt,
     OrgKinds, KnowsProfile, KnowsOrg
<1>11. disturbed' = disturbed /\ disturbed' \subseteq Users \cup {Org} /\ held' \subseteq Users
  BY <1>4 DEF MirrorInv, MirrorTypes
<1> QED
  BY <1>1, <1>2, <1>3, <1>4, <1>6, <1>7, <1>8, <1>9, <1>10, <1>11, Accesses
     DEF CallAt, EventOnly, Grant

LEMMA OfHeal == ASSUME MirrorInv, NEW c \in Calls, Heal(c)  PROVE MirrorInv'
<1>1. PICK k, f, s, v, w, g : /\ k = pc[c] /\ f = frame[c] /\ s = "active" /\ v = "none" /\ w = {}
                              /\ g = With_seen_gone(f, v, w)
  OBVIOUS
<1>2. /\ k = "heal" /\ Sound(k, f) /\ f \in Frame /\ f.user \in Users
      /\ profile[f.user] # "none" /\ orgRow # "none" /\ f.event = None
      /\ f.user \notin disturbed => Excused(f.user)
      /\ f.add = {} /\ f.now = None
  BY <1>1, InHand DEF Heal, PlaceOK, KnownOK, FreshOK,
     CallAt, EventOnly, VisitOnly, Shared, OperatorAt, OrgAt,
     OrgKinds, KnowsProfile, KnowsOrg
<1>3. s \in AccessStatus /\ access' = [access EXCEPT ![f.user] = s] /\ access \in [Users -> AccessStatus]
  BY <1>1 DEF Heal, AccessStatus, MirrorInv, MirrorTypes
<1>4. UNCHANGED <<accounts, live, members, orgLive, events, clock, profile, clerkId, orgRow,
                  disturbed, held>>
  BY DEF Heal, outside, clerk, history
<1>5. /\ g \in Frame
      /\ g.event = f.event /\ g.user = f.user /\ g.account = f.account /\ g.org = f.org
      /\ g.add = f.add /\ g.now = f.now /\ g.was = f.was /\ g.at = f.at /\ g.alone = f.alone
  <2>1. v \in ProfileStatus /\ w \in SUBSET Users
    BY <1>1 DEF ProfileStatus
  <2> QED
    BY <1>1, <1>2, <2>1, Set_seen_gone
<1>6. pc' = [pc EXCEPT ![c] = "launch"]
  BY DEF Heal, Goto
<1>7. frame' = [frame EXCEPT ![c] = g]
  BY <1>1 DEF Heal, MirrorInv, MirrorTypes, Frame, With_seen_gone
<1>8. pc'[c] = "launch" /\ frame'[c] = g /\ \A d \in Calls \ {c} : Keeps(d)
  BY <1>6, <1>7, Untouched DEF MirrorInv
<1>9. pc' \in [Calls -> CallAt] /\ frame' \in [Calls -> Frame] /\ "launch" \in CallAt
  BY <1>5, <1>6, <1>7 DEF MirrorInv, MirrorTypes, CallAt, VisitOnly
<1>10. f.user \in Concerns(f)
  BY <1>2 DEF Concerns
<1>11. access'[f.user] = "active"
  BY <1>1, <1>2, <1>3
<1>12. Sound("launch", g)'
  BY <1>2, <1>4, <1>5, <1>11 DEF Sound, PlaceOK, KnownOK, InTurn, FreshOK, VisitOK,
     CallAt, EventOnly, VisitOnly, Shared, OperatorAt, OrgAt,
     OrgKinds, KnowsProfile, KnowsOrg
<1>13. disturbed' = disturbed /\ disturbed' \subseteq Users \cup {Org} /\ held' \subseteq Users
  BY <1>4 DEF MirrorInv, MirrorTypes
<1>14. UNCHANGED <<outside, profile, clerkId, orgRow>> /\ f = frame[c]
  BY <1>1 DEF Heal
<1>15. g.user = frame[c].user /\ (g.was /\ g.alone => frame[c].was /\ frame[c].alone)
  BY <1>5, <1>14
<1>16. /\ f.user \in Concerns(frame[c])
       /\ s # "none" => profile[f.user] # "none" /\ orgRow # "none"
       /\ f.user \notin disturbed' /\ s = "active" => access[f.user] = "active" \/ Excused(f.user)
  BY <1>2, <1>10, <1>13, <1>14
<1> QED
  BY <1>2, <1>3, <1>5, <1>8, <1>9, <1>12, <1>13, <1>14, <1>15, <1>16, Accesses

\* A row that is deleted: the others may find it gone.
LEMMA RowDeletes ==
    ASSUME MirrorInv, NEW c \in Calls, NEW u \in Users, NEW f \in Frame, NEW l \in CallAt,
           RowDeleted(c, u, f), pc' = [pc EXCEPT ![c] = l]
    PROVE  /\ pc' \in [Calls -> CallAt] /\ frame' \in [Calls -> Frame]
           /\ pc'[c] = l /\ frame'[c] = f /\ \A d \in Calls \ {c} : Keeps(d)
           /\ access' = [access EXCEPT ![u] = "none"]
<1>1. frame \in [Calls -> Frame] /\ pc \in [Calls -> CallAt]
  BY DEF MirrorInv, MirrorTypes
<1>2. /\ access' = [access EXCEPT ![u] = "none"]
      /\ frame' = [d \in Calls |->
                    IF d = c THEN f
                    ELSE IF u \in Concerns(frame[d]) /\ pc[d] \in Holding
                         THEN [frame[d] EXCEPT !.gone = @ \cup {u}]
                    ELSE frame[d]]
  BY DEF RowDeleted
<1>3. ASSUME NEW d \in Calls \ {c}
      PROVE  Keeps(d)
  <2>1. CASE u \in Concerns(frame[d]) /\ pc[d] \in Holding
    <3>1. PICK h, w, g : h = frame[d] /\ w = h.gone \cup {u} /\ g = With_gone(h, w)
      OBVIOUS
    <3>2. frame'[d] = g
      BY <1>2, <2>1, <3>1 DEF With_gone
    <3>3. h \in Frame /\ w \in SUBSET Users
      BY <1>1, <3>1, InHand
    <3>4. /\ g \in Frame
          /\ g.event = h.event /\ g.user = h.user /\ g.account = h.account /\ g.seen = h.seen
          /\ g.org = h.org /\ g.add = h.add /\ g.now = h.now /\ g.was = h.was /\ g.at = h.at
          /\ g.alone = h.alone
      BY <3>1, <3>3, Set_gone
    <3>5. pc[d] # "idle" /\ pc'[d] = pc[d]
      BY <1>1, <2>1 DEF Holding
    <3> QED
      BY <3>1, <3>2, <3>4, <3>5 DEF Keeps
  <2>2. CASE ~(u \in Concerns(frame[d]) /\ pc[d] \in Holding)
    <3>1. frame'[d] = frame[d] /\ frame[d] \in Frame /\ pc'[d] = pc[d]
      BY <1>1, <1>2, <2>2, Zenon
    <3> QED
      BY <3>1 DEF Keeps
  <2> QED
    BY <2>1, <2>2
<1>4. frame'[c] = f
  BY <1>2, Zenon
<1>5. \A d \in Calls : frame'[d] \in Frame
  BY <1>3, <1>4 DEF Keeps
<1>6. frame' = [d \in Calls |-> frame'[d]]
  BY <1>2, Zenon
<1> QED
  BY <1>1, <1>2, <1>3, <1>4, <1>5, <1>6

LEMMA OfRevoke == ASSUME MirrorInv, NEW c \in Calls, Revoke(c)  PROVE MirrorInv'
<1>1. PICK k, f, s : k = pc[c] /\ f = frame[c] /\ s = "none"
  OBVIOUS
<1>2. /\ k = "revoke" /\ Sound(k, f) /\ f \in Frame /\ f.user \in Users
      /\ f.event # None /\ f.event.kind = "membership.deleted" /\ f.event.of = f.user
      /\ f.add = {} /\ f.now = None /\ ~f.was
  BY <1>1, InHand DEF Revoke, PlaceOK,
     CallAt, EventOnly, VisitOnly, Shared, OperatorAt, OrgAt,
     OrgKinds, KnowsProfile, KnowsOrg
<1>3. UNCHANGED <<accounts, live, members, orgLive, events, clock, profile, clerkId, orgRow,
                  disturbed, held>>
  BY DEF Revoke, outside, clerk, history
<1>4. "log" \in CallAt /\ pc' = [pc EXCEPT ![c] = "log"] /\ RowDeleted(c, f.user, f)
  BY <1>1 DEF Revoke, Goto, CallAt, EventOnly
<1>5. /\ pc' \in [Calls -> CallAt] /\ frame' \in [Calls -> Frame]
      /\ pc'[c] = "log" /\ frame'[c] = f /\ \A d \in Calls \ {c} : Keeps(d)
      /\ access' = [access EXCEPT ![f.user] = "none"]
  BY <1>2, <1>4, RowDeletes
<1>6. access \in [Users -> AccessStatus] /\ s \in AccessStatus /\ access'[f.user] = "none"
  BY <1>1, <1>2, <1>5 DEF MirrorInv, MirrorTypes, AccessStatus
<1>7. Sound("log", f)'
  BY <1>2, <1>3, <1>6 DEF Sound, PlaceOK, KnownOK, InTurn, FreshOK, VisitOK,
     CallAt, EventOnly, VisitOnly, Shared, OperatorAt, OrgAt,
     OrgKinds, KnowsProfile, KnowsOrg
<1>8. f.user \in Concerns(f)
  BY <1>2 DEF Concerns
<1>9. disturbed' = disturbed /\ disturbed' \subseteq Users \cup {Org} /\ held' \subseteq Users
  BY <1>3 DEF MirrorInv, MirrorTypes
<1>10. UNCHANGED <<outside, profile, clerkId, orgRow>>
  BY DEF Revoke
<1> QED
  BY <1>1, <1>2, <1>4, <1>5, <1>6, <1>7, <1>8, <1>9, <1>10, Accesses

LEMMA OfRemoveRow == ASSUME MirrorInv, NEW c \in Calls, RemoveRow(c)  PROVE MirrorInv'
<1>1. PICK k, f, s : k = pc[c] /\ f = frame[c] /\ s = "none"
  OBVIOUS
<1>2. k = "remove_row" /\ f.user \in Users
  BY <1>1, InHand DEF RemoveRow, PlaceOK,
     CallAt, EventOnly, VisitOnly, Shared, OperatorAt, OrgAt,
     OrgKinds, KnowsProfile, KnowsOrg
<1>3. NoFrame \in Frame /\ ~NoFrame.was
  BY NoFrameIsAFrame
<1>4. "idle" \in CallAt /\ pc' = [pc EXCEPT ![c] = "idle"] /\ RowDeleted(c, f.user, NoFrame)
  BY <1>1 DEF RemoveRow, Goto, CallAt
<1>5. /\ pc' \in [Calls -> CallAt] /\ frame' \in [Calls -> Frame]
      /\ pc'[c] = "idle" /\ frame'[c] = NoFrame /\ \A d \in Calls \ {c} : Keeps(d)
      /\ access' = [access EXCEPT ![f.user] = "none"]
  BY <1>2, <1>3, <1>4, RowDeletes
<1>6. s \in AccessStatus
  BY <1>1 DEF AccessStatus
<1>7. UNCHANGED <<outside, profile, clerkId, orgRow>>
  BY DEF RemoveRow
<1>8. clock' \in Seq
  BY <1>7 DEF outside, MirrorInv, MirrorTypes
<1>9. KnownOK("idle", NoFrame)'
  BY <1>8, NoFrameIsAFrame, BoundsAssumption DEF KnownOK, Seq, KnowsProfile, KnowsOrg
<1>10. PlaceOK("idle", NoFrame)
  BY IdleIsSound DEF MirrorInv, Sound
<1>11. InTurn(NoFrame)' /\ FreshOK("idle", NoFrame)' /\ VisitOK("idle", NoFrame)'
  BY NoFrameIsAFrame DEF InTurn, FreshOK, VisitOK
<1>12. Sound("idle", NoFrame)'
  BY <1>9, <1>10, <1>11 DEF Sound, PlaceOK
<1>13. f.user \in Concerns(f)
  BY <1>2 DEF Concerns
<1>14. disturbed' = disturbed /\ disturbed' \subseteq Users \cup {Org} /\ held' \subseteq Users
  BY DEF RemoveRow, MirrorInv, MirrorTypes
<1> QED
  BY <1>1, <1>2, <1>3, <1>4, <1>5, <1>6, <1>7, <1>12, <1>13, <1>14, Accesses

LEMMA OfDrop == ASSUME MirrorInv, NEW c \in Calls, NEW u \in Users, Drop(c, u)  PROVE MirrorInv'
<1>1. PICK k, f, s, w, g : /\ k = pc[c] /\ f = frame[c] /\ s = "none"
                           /\ w = f.remove \ {u} /\ g = With_remove(f, w)
  OBVIOUS
<1>2. /\ k = "apply" /\ Sound(k, f) /\ f \in Frame /\ f.user = Org /\ f.event = None /\ ~f.was
      /\ f.remove \subseteq Users /\ k \in CallAt
  BY <1>1, InHand, UsersAssumption DEF Drop, PlaceOK,
     CallAt, EventOnly, VisitOnly, Shared, OperatorAt, OrgAt,
     OrgKinds, KnowsProfile, KnowsOrg
<1>3. w \in SUBSET Users
  BY <1>1, <1>2
<1>4. /\ g \in Frame
      /\ g.event = f.event /\ g.user = f.user /\ g.account = f.account /\ g.seen = f.seen
      /\ g.org = f.org /\ g.add = f.add /\ g.now = f.now /\ g.was = f.was /\ g.at = f.at
      /\ g.alone = f.alone
  BY <1>1, <1>2, <1>3, Set_remove
<1>5. RowDeleted(c, u, g)
  BY <1>1 DEF Drop, With_remove
<1>6. pc' = [pc EXCEPT ![c] = k]
  BY <1>1 DEF Drop, MirrorInv, MirrorTypes
<1>7. /\ pc' \in [Calls -> CallAt] /\ frame' \in [Calls -> Frame]
      /\ pc'[c] = k /\ frame'[c] = g /\ \A d \in Calls \ {c} : Keeps(d)
      /\ access' = [access EXCEPT ![u] = "none"]
  BY <1>2, <1>4, <1>5, <1>6, RowDeletes
<1>8. s \in AccessStatus
  BY <1>1 DEF AccessStatus
<1>9. UNCHANGED <<accounts, live, members, orgLive, events, clock, profile, clerkId, orgRow,
                  disturbed, held>>
  BY DEF Drop, outside, clerk, history
<1>10. Sound(k, g)'
  BY <1>2, <1>4, <1>9 DEF Sound, PlaceOK, KnownOK, InTurn, FreshOK, VisitOK, Excused,
     CallAt, EventOnly, VisitOnly, Shared, OperatorAt, OrgAt,
     OrgKinds, KnowsProfile, KnowsOrg
<1>11. u \in Concerns(f)
  BY <1>2 DEF Concerns
<1>12. disturbed' = disturbed /\ disturbed' \subseteq Users \cup {Org} /\ held' \subseteq Users
  BY <1>9 DEF MirrorInv, MirrorTypes
<1>13. UNCHANGED <<outside, profile, clerkId, orgRow>>
  BY DEF Drop
<1> QED
  BY <1>1, <1>2, <1>4, <1>7, <1>8, <1>10, <1>11, <1>12, <1>13, Accesses

LEMMA OfAddAccess == ASSUME MirrorInv, NEW c \in Calls, AddAccess(c)  PROVE MirrorInv'
<1>1. PICK k, f, s, g : /\ k = pc[c] /\ f = frame[c] /\ s = "active"
                        /\ g = [f EXCEPT !.now = None]
  OBVIOUS
<1>2. /\ k = "apply_access" /\ Sound(k, f) /\ f \in Frame /\ f.user = Org /\ f.event = None
      /\ ~f.was /\ f.now \in Users /\ profile[f.now] # "none" /\ orgRow # "none"
      /\ f.now \notin disturbed => Excused(f.now)
  BY <1>1, InHand, UsersAssumption DEF AddAccess, PlaceOK, KnownOK, FreshOK,
     CallAt, EventOnly, VisitOnly, Shared, OperatorAt, OrgAt,
     OrgKinds, KnowsProfile, KnowsOrg
<1>3. /\ g \in Frame /\ g.now = None
      /\ g.event = f.event /\ g.user = f.user /\ g.account = f.account /\ g.seen = f.seen
      /\ g.org = f.org /\ g.add = f.add /\ g.was = f.was /\ g.at = f.at /\ g.alone = f.alone
  <2>1. None \in Users \cup {None} /\ f \in Frame /\ g = [f EXCEPT !.now = None]
    BY <1>1, <1>2
  <2> QED
    BY <2>1, Set_now
<1>4. "apply" \in CallAt /\ pc' = [pc EXCEPT ![c] = "apply"] /\ frame' = [frame EXCEPT ![c] = g]
  BY <1>1 DEF AddAccess, Goto, CallAt, OrgAt
<1>5. pc'[c] = "apply" /\ frame'[c] = g /\ \A d \in Calls \ {c} : Keeps(d)
  BY <1>4, Untouched DEF MirrorInv
<1>6. pc' \in [Calls -> CallAt] /\ frame' \in [Calls -> Frame]
  BY <1>3, <1>4 DEF MirrorInv, MirrorTypes
<1>7. s \in AccessStatus /\ access' = [access EXCEPT ![f.now] = s]
  BY <1>1 DEF AddAccess, AccessStatus
<1>8. UNCHANGED <<accounts, live, members, orgLive, events, clock, profile, clerkId, orgRow,
                  disturbed>>
  BY DEF AddAccess, outside, clerk
<1>9. Sound("apply", g)'
  BY <1>2, <1>3, <1>8 DEF Sound, PlaceOK, KnownOK, InTurn, FreshOK, VisitOK, Excused,
     CallAt, EventOnly, VisitOnly, Shared, OperatorAt, OrgAt,
     OrgKinds, KnowsProfile, KnowsOrg
<1>10. f.now \in Concerns(f)
  BY <1>2 DEF Concerns
<1>11. disturbed' = disturbed /\ disturbed' \subseteq Users \cup {Org} /\ held' \subseteq Users
  BY DEF AddAccess, MirrorInv, MirrorTypes
<1>12. UNCHANGED <<outside, profile, clerkId, orgRow>>
  BY DEF AddAccess
<1>13. /\ f.now \in Concerns(frame[c]) /\ g.user = frame[c].user /\ ~g.was
       /\ s # "none" => profile[f.now] # "none" /\ orgRow # "none"
       /\ f.now \notin disturbed' /\ s = "active" => access[f.now] = "active" \/ Excused(f.now)
  BY <1>1, <1>2, <1>3, <1>10, <1>11
<1> QED
  BY <1>2, <1>3, <1>4, <1>5, <1>6, <1>7, <1>9, <1>11, <1>12, <1>13, Accesses

LEMMA OfAddProfile ==
    ASSUME MirrorInv, NEW c \in Calls, NEW item \in frame[c].add, AddProfile(c, item[1], item[2])
    PROVE  MirrorInv'
<1>1. PICK k, f, u, a : k = pc[c] /\ f = frame[c] /\ u = item[1] /\ a = item[2]
  OBVIOUS
<1>2. /\ k = "apply" /\ Sound(k, f) /\ f \in Frame /\ f.user = Org /\ f.event = None
      /\ ~f.was /\ f.add \subseteq Users \X Account /\ orgRow # "none" /\ f.now \in Users \cup {None}
      /\ item \in f.add
  BY <1>1, InHand, UsersAssumption DEF AddProfile, PlaceOK, KnownOK, FreshOK,
     CallAt, EventOnly, VisitOnly, Shared, OperatorAt, OrgAt,
     OrgKinds, KnowsProfile, KnowsOrg
<1>3. /\ u \in Users /\ a \in Account /\ item = <<u, a>>
      /\ u \notin disturbed => Excused(u)
  BY <1>1, <1>2 DEF Sound, FreshOK
<1>4. PICK s, w, g : /\ s = IF profile[u] = "none" THEN "active" ELSE profile[u]
                     /\ w = f.add \ {<<u, a>>} /\ g = With_add_now(f, w, u)
  OBVIOUS
<1>5. /\ g \in Frame /\ g.now = u /\ g.add = w
      /\ g.event = f.event /\ g.user = f.user /\ g.account = f.account /\ g.seen = f.seen
      /\ g.org = f.org /\ g.was = f.was /\ g.at = f.at /\ g.alone = f.alone
  <2>1. w \in SUBSET (Users \X Account) /\ u \in Users \cup {None}
    BY <1>2, <1>3, <1>4
  <2> QED
    BY <1>2, <1>4, <2>1, Set_add_now
<1>6. pc' = [pc EXCEPT ![c] = "apply_access"] /\ "apply_access" \in CallAt
  BY DEF AddProfile, Goto, CallAt, OrgAt
<1>7. frame' = [frame EXCEPT ![c] = g]
  <2>1. frame' = [frame EXCEPT ![c].add = w, ![c].now = u]
    BY <1>1, <1>4 DEF AddProfile
  <2> QED
    BY <1>1, <1>4, <2>1 DEF MirrorInv, MirrorTypes, Frame, With_add_now
<1>8. pc'[c] = "apply_access" /\ frame'[c] = g /\ \A d \in Calls \ {c} : Keeps(d)
  BY <1>6, <1>7, Untouched DEF MirrorInv
<1>9. UNCHANGED <<accounts, live, members, orgLive, events, clock, access, orgRow, held>>
  BY DEF AddProfile, outside, clerk
<1>10. profile' = [profile EXCEPT ![u] = s] /\ clerkId' = [clerkId EXCEPT ![u] = a]
  BY <1>1, <1>4 DEF AddProfile
<1>11. /\ profile \in [Users -> ProfileStatus] /\ clerkId \in [Users -> Account]
       /\ profile[u] = "none" => clerkId[u] = 0
  BY <1>3 DEF MirrorInv, MirrorTypes
<1>12. s \in ProfileStatus /\ s # "none"
  BY <1>3, <1>4, <1>11 DEF ProfileStatus
<1>13. disturbed' = disturbed \cup Relinked(u, a)
  BY <1>1 DEF AddProfile
<1>14. disturbed \subseteq disturbed' /\ disturbed' \subseteq Users \cup {Org}
  BY <1>3, <1>13 DEF Relinked, MirrorInv, MirrorTypes
<1>15. u \notin disturbed' /\ clerkId[u] # 0 => clerkId[u] = a
  BY <1>11, <1>13 DEF Relinked
<1>16. MirrorTypes'
  BY <1>3, <1>5, <1>6, <1>7, <1>9, <1>10, <1>11, <1>12, <1>14 DEF MirrorInv, MirrorTypes
<1>17. Writing(c)
  BY <1>1, <1>2, <1>3, <1>9, <1>10, <1>11, <1>12, <1>14, <1>15
     DEF Writing, outside, clerk, Concerns
<1>18. profile'[u] # "none" /\ \A v \in Users : profile[v] # "none" => profile'[v] # "none"
  BY <1>3, <1>10, <1>11, <1>12
<1>19. \A v \in f.add : v[1] \notin disturbed' => Excused(v[1])'
  BY <1>2, <1>9, <1>14 DEF Sound, FreshOK, Excused
<1>20. u \notin disturbed' => Excused(u)'
  BY <1>3, <1>9, <1>14 DEF Excused
<1>21. Sound("apply_access", g)'
  BY <1>2, <1>3, <1>4, <1>5, <1>9, <1>14, <1>18, <1>19, <1>20
     DEF Sound, PlaceOK, KnownOK, InTurn, FreshOK, VisitOK,
     CallAt, EventOnly, VisitOnly, Shared, OperatorAt, OrgAt,
     OrgKinds, KnowsProfile, KnowsOrg
<1> QED
  BY <1>1, <1>2, <1>5, <1>6, <1>8, <1>16, <1>17, <1>21, Writes

-----------------------------------------------------------------------------
(***************************************************************************)
(* Steps that announce a change in Clerk.                                  *)
(***************************************************************************)
UserKinds == {"user.created", "user.deleted", "membership.created", "membership.deleted"}

LEMMA NewEvents ==
    ASSUME MirrorTypes, NEW kinds \in SUBSET (UserKinds \cup OrgKinds),
           NEW s \in Users \cup {Org}, NEW a \in Account, Announce(kinds, s, a)
    PROVE  /\ events' \subseteq Event /\ clock' \in Seq /\ clock' > clock /\ events \subseteq events'
           /\ \A e \in events' \ events :
                 e.kind \in kinds /\ e.of = s /\ e.account = a /\ e.seq = clock'
           /\ \A k \in kinds : \E e \in events' :
                 e.kind = k /\ e.of = s /\ e.account = a /\ e.seq = clock'
<1>1. clock \in Seq /\ clock < MaxChanges /\ clock' = clock + 1 /\ MaxChanges \in Nat
  BY BoundsAssumption DEF Announce, MirrorTypes
<1>2. clock' \in Seq /\ clock' > clock
  BY <1>1 DEF Seq
<1>3. events' = events \cup {[kind |-> k, of |-> s, account |-> a, seq |-> clock'] : k \in kinds}
  BY <1>1, Zenon DEF Announce
<1>4. \A k \in kinds : [kind |-> k, of |-> s, account |-> a, seq |-> clock'] \in Event
  BY <1>2 DEF Event, UserKinds, OrgKinds, Account
<1>5. events \subseteq Event
  BY DEF MirrorTypes
<1> DEFINE new(k) == [kind |-> k, of |-> s, account |-> a, seq |-> clock']
<1>6. \A k \in kinds : new(k).kind = k /\ new(k).of = s /\ new(k).account = a /\ new(k).seq = clock'
  OBVIOUS
<1>7. /\ \A k \in kinds : new(k) \in Event /\ new(k) \in events'
      /\ \A e \in events' : e \in events \/ \E k \in kinds : e = new(k)
      /\ events \subseteq events'
  BY <1>3, <1>4
<1> HIDE DEF new
<1>8. \A e \in events' \ events : e.kind \in kinds /\ e.of = s /\ e.account = a /\ e.seq = clock'
  BY <1>6, <1>7
<1>9. events' \subseteq Event
  BY <1>5, <1>7
<1>10. \A k \in kinds : \E e \in events' :
          e.kind = k /\ e.of = s /\ e.account = a /\ e.seq = clock'
  BY <1>6, <1>7
<1> QED
  BY <1>2, <1>7, <1>8, <1>9, <1>10

\* What an announcement says is what happened in Clerk.
Announcing(kinds, s, a) ==
    /\ Announce(kinds, s, a)
    /\ UNCHANGED <<rows, disturbed>>
    /\ s = Org <=> kinds \cap OrgKinds # {}
    /\ s = Org => kinds = {"organization.deleted"}
    /\ s # Org => a > 0 /\ a <= accounts'[s]
    /\ "user.created" \in kinds => kinds = {"user.created"} /\ accounts[s] < a
    /\ \A u \in Users : accounts'[u] = accounts[u]
                        \/ /\ u = s /\ "user.created" \in kinds
                           /\ accounts'[u] = a /\ a = accounts[u] + 1
    /\ \A u \in members : u \in members' \/ ~orgLive' \/ (s = u /\ "membership.deleted" \in kinds)
    /\ ~orgLive => ~orgLive'
    /\ ~orgLive' => ~orgLive \/ "organization.deleted" \in kinds
    /\ "membership.created" \in kinds => s \in members'

LEMMA Announced ==
    ASSUME MirrorInv, MirrorTypes', NEW kinds \in SUBSET (UserKinds \cup OrgKinds),
           NEW s \in Users \cup {Org}, NEW a \in Account, Announcing(kinds, s, a)
    PROVE  /\ EventsOK' /\ OrgOK' /\ \A u \in Users : UserOK(u)'
           /\ \A S \in SUBSET Users : Calm(S)
<1>1. /\ events' \subseteq Event /\ clock' \in Seq /\ clock' > clock /\ events \subseteq events'
      /\ \A e \in events' \ events :
            e.kind \in kinds /\ e.of = s /\ e.account = a /\ e.seq = clock'
      /\ \A k \in kinds : \E e \in events' :
            e.kind = k /\ e.of = s /\ e.account = a /\ e.seq = clock'
  BY NewEvents DEF MirrorInv, Announcing
<1>2. /\ events \subseteq Event /\ clock \in Seq
      /\ accounts \in [Users -> Account] /\ accounts' \in [Users -> Account]
  BY DEF MirrorInv, MirrorTypes
<1>3. \A u \in Users : accounts[u] \in Nat /\ accounts'[u] \in Nat /\ accounts[u] <= accounts'[u]
  BY <1>2, BoundsAssumption DEF Announcing, Account
<1>4. a \in Nat /\ clock \in Nat /\ clock' \in Nat
  BY <1>1, <1>2, BoundsAssumption DEF Seq, Account
<1>5. \A e \in events' : e.seq \in Nat /\ e.account \in Nat /\ e.of \in Users \cup {Org}
  BY <1>1, BoundsAssumption DEF Event, Seq, Account
<1>6. \A e \in events : EventOK(e)
  BY DEF MirrorInv, EventsOK
<1>7. ASSUME NEW e \in events'  PROVE EventOK(e)'
  <2>1. CASE e \in events
    <3>1. e.of # Org => e.account <= accounts'[e.of]
      BY <1>3, <1>5, <1>6, <2>1 DEF EventOK
    <3>2. e.seq <= clock'
      BY <1>1, <1>4, <1>5, <1>6, <2>1 DEF EventOK
    <3> QED
      BY <1>6, <2>1, <3>1, <3>2 DEF EventOK
  <2>2. CASE e \notin events
    <3>1. e.kind \in kinds /\ e.of = s /\ e.account = a /\ e.seq = clock'
      BY <1>1, <2>2
    <3>2. e.kind \in OrgKinds <=> e.of = Org
      BY <3>1 DEF Announcing, UserKinds, OrgKinds
    <3>3. e.kind # "organization.created"
      BY <3>1, <3>2 DEF Announcing, OrgKinds
    <3> QED
      BY <1>1, <1>4, <3>1, <3>2, <3>3 DEF EventOK, Announcing
  <2> QED
    BY <2>1, <2>2
<1>8. ASSUME NEW o \in events', NEW e \in events', o.kind = "user.created",
             e.kind # "user.created", o.of = e.of, o.account = e.account
      PROVE  o.seq < e.seq
  <2>1. CASE e \in events /\ o \in events
    BY <1>8, <2>1 DEF MirrorInv, EventsOK
  <2>2. CASE e \notin events
    <3>1. e.kind \in kinds /\ e.seq = clock'
      BY <1>1, <2>2
    <3>2. "user.created" \notin kinds
      BY <1>8, <3>1 DEF Announcing
    <3>3. o \in events
      BY <1>1, <1>8, <3>2
    <3> QED
      BY <1>1, <1>4, <1>5, <1>6, <3>1, <3>3 DEF EventOK
  <2>3. CASE e \in events /\ o \notin events
    <3>1. "user.created" \in kinds /\ o.of = s /\ o.account = a
      BY <1>1, <1>8, <2>3
    <3>2. e.of # Org
      BY <1>8, <3>1 DEF Announcing, OrgKinds
    <3>3. e.account <= accounts[s] /\ accounts[s] < a /\ s \in Users
      BY <1>6, <1>8, <2>3, <3>1, <3>2 DEF EventOK, Announcing
    <3> QED
      BY <1>3, <1>4, <1>5, <1>8, <3>1, <3>3
  <2> QED
    BY <2>1, <2>2, <2>3
<1>9. EventsOK'
  BY <1>7, <1>8 DEF EventsOK
<1>10. OrgOK'
  BY <1>1 DEF MirrorInv, OrgOK, Announcing, rows
<1>11. \A u \in Users : Excused(u) => Excused(u)'
  BY <1>1 DEF Excused, Announcing
<1>12. ASSUME NEW u \in Users, u \notin disturbed'  PROVE UserOK(u)'
  <2>1. u \notin disturbed /\ UserOK(u) /\ access'[u] = access[u] /\ clerkId'[u] = clerkId[u]
    BY <1>12 DEF MirrorInv, Announcing, rows
  <2>2. ASSUME NEW b \in Account, b > 0, b <= accounts'[u]
        PROVE  \/ clerkId'[u] = b
               \/ \E o \in events' : o.kind = "user.created" /\ o.of = u /\ o.account = b
    <3>1. CASE b <= accounts[u]
      BY <1>1, <2>1, <2>2, <3>1 DEF UserOK
    <3>2. CASE ~(b <= accounts[u])
      <4>1. b \in Nat
        BY BoundsAssumption DEF Account
      <4>2. u = s /\ "user.created" \in kinds /\ accounts'[u] = a /\ a = accounts[u] + 1
        BY <2>2, <3>2 DEF Announcing
      <4>3. b = a
        BY <1>3, <2>2, <3>2, <4>1, <4>2
      <4> QED
        BY <1>1, <4>2, <4>3
    <3> QED
      BY <3>1, <3>2
  <2>3. ASSUME NEW e \in events', e.kind = "membership.created", e.of = u
        PROVE  \/ u \in members' \/ ~orgLive'
               \/ \E o \in events' : o.kind = "membership.deleted" /\ o.of = u /\ e.seq < o.seq
    <3>1. CASE e \notin events
      BY <1>1, <2>3, <3>1 DEF Announcing
    <3>2. CASE e \in events /\ ~(u \in members \/ ~orgLive)
      BY <1>1, <2>1, <2>3, <3>2 DEF UserOK
    <3>3. CASE e \in events /\ (u \in members \/ ~orgLive)
      <4>1. u \in members' \/ ~orgLive' \/ (s = u /\ "membership.deleted" \in kinds)
        BY <3>3 DEF Announcing
      <4>2. e.seq < clock'
        BY <1>1, <1>4, <1>5, <1>6, <3>3 DEF EventOK
      <4> QED
        BY <1>1, <4>1, <4>2
    <3> QED
      BY <3>1, <3>2, <3>3
  <2>4. access'[u] = "active" => Excused(u)'
    BY <1>11, <2>1 DEF UserOK
  <2> QED
    BY <2>2, <2>3, <2>4 DEF UserOK
<1>13. \A u \in Users : UserOK(u)'
  BY <1>12 DEF UserOK
<1>14. ASSUME NEW S \in SUBSET Users  PROVE Calm(S)
  <2>1. clock <= clock' /\ clock' # clock /\ \A o \in events' \ events : o.seq > clock
    BY <1>1, <1>4
  <2>2. UNCHANGED <<profile, clerkId, access, orgRow, disturbed>>
    BY DEF Announcing, rows
  <2> QED
    BY <1>1, <1>11, <2>1, <2>2 DEF Calm
<1> QED
  BY <1>9, <1>10, <1>13, <1>14

\* A step of Clerk's: no call is at work.
LEMMA ClerkStep ==
    ASSUME MirrorInv, MirrorTypes', EventsOK', OrgOK', \A u \in Users : UserOK(u)',
           UNCHANGED <<pc, frame>>, Calm({})
    PROVE  MirrorInv'
<1>1. ASSUME NEW d \in Calls  PROVE CallOK(d)'
  <2>1. frame[d] \in Frame
    BY DEF MirrorInv, MirrorTypes
  <2>2. Keeps(d)
    BY <2>1 DEF Keeps
  <2> QED
    BY <2>2, OtherCall
<1>2. Crossing'
  BY DEF MirrorInv, Crossing, Concerns, Calm
<1> QED
  BY <1>1, <1>2 DEF MirrorInv

LEMMA ClerkAnnounces ==
    ASSUME MirrorInv, NEW kinds \in SUBSET (UserKinds \cup OrgKinds),
           NEW s \in Users \cup {Org}, NEW a \in Account, Announcing(kinds, s, a),
           UNCHANGED <<pc, frame, held>>, accounts' \in [Users -> Account],
           members' \subseteq live', live' \subseteq Users, orgLive' \in BOOLEAN,
           \A u \in live' : accounts'[u] > 0
    PROVE  MirrorInv'
<1>1. events' \subseteq Event /\ clock' \in Seq
  BY NewEvents DEF MirrorInv, Announcing
<1>2. MirrorTypes'
  BY <1>1 DEF MirrorInv, MirrorTypes, Announcing, rows
<1>3. EventsOK' /\ OrgOK' /\ (\A u \in Users : UserOK(u)') /\ Calm({})
  BY <1>2, Announced
<1> QED
  BY <1>2, <1>3, ClerkStep

LEMMA OfSignUp == ASSUME MirrorInv, NEW u \in Users, SignUp(u)  PROVE MirrorInv'
<1>1. PICK kinds, a : kinds = {"user.created"} /\ a = accounts[u] + 1
  OBVIOUS
<1>2. /\ accounts \in [Users -> Account] /\ accounts[u] \in Account /\ accounts[u] < MaxAccounts
      /\ members \subseteq live /\ live \subseteq Users /\ orgLive \in BOOLEAN
      /\ \A v \in live : accounts[v] > 0
  BY DEF MirrorInv, MirrorTypes, SignUp
<1>3. a \in Account /\ a > accounts[u] /\ a > 0
  BY <1>1, <1>2, BoundsAssumption DEF Account
<1>4. accounts' = [accounts EXCEPT ![u] = a] /\ Announce(kinds, u, a)
  BY <1>1, Zenon DEF SignUp
<1>5. /\ UNCHANGED <<members, orgLive, rows, pc, frame, history>> /\ live' = live \cup {u}
  BY DEF SignUp
<1>6. kinds \in SUBSET (UserKinds \cup OrgKinds) /\ kinds \cap OrgKinds = {} /\ u # Org
  BY <1>1, UsersAssumption DEF UserKinds, OrgKinds
<1>7. a <= accounts'[u]
  BY <1>2, <1>3, <1>4, BoundsAssumption DEF Account
<1>8. \A v \in Users : \/ accounts'[v] = accounts[v]
                       \/ /\ v = u /\ "user.created" \in kinds
                          /\ accounts'[v] = a /\ a = accounts[v] + 1
  BY <1>1, <1>2, <1>4
<1>9. Announcing(kinds, u, a)
  BY <1>1, <1>3, <1>4, <1>5, <1>6, <1>7, <1>8 DEF Announcing, history
<1>10. accounts' \in [Users -> Account] /\ \A v \in live' : accounts'[v] > 0
  BY <1>2, <1>3, <1>4, <1>5
<1> QED
  BY <1>2, <1>3, <1>5, <1>6, <1>9, <1>10, ClerkAnnounces DEF history

LEMMA OfDeleteAccount == ASSUME MirrorInv, NEW u \in Users, DeleteAccount(u)  PROVE MirrorInv'
<1>1. PICK kinds, a : /\ kinds = {"user.deleted"} \cup
                                 IF u \in members THEN {"membership.deleted"} ELSE {}
                      /\ a = accounts[u]
  OBVIOUS
<1>2. /\ accounts \in [Users -> Account] /\ a \in Account /\ a > 0
      /\ members \subseteq live /\ live \subseteq Users /\ orgLive \in BOOLEAN
      /\ \A v \in live : accounts[v] > 0
  BY <1>1 DEF MirrorInv, MirrorTypes, DeleteAccount
<1>3. Announce(kinds, u, a)
  BY <1>1, Zenon DEF DeleteAccount
<1>4. /\ UNCHANGED <<accounts, orgLive, rows, pc, frame, history>>
      /\ live' = live \ {u} /\ members' = members \ {u}
  BY DEF DeleteAccount
<1>5. /\ kinds \in SUBSET (UserKinds \cup OrgKinds) /\ kinds \cap OrgKinds = {} /\ u # Org
      /\ "user.created" \notin kinds /\ "membership.created" \notin kinds
      /\ u \in members => "membership.deleted" \in kinds
  BY <1>1, UsersAssumption DEF UserKinds, OrgKinds
<1>6. a <= accounts'[u]
  BY <1>1, <1>2, <1>4, BoundsAssumption DEF Account
<1>7. Announcing(kinds, u, a)
  BY <1>2, <1>3, <1>4, <1>5, <1>6 DEF Announcing, history
<1> QED
  BY <1>2, <1>4, <1>5, <1>7, ClerkAnnounces DEF history

LEMMA OfJoin == ASSUME MirrorInv, NEW u \in Users, Join(u)  PROVE MirrorInv'
<1>1. PICK kinds, a : kinds = {"membership.created"} /\ a = accounts[u]
  OBVIOUS
<1>2. /\ accounts \in [Users -> Account] /\ a \in Account /\ a > 0
      /\ members \subseteq live /\ live \subseteq Users /\ orgLive \in BOOLEAN
      /\ u \in live /\ \A v \in live : accounts[v] > 0
  BY <1>1 DEF MirrorInv, MirrorTypes, Join
<1>3. Announce(kinds, u, a)
  BY <1>1, Zenon DEF Join
<1>4. UNCHANGED <<accounts, live, orgLive, rows, pc, frame, history>> /\ members' = members \cup {u}
  BY DEF Join
<1>5. /\ kinds \in SUBSET (UserKinds \cup OrgKinds) /\ kinds \cap OrgKinds = {} /\ u # Org
      /\ "user.created" \notin kinds
  BY <1>1, UsersAssumption DEF UserKinds, OrgKinds
<1>6. a <= accounts'[u]
  BY <1>1, <1>2, <1>4, BoundsAssumption DEF Account
<1>7. Announcing(kinds, u, a)
  BY <1>2, <1>3, <1>4, <1>5, <1>6 DEF Announcing, history
<1> QED
  BY <1>2, <1>4, <1>5, <1>7, ClerkAnnounces DEF history

LEMMA OfLeave == ASSUME MirrorInv, NEW u \in Users, Leave(u)  PROVE MirrorInv'
<1>1. PICK kinds, a : kinds = {"membership.deleted"} /\ a = accounts[u]
  OBVIOUS
<1>2. /\ accounts \in [Users -> Account] /\ a \in Account /\ a > 0
      /\ members \subseteq live /\ live \subseteq Users /\ orgLive \in BOOLEAN
      /\ \A v \in live : accounts[v] > 0
  BY <1>1 DEF MirrorInv, MirrorTypes, Leave
<1>3. Announce(kinds, u, a)
  BY <1>1, Zenon DEF Leave
<1>4. UNCHANGED <<accounts, live, orgLive, rows, pc, frame, history>> /\ members' = members \ {u}
  BY DEF Leave
<1>5. /\ kinds \in SUBSET (UserKinds \cup OrgKinds) /\ kinds \cap OrgKinds = {} /\ u # Org
      /\ "user.created" \notin kinds /\ "membership.created" \notin kinds
      /\ "membership.deleted" \in kinds
  BY <1>1, UsersAssumption DEF UserKinds, OrgKinds
<1>6. a <= accounts'[u]
  BY <1>1, <1>2, <1>4, BoundsAssumption DEF Account
<1>7. Announcing(kinds, u, a)
  BY <1>2, <1>3, <1>4, <1>5, <1>6 DEF Announcing, history
<1> QED
  BY <1>2, <1>4, <1>5, <1>7, ClerkAnnounces DEF history

LEMMA OfChangeRole == ASSUME MirrorInv, NEW u \in Users, ChangeRole(u)  PROVE MirrorInv'
<1>1. PICK kinds, a : kinds = {"membership.created"} /\ a = accounts[u]
  OBVIOUS
<1>2. /\ accounts \in [Users -> Account] /\ a \in Account /\ a > 0
      /\ members \subseteq live /\ live \subseteq Users /\ orgLive \in BOOLEAN
      /\ u \in members /\ \A v \in live : accounts[v] > 0
  BY <1>1 DEF MirrorInv, MirrorTypes, ChangeRole
<1>3. Announce(kinds, u, a)
  BY <1>1, Zenon DEF ChangeRole
<1>4. UNCHANGED <<accounts, live, members, orgLive, rows, pc, frame, history>>
  BY DEF ChangeRole, clerk
<1>5. /\ kinds \in SUBSET (UserKinds \cup OrgKinds) /\ kinds \cap OrgKinds = {} /\ u # Org
      /\ "user.created" \notin kinds
  BY <1>1, UsersAssumption DEF UserKinds, OrgKinds
<1>6. a <= accounts'[u]
  BY <1>1, <1>2, <1>4, BoundsAssumption DEF Account
<1>7. Announcing(kinds, u, a)
  BY <1>2, <1>3, <1>4, <1>5, <1>6 DEF Announcing, history
<1> QED
  BY <1>2, <1>4, <1>5, <1>7, ClerkAnnounces DEF history

LEMMA OfDeleteOrg == ASSUME MirrorInv, DeleteOrg  PROVE MirrorInv'
<1>1. PICK kinds, a : kinds = {"organization.deleted"} /\ a = 0
  OBVIOUS
<1>2. /\ accounts \in [Users -> Account] /\ a \in Account
      /\ members \subseteq live /\ live \subseteq Users /\ orgLive
      /\ \A v \in live : accounts[v] > 0
  BY <1>1, BoundsAssumption DEF MirrorInv, MirrorTypes, DeleteOrg, Account
<1>3. Announce(kinds, Org, a)
  BY <1>1, Zenon DEF DeleteOrg
<1>4. UNCHANGED <<accounts, live, rows, pc, frame, history>> /\ members' = {} /\ ~orgLive'
  BY DEF DeleteOrg
<1>5. /\ kinds \in SUBSET (UserKinds \cup OrgKinds) /\ kinds \cap OrgKinds # {}
      /\ "user.created" \notin kinds /\ "membership.created" \notin kinds
      /\ "organization.deleted" \in kinds
  BY <1>1 DEF UserKinds, OrgKinds
<1>6. Announcing(kinds, Org, a)
  BY <1>1, <1>2, <1>3, <1>4, <1>5 DEF Announcing, history
<1>7. orgLive' \in BOOLEAN
  BY DEF DeleteOrg
<1> QED
  BY <1>2, <1>4, <1>5, <1>6, <1>7, ClerkAnnounces DEF history

LEMMA OfGiveUp == ASSUME MirrorInv, NEW e \in events, GiveUp(e)  PROVE MirrorInv'
<1>1. /\ events' = events \ {e} /\ disturbed' = disturbed \cup {e.of}
      /\ UNCHANGED <<accounts, live, members, orgLive, clock, profile, clerkId, access, orgRow,
                     pc, frame, held>>
  BY DEF GiveUp, clerk, rows
<1>2. events \subseteq Event /\ e.of \in Users \cup {Org} /\ clock <= clock
  BY BoundsAssumption DEF MirrorInv, MirrorTypes, Event, Seq
<1>3. MirrorTypes'
  BY <1>1, <1>2 DEF MirrorInv, MirrorTypes
<1>4. EventsOK'
  BY <1>1 DEF MirrorInv, EventsOK, EventOK
<1>5. \A o \in events : o.kind \in OrgKinds <=> o.of = Org
  BY DEF MirrorInv, EventsOK, EventOK
<1>6. OrgOK'
  <2>1. Org \notin disturbed' => \A o \in events : o.of = Org => o \in events'
    BY <1>1
  <2>2. \A o \in events : o.kind \in {"organization.created", "organization.deleted"} => o.of = Org
    BY <1>5 DEF OrgKinds
  <2> QED
    BY <1>1, <2>1, <2>2 DEF MirrorInv, OrgOK
<1>7. \A u \in Users : u \notin disturbed' => \A o \in events : o.of = u => o \in events'
  BY <1>1
<1>8. \A u \in Users : u \notin disturbed' /\ Excused(u) => Excused(u)'
  BY <1>1, <1>7 DEF Excused
<1>9. ASSUME NEW u \in Users, u \notin disturbed'  PROVE UserOK(u)'
  <2>1. u \notin disturbed /\ UserOK(u) /\ events' \subseteq events
    BY <1>1, <1>9 DEF MirrorInv
  <2> QED
    BY <1>1, <1>7, <1>8, <1>9, <2>1 DEF UserOK
<1>10. \A u \in Users : UserOK(u)'
  BY <1>9 DEF UserOK
<1>11. Calm({})
  BY <1>1, <1>2, <1>8 DEF Calm
<1> QED
  BY <1>1, <1>3, <1>4, <1>6, <1>10, <1>11, ClerkStep

\* A call that announces something.
LEMMA CallAnnounces ==
    ASSUME MirrorInv, NEW c \in Calls, NEW l \in CallAt, NEW f \in Frame,
           NEW kinds \in SUBSET (UserKinds \cup OrgKinds),
           NEW u \in Users, NEW a \in Account, Announcing(kinds, u, a),
           pc' = [pc EXCEPT ![c] = l], frame' = [frame EXCEPT ![c] = f],
           UNCHANGED <<accounts, live, orgLive, held>>, members' \subseteq live,
           f.user = frame[c].user \/ f = NoFrame,
           f.was /\ f.alone => frame[c].was /\ frame[c].alone,
           MirrorTypes' => Sound(l, f)'
    PROVE  MirrorInv'
<1>1. events' \subseteq Event /\ clock' \in Seq
  BY NewEvents DEF MirrorInv, Announcing
<1>2. MirrorTypes'
  BY <1>1 DEF MirrorInv, MirrorTypes, Announcing, rows
<1>3. Concerns(frame[c]) \in SUBSET Users
  BY DEF Concerns
<1>4. EventsOK' /\ OrgOK' /\ (\A v \in Users : UserOK(v)') /\ Calm(Concerns(frame[c]))
  BY <1>2, <1>3, Announced
<1>5. pc'[c] = l /\ frame'[c] = f /\ \A d \in Calls \ {c} : Keeps(d)
  BY Untouched DEF MirrorInv
<1> QED
  BY <1>2, <1>4, <1>5, StepOK

LEMMA OfMirrorRole == ASSUME MirrorInv, NEW c \in Calls, MirrorRole(c)  PROVE MirrorInv'
<1>1. PICK k, f, u, kinds, a :
         /\ k = pc[c] /\ f = frame[c] /\ u = f.user
         /\ kinds = {"membership.created"} /\ a = accounts[u]
  OBVIOUS
<1>2. k = "mirror_role" /\ u \in Users
  BY <1>1, InHand DEF MirrorRole, PlaceOK,
     CallAt, EventOnly, VisitOnly, Shared, OperatorAt, OrgAt,
     OrgKinds, KnowsProfile, KnowsOrg
<1>3. CASE UNCHANGED <<events, clock>>
  <2>1. Return(c) /\ UNCHANGED <<outside, rows, history>>
    BY <1>3 DEF MirrorRole, outside
  <2> QED
    BY <2>1, Returns
<1>4. CASE MemberAs(u, f.account) /\ Announce(kinds, u, a)
  <2>1. /\ accounts \in [Users -> Account] /\ a \in Account /\ a > 0
        /\ members \subseteq live /\ u \in members
    BY <1>1, <1>4 DEF MirrorInv, MirrorTypes, MemberAs
  <2>2. UNCHANGED <<accounts, live, members, orgLive, rows, disturbed, held>>
    BY DEF MirrorRole, clerk, history
  <2>3. /\ kinds \in SUBSET (UserKinds \cup OrgKinds) /\ kinds \cap OrgKinds = {} /\ u # Org
        /\ "user.created" \notin kinds
    BY <1>1, <1>2, UsersAssumption DEF UserKinds, OrgKinds
  <2>4. a <= accounts'[u]
    BY <1>1, <2>1, <2>2, BoundsAssumption DEF Account
  <2>5. Announcing(kinds, u, a)
    BY <1>4, <2>1, <2>2, <2>3, <2>4 DEF Announcing
  <2>6. pc' = [pc EXCEPT ![c] = "idle"] /\ frame' = [frame EXCEPT ![c] = NoFrame]
    BY DEF MirrorRole, Return, Goto
  <2>7. "idle" \in CallAt /\ NoFrame \in Frame /\ ~NoFrame.was
    BY NoFrameIsAFrame DEF CallAt
  <2>8. MirrorTypes' => Sound("idle", NoFrame)'
    BY IdleIsSound
  <2> QED
    BY <1>2, <2>1, <2>2, <2>3, <2>5, <2>6, <2>7, <2>8, CallAnnounces
<1>5. UNCHANGED <<events, clock>> \/ (MemberAs(u, f.account) /\ Announce(kinds, u, a))
  BY <1>1, Zenon DEF MirrorRole
<1> QED
  BY <1>3, <1>4, <1>5

LEMMA OfAddMember == ASSUME MirrorInv, NEW c \in Calls, AddMember(c)  PROVE MirrorInv'
<1>1. PICK k, f, u, kinds, a :
         /\ k = pc[c] /\ f = frame[c] /\ u = f.user
         /\ kinds = {"membership.created"} /\ a = accounts[u]
  OBVIOUS
<1>2. /\ k = "add_member" /\ u \in Users /\ Sound(k, f) /\ f \in Frame
      /\ f.event = None /\ f.add = {} /\ f.now = None /\ ~f.was
  BY <1>1, InHand DEF AddMember, PlaceOK,
     CallAt, EventOnly, VisitOnly, Shared, OperatorAt, OrgAt,
     OrgKinds, KnowsProfile, KnowsOrg
<1>3. /\ accounts \in [Users -> Account] /\ a \in Account /\ a > 0
      /\ members \subseteq live /\ u \in live /\ clock \in Seq
  BY <1>1 DEF MirrorInv, MirrorTypes, AddMember
<1>4. /\ UNCHANGED <<accounts, live, orgLive, profile, clerkId, access, orgRow, disturbed, held>>
      /\ members' = members \cup {u} /\ frame' = frame
  BY <1>1 DEF AddMember, rows, history
<1>5. Announce(kinds, u, a)
  BY <1>1, Zenon DEF AddMember
<1>6. /\ kinds \in SUBSET (UserKinds \cup OrgKinds) /\ kinds \cap OrgKinds = {} /\ u # Org
      /\ "user.created" \notin kinds
  BY <1>1, <1>2, UsersAssumption DEF UserKinds, OrgKinds
<1>7. a <= accounts'[u]
  BY <1>1, <1>3, <1>4, BoundsAssumption DEF Account
<1>8. Announcing(kinds, u, a)
  BY <1>3, <1>4, <1>5, <1>6, <1>7 DEF Announcing, rows
<1>9. "store_member" \in CallAt /\ pc' = [pc EXCEPT ![c] = "store_member"]
  BY DEF AddMember, Goto, CallAt, OperatorAt
<1>10. frame' = [frame EXCEPT ![c] = f]
  BY <1>1, <1>4 DEF MirrorInv, MirrorTypes
<1>11. clock' > clock /\ clock' \in Seq
  BY <1>2, <1>3, <1>5, <1>6, NewEvents DEF MirrorInv
<1>12. f.at <= clock' /\ Excused(u)'
  <2>1. f.at <= clock /\ f.at \in Seq
    BY <1>1, InHand DEF KnownOK
  <2>2. f.at <= clock'
    BY <1>3, <1>11, <2>1, BoundsAssumption DEF Seq
  <2> QED
    BY <1>4, <2>2 DEF Excused
<1>13. Sound("store_member", f)'
  BY <1>1, <1>2, <1>4, <1>12 DEF Sound, PlaceOK, KnownOK, InTurn, FreshOK, VisitOK,
     CallAt, EventOnly, VisitOnly, Shared, OperatorAt, OrgAt,
     OrgKinds, KnowsProfile, KnowsOrg
<1> QED
  BY <1>1, <1>2, <1>3, <1>4, <1>6, <1>8, <1>9, <1>10, <1>13, CallAnnounces

LEMMA OfRemoveMember == ASSUME MirrorInv, NEW c \in Calls, RemoveMember(c)  PROVE MirrorInv'
<1>1. PICK k, f, u, kinds, a :
         /\ k = pc[c] /\ f = frame[c] /\ u = f.user
         /\ kinds = {"membership.deleted"} /\ a = accounts[u]
  OBVIOUS
<1>2. /\ k = "remove_member" /\ u \in Users /\ Sound(k, f) /\ f \in Frame
      /\ f.event = None /\ f.add = {} /\ f.now = None /\ ~f.was
  BY <1>1, InHand DEF RemoveMember, PlaceOK,
     CallAt, EventOnly, VisitOnly, Shared, OperatorAt, OrgAt,
     OrgKinds, KnowsProfile, KnowsOrg
<1>3. /\ UNCHANGED <<accounts, live, orgLive, profile, clerkId, access, orgRow, disturbed, held>>
      /\ frame' = frame
  BY <1>1 DEF RemoveMember, rows, history
<1>4. "remove_row" \in CallAt /\ pc' = [pc EXCEPT ![c] = "remove_row"]
  BY DEF RemoveMember, Goto, CallAt, OperatorAt
<1>5. CASE UNCHANGED <<members, events, clock>>
  <2>1. Sound("remove_row", f)
    BY <1>2 DEF Sound, PlaceOK, KnownOK, InTurn, FreshOK, VisitOK,
     CallAt, EventOnly, VisitOnly, Shared, OperatorAt, OrgAt,
     OrgKinds, KnowsProfile, KnowsOrg
  <2>2. UNCHANGED <<outside, rows, history>>
    BY <1>3, <1>5 DEF outside, clerk, rows, history
  <2> QED
    BY <1>1, <1>3, <1>4, <2>1, <2>2, Moves DEF Goto
<1>6. CASE MemberAs(u, f.account) /\ members' = members \ {u} /\ Announce(kinds, u, a)
  <2>1. /\ accounts \in [Users -> Account] /\ a \in Account /\ a > 0
        /\ members \subseteq live /\ u \in members /\ clock \in Seq
    BY <1>1, <1>6 DEF MirrorInv, MirrorTypes, MemberAs
  <2>2. /\ kinds \in SUBSET (UserKinds \cup OrgKinds) /\ kinds \cap OrgKinds = {} /\ u # Org
        /\ "user.created" \notin kinds /\ "membership.created" \notin kinds
        /\ "membership.deleted" \in kinds
    BY <1>1, <1>2, UsersAssumption DEF UserKinds, OrgKinds
  <2>3. a <= accounts'[u]
    BY <1>1, <1>3, <2>1, BoundsAssumption DEF Account
  <2>4. Announcing(kinds, u, a)
    BY <1>3, <1>6, <2>1, <2>2, <2>3 DEF Announcing, rows
  <2>5. frame' = [frame EXCEPT ![c] = f]
    BY <1>1, <1>3 DEF MirrorInv, MirrorTypes
  <2>6. clock' > clock /\ clock' \in Seq
    BY <1>2, <1>6, <2>1, <2>2, NewEvents DEF MirrorInv
  <2>7. f.at <= clock'
    <3>1. f.at <= clock /\ f.at \in Seq
      BY <1>1, InHand DEF KnownOK
    <3> QED
      BY <2>1, <2>6, <3>1, BoundsAssumption DEF Seq
  <2>8. Sound("remove_row", f)'
    BY <1>1, <1>2, <1>3, <2>7 DEF Sound, PlaceOK, KnownOK, InTurn, FreshOK, VisitOK,
     CallAt, EventOnly, VisitOnly, Shared, OperatorAt, OrgAt,
     OrgKinds, KnowsProfile, KnowsOrg
  <2>9. members' \subseteq live
    BY <1>6, <2>1
  <2> QED
    BY <1>1, <1>2, <1>3, <1>4, <2>1, <2>2, <2>4, <2>5, <2>8, <2>9, CallAnnounces
<1>7. \/ UNCHANGED <<members, events, clock>>
      \/ MemberAs(u, f.account) /\ members' = members \ {u} /\ Announce(kinds, u, a)
  BY <1>1, Zenon DEF RemoveMember
<1> QED
  BY <1>5, <1>6, <1>7

-----------------------------------------------------------------------------
(***************************************************************************)
(* An event is acknowledged: whatever it excused has been done.            *)
(***************************************************************************)
LEMMA OfAcknowledge == ASSUME MirrorInv, NEW c \in Calls, Acknowledge(c)  PROVE MirrorInv'
<1>1. PICK k, f, e : k = pc[c] /\ f = frame[c] /\ e = f.event
  OBVIOUS
<1>2. /\ k = "log" /\ Sound(k, f) /\ e # None /\ e \in Event
      /\ f.user = IF e.of = Org THEN None ELSE e.of
      /\ e.kind \in OrgKinds <=> e.of = Org
      /\ f.account = e.account
  <2>1. k = "log" /\ Sound(k, f) /\ e \in Event \cup {None} /\ PlaceOK(k, f)
    BY <1>1, InHand DEF Acknowledge
  <2> QED
    BY <1>1, <2>1 DEF PlaceOK, EventOnly
<1>3. /\ events' = events \ {e}
      /\ UNCHANGED <<accounts, live, members, orgLive, clock, profile, clerkId, access, orgRow,
                     disturbed, held>>
      /\ pc' = [pc EXCEPT ![c] = "idle"] /\ frame' = [frame EXCEPT ![c] = NoFrame]
  BY <1>1 DEF Acknowledge, Return, Goto, clerk, rows, history
<1>4. "idle" \in CallAt /\ NoFrame \in Frame /\ ~NoFrame.was
  BY NoFrameIsAFrame DEF CallAt
<1>5. MirrorTypes'
  BY <1>3, <1>4 DEF MirrorInv, MirrorTypes
<1>6. EventsOK'
  BY <1>3 DEF MirrorInv, EventsOK, EventOK
<1>7. e.of \in Users \cup {Org} /\ e.seq \in Seq /\ \A o \in events : o.seq \in Seq
  BY <1>2 DEF Event, MirrorInv, MirrorTypes
<1>8. OrgOK'
  <2> SUFFICES ASSUME Org \notin disturbed
               PROVE  /\ orgRow = "none" => \E o \in events' : o.kind = "organization.created"
                      /\ ~orgLive => orgRow = "archived"
                                     \/ \E o \in events' : o.kind = "organization.deleted"
    BY <1>3 DEF OrgOK
  <2>1. /\ orgRow = "none" => \E o \in events : o.kind = "organization.created"
        /\ ~orgLive => orgRow = "archived" \/ \E o \in events : o.kind = "organization.deleted"
    BY DEF MirrorInv, OrgOK
  <2>2. e.kind = "organization.created" => orgRow # "none"
    BY <1>1, <1>2 DEF Sound, KnownOK
  <2>3. e.kind = "organization.deleted" => orgRow = "archived"
    BY <1>1, <1>2 DEF Sound, FreshOK, OrgKinds
  <2> QED
    BY <1>3, <2>1, <2>2, <2>3
<1>9. ASSUME NEW u \in Users, u \notin disturbed'  PROVE UserOK(u)'
  <2>1. UserOK(u) /\ u \notin disturbed
    BY <1>3, <1>9 DEF MirrorInv
  <2>2. CASE e.of # u
    <3>1. \A o \in events : o.of = u => o \in events'
      BY <1>3, <2>2
    <3>2. events' \subseteq events
      BY <1>3
    <3>3. Excused(u) => Excused(u)'
      BY <1>3, <3>1 DEF Excused
    <3> QED
      BY <1>3, <2>1, <3>1, <3>2, <3>3 DEF UserOK
  <2>3. CASE e.of = u
    <3>1. /\ e.kind = "user.created" => clerkId[u] = e.account
          /\ e.kind = "membership.deleted" => access[u] = "none"
          /\ \A o \in events : o.of = u => e.seq <= o.seq
      BY <1>1, <1>2, <2>1, <2>3, UsersAssumption DEF Sound, FreshOK, InTurn
    <3>2. ASSUME NEW a \in Account, a > 0, a <= accounts'[u]
          PROVE  \/ clerkId'[u] = a
                 \/ \E o \in events' : o.kind = "user.created" /\ o.of = u /\ o.account = a
      BY <1>3, <2>1, <3>1, <3>2 DEF UserOK
    <3>3. ASSUME NEW m \in events', m.kind = "membership.created", m.of = u
          PROVE  \/ u \in members' \/ ~orgLive'
                 \/ \E o \in events' : o.kind = "membership.deleted" /\ o.of = u /\ m.seq < o.seq
      <4>1. m \in events /\ e.seq <= m.seq
        BY <1>3, <3>1, <3>3
      <4>2. CASE u \in members \/ ~orgLive
        BY <1>3, <4>2
      <4>3. CASE ~(u \in members \/ ~orgLive)
        <5>1. PICK o \in events : o.kind = "membership.deleted" /\ o.of = u /\ m.seq < o.seq
          BY <2>1, <3>3, <4>1, <4>3 DEF UserOK
        <5>2. e.seq < o.seq
          BY <1>7, <4>1, <5>1, BoundsAssumption DEF Seq
        <5>3. o # e
          BY <1>7, <5>2, BoundsAssumption DEF Seq
        <5> QED
          BY <1>3, <5>1, <5>3
      <4> QED
        BY <4>2, <4>3
    <3>4. access'[u] = "active" => Excused(u)'
      BY <1>3, <2>1, <3>1 DEF UserOK, Excused
    <3> QED
      BY <3>2, <3>3, <3>4 DEF UserOK
  <2> QED
    BY <2>2, <2>3
<1>10. \A u \in Users : UserOK(u)'
  BY <1>9 DEF UserOK
<1>11. e.of \in Users => e.of \in Concerns(f)
  BY <1>2, UsersAssumption DEF Concerns
<1>12. \A u \in Users \ Concerns(f) : Excused(u) => Excused(u)'
  BY <1>3, <1>11 DEF Excused
<1>13. clock <= clock
  BY BoundsAssumption DEF MirrorInv, MirrorTypes, Seq
<1>14. Calm(Concerns(f))
  BY <1>3, <1>7, <1>11, <1>12, <1>13 DEF Calm
<1>15. pc'[c] = "idle" /\ frame'[c] = NoFrame /\ \A d \in Calls \ {c} : Keeps(d)
  BY <1>3, Untouched DEF MirrorInv
<1>16. Sound("idle", NoFrame)'
  BY <1>5, IdleIsSound
<1> QED
  BY <1>1, <1>4, <1>5, <1>6, <1>8, <1>10, <1>14, <1>15, <1>16, StepOK

-----------------------------------------------------------------------------
(***************************************************************************)
(* A call begins: whom it meets is disturbed from then on.                 *)
(***************************************************************************)
LEMMA Enters ==
    ASSUME MirrorInv, NEW c \in Calls, NEW l \in CallAt, NEW f \in Frame,
           NEW late \in SUBSET (Users \cup {Org}), Enter(c, l, f, late),
           UNCHANGED <<outside, rows, held>>, l \notin {"idle", "launch"},
           PlaceOK(l, f), KnownOK(l, f), FreshOK(l, f), InTurn(f)',
           f.was => f.user \in members /\ accounts[f.user] = f.account /\ orgRow # "none"
    PROVE  MirrorInv'
<1> DEFINE others == {d \in Calls : Concerns(frame[d]) \cap Concerns(f) # {}}
           shared == {u \in Concerns(f) : \E d \in others : u \in Concerns(frame[d])}
<1>1. PICK b, g : b = (others = {} \/ ~f.was) /\ g = With_alone(f, b)
  OBVIOUS
<1>2. /\ pc[c] = "idle" /\ pc' = [pc EXCEPT ![c] = l]
      /\ frame' = [d \in Calls |->
                     IF d = c THEN g
                     ELSE IF d \in others THEN With_alone(frame[d], ~frame[d].was)
                     ELSE frame[d]]
      /\ disturbed' = disturbed \cup shared \cup late
  BY <1>1, Zenon DEF Enter, Goto, With_alone
<1>3. /\ g \in Frame /\ g.alone = b
      /\ g.event = f.event /\ g.user = f.user /\ g.account = f.account /\ g.seen = f.seen
      /\ g.org = f.org /\ g.add = f.add /\ g.now = f.now /\ g.was = f.was /\ g.at = f.at
  <2>1. b \in Truth /\ f \in Frame /\ g = With_alone(f, b)
    BY <1>1, Zenon DEF Truth
  <2> QED
    BY <2>1, Set_alone
<1>4. frame \in [Calls -> Frame] /\ pc \in [Calls -> CallAt] /\ disturbed \subseteq Users \cup {Org}
  BY DEF MirrorInv, MirrorTypes
<1>5. Concerns(frame[c]) = {}
  <2>1. frame[c] = NoFrame
    BY <1>2, InHand DEF PlaceOK
  <2> QED
    BY <2>1, NoFrameIsAFrame, UsersAssumption DEF Concerns
<1>6. Concerns(g) = Concerns(f) /\ Concerns(f) \subseteq Users
  BY <1>3 DEF Concerns
<1>7. c \notin others
  BY <1>5
<1>8. ASSUME NEW d \in Calls, d # c
      PROVE  /\ Keeps(d) /\ Concerns(frame'[d]) = Concerns(frame[d])
             /\ d \in others => ~(frame'[d].was /\ frame'[d].alone)
  <2>1. pc'[d] = pc[d] /\ frame[d] \in Frame
    BY <1>2, <1>4, <1>8
  <2>2. CASE d \in others
    <3>1. PICK h, v, w : h = frame[d] /\ v = (~h.was) /\ w = With_alone(h, v)
      OBVIOUS
    <3>2. frame'[d] = w
      BY <1>2, <1>8, <2>2, <3>1, Zenon
    <3>3. v \in Truth /\ h \in Frame /\ w = With_alone(h, v)
      BY <2>1, <3>1, Zenon DEF Truth
    <3>4. /\ w \in Frame /\ w.alone = v
          /\ w.event = h.event /\ w.user = h.user /\ w.account = h.account /\ w.seen = h.seen
          /\ w.org = h.org /\ w.add = h.add /\ w.now = h.now /\ w.was = h.was /\ w.at = h.at
      BY <3>3, Set_alone
    <3>5. ~(w.was /\ w.alone)
      BY <3>1, <3>4, Zenon
    <3>6. Concerns(w) = Concerns(h) /\ Concerns(NoFrame) = {}
      BY <3>4, NoFrameIsAFrame, UsersAssumption DEF Concerns
    <3>7. pc[d] # "idle"
      <4>1. PlaceOK(pc[d], h)
        BY <3>1, InHand
      <4> QED
        BY <2>2, <3>1, <3>6, <4>1 DEF PlaceOK
    <3> QED
      BY <2>1, <3>1, <3>2, <3>4, <3>5, <3>6, <3>7 DEF Keeps
  <2>3. CASE d \notin others
    <3>1. frame'[d] = frame[d]
      BY <1>2, <1>8, <2>3, Zenon
    <3> QED
      BY <2>1, <2>3, <3>1 DEF Keeps
  <2> QED
    BY <2>2, <2>3
<1>9. frame'[c] = g /\ pc'[c] = l
  BY <1>2, <1>4, Zenon
<1>10. frame' \in [Calls -> Frame] /\ pc' \in [Calls -> CallAt]
  <2>1. \A d \in Calls : frame'[d] \in Frame
    BY <1>3, <1>8, <1>9 DEF Keeps
  <2>2. frame' = [d \in Calls |-> frame'[d]]
    BY <1>2, Zenon
  <2> QED
    BY <1>2, <1>4, <2>1, <2>2
<1>11. \A d \in others : d \in Calls /\ Concerns(frame[d]) \cap Concerns(f) # {}
  OBVIOUS
<1>12. \A d \in Calls : d \notin others => Concerns(frame[d]) \cap Concerns(f) = {}
  OBVIOUS
<1>13. \A d \in Calls : Concerns(frame[d]) \cap Concerns(f) \subseteq shared
  OBVIOUS
<1>14. shared \subseteq Users
  BY <1>6
<1> HIDE DEF others, shared
<1>15. /\ UNCHANGED <<accounts, live, members, orgLive, events, clock, profile, clerkId, access,
                      orgRow, held>>
       /\ disturbed \subseteq disturbed' /\ disturbed' \subseteq Users \cup {Org}
  BY <1>2, <1>4, <1>14 DEF outside, clerk, rows
<1>16. MirrorTypes'
  BY <1>10, <1>15 DEF MirrorInv, MirrorTypes
<1>17. EventsOK' /\ OrgOK' /\ \A u \in Users : UserOK(u)'
  BY <1>15 DEF MirrorInv, EventsOK, EventOK, OrgOK, UserOK, Excused
<1>18. clock <= clock
  BY BoundsAssumption DEF MirrorInv, MirrorTypes, Seq
<1>19. Calm({})
  BY <1>15, <1>18 DEF Calm, Excused
<1>20. ASSUME NEW d \in Calls, d # c  PROVE CallOK(d)'
  BY <1>8, <1>16, <1>19, <1>20, OtherCall
<1>21. CallOK(c)'
  <2>1. PlaceOK(l, g)
    BY <1>3, SamePlace
  <2>2. KnownOK(l, g)' /\ InTurn(g)'
    BY <1>3, <1>15 DEF KnownOK, InTurn
  <2>3. FreshOK(l, g)'
    BY <1>3, <1>15 DEF FreshOK, Excused
  <2>4. VisitOK(l, g)'
    BY <1>3, <1>15 DEF VisitOK
  <2>5. Sound(l, g)'
    BY <2>1, <2>2, <2>3, <2>4 DEF Sound, PlaceOK
  <2> QED
    BY <1>9, <2>5 DEF CallOK
<1>22. g.was /\ g.alone => others = {}
  BY <1>1, <1>3, Zenon
<1>23. Crossing'
  <2>1. ASSUME NEW d \in Calls, d # c
        PROVE  /\ Concerns(frame'[d]) \cap Concerns(frame'[c]) \subseteq disturbed'
               /\ frame'[d].was /\ frame'[d].alone => Concerns(frame'[d]) \cap Concerns(frame'[c]) = {}
               /\ frame'[c].was /\ frame'[c].alone => Concerns(frame'[c]) \cap Concerns(frame'[d]) = {}
    BY <1>2, <1>6, <1>8, <1>9, <1>12, <1>13, <1>22, <2>1
  <2>2. ASSUME NEW d \in Calls, NEW e \in Calls, d # c, e # c, d # e
        PROVE  /\ Concerns(frame'[d]) \cap Concerns(frame'[e]) \subseteq disturbed'
               /\ frame'[d].was /\ frame'[d].alone => Concerns(frame'[d]) \cap Concerns(frame'[e]) = {}
    <3>1. /\ Concerns(frame[d]) \cap Concerns(frame[e]) \subseteq disturbed
          /\ frame[d].was /\ frame[d].alone => Concerns(frame[d]) \cap Concerns(frame[e]) = {}
      BY <2>2 DEF MirrorInv, Crossing
    <3>2. frame'[d].was /\ frame'[d].alone => frame[d].was /\ frame[d].alone
      BY <1>8, <2>2 DEF Keeps
    <3> QED
      BY <1>8, <1>15, <2>2, <3>1, <3>2
  <2> QED
    BY <2>1, <2>2 DEF Crossing, Concerns
<1> QED
  BY <1>16, <1>17, <1>20, <1>21, <1>23 DEF MirrorInv

LEMMA OfReceive == ASSUME MirrorInv, NEW c \in Calls, NEW e \in events, Receive(c, e)  PROVE MirrorInv'
<1>1. PICK w, z, f : /\ w = e.account /\ z = IF e.of = Org THEN None ELSE e.of
                     /\ f = With_event_account_user(NoFrame, e, w, z)
  OBVIOUS
<1>2. /\ e \in Event /\ e # None /\ EventOK(e) /\ events \subseteq Event
      /\ e.of \in Users \cup {Org} /\ e.account \in Account /\ e.seq \in Seq
  BY NoneAssumption DEF MirrorInv, MirrorTypes, EventsOK, Event, Account
<1>3. e \in Event \cup {None} /\ w \in Account /\ z \in Users \cup {Org, None} /\ NoFrame \in Frame
  BY <1>1, <1>2, NoFrameIsAFrame
<1>4. /\ f \in Frame /\ f.event = e /\ f.account = w /\ f.user = z
      /\ f.add = {} /\ f.now = None /\ f.was = FALSE /\ f.at = 0 /\ f.org = FALSE
  BY <1>1, <1>3, Set_event_account_user, NoFrameIsAFrame
<1>5. Enter(c, "find", f, Overtaking(e)) /\ UNCHANGED <<outside, rows, held>>
  BY <1>1, Zenon DEF Receive, With_event_account_user
<1>6. Overtaking(e) \in SUBSET (Users \cup {Org})
  BY <1>2 DEF Overtaking
<1>7. "find" \in CallAt /\ PlaceOK("find", f)
  <2>1. e.kind = "organization.deleted" => e.seq > 0
    BY <1>2 DEF EventOK
  <2>2. e.kind \in OrgKinds <=> e.of = Org
    BY <1>2 DEF EventOK
  <2> QED
    BY <1>1, <1>2, <1>4, <2>1, <2>2, UsersAssumption DEF PlaceOK,
     CallAt, EventOnly, VisitOnly, Shared, OperatorAt, OrgAt,
     OrgKinds, KnowsProfile, KnowsOrg
<1>8. KnownOK("find", f)
  <2>1. e.seq <= clock /\ 0 <= clock
    BY <1>2, BoundsAssumption DEF EventOK, MirrorInv, MirrorTypes, Seq
  <2> QED
    BY <1>4, <2>1 DEF KnownOK, KnowsProfile, KnowsOrg
<1>9. FreshOK("find", f)
  BY <1>4 DEF FreshOK
<1>10. InTurn(f)'
  <2> SUFFICES ASSUME e.of \notin disturbed', NEW o \in events, o.of = e.of
               PROVE  e.seq <= o.seq
    BY <1>4, <1>5 DEF InTurn, outside
  <2>1. Overtaking(e) \subseteq disturbed'
    BY <1>5 DEF Enter
  <2>2. ~(o.seq < e.seq)
    BY <2>1 DEF Overtaking
  <2>3. o.seq \in Seq
    BY <1>2 DEF Event
  <2> QED
    BY <1>2, <2>2, <2>3, BoundsAssumption DEF Seq
<1> QED
  BY <1>4, <1>5, <1>6, <1>7, <1>8, <1>9, <1>10, Enters

LEMMA OfVisit == ASSUME MirrorInv, NEW c \in Calls, NEW u \in Users, Visit(c, u)  PROVE MirrorInv'
<1>1. PICK w, z, y, f : /\ w = accounts[u] /\ z = Welcome(u) /\ y = clock
                        /\ f = With_user_account_was_at(NoFrame, u, w, z, y)
  OBVIOUS
<1>2. z \in Truth
  BY <1>1, Zenon DEF Truth, Welcome
<1>3. w \in Account /\ y \in Seq /\ u \in Users \cup {Org, None} /\ NoFrame \in Frame
  BY <1>1, NoFrameIsAFrame DEF MirrorInv, MirrorTypes
<1>4. /\ f \in Frame /\ f.user = u /\ f.account = w /\ f.was = z /\ f.at = y
      /\ f.event = NoFrame.event /\ f.add = NoFrame.add /\ f.now = NoFrame.now
      /\ f.org = NoFrame.org
  BY <1>1, <1>2, <1>3, Set_user_account_was_at
<1>5. f.event = None /\ f.add = {} /\ f.now = None /\ ~f.org
  BY <1>4, NoFrameIsAFrame
<1>6. f.was => f.user \in members /\ accounts[f.user] = f.account /\ orgRow # "none"
  BY <1>1, <1>4 DEF Welcome
<1>7. Enter(c, "context", f, {}) /\ UNCHANGED <<outside, rows, held>>
  BY <1>1, Zenon DEF Visit, With_user_account_was_at
<1>8. "context" \in CallAt /\ PlaceOK("context", f)
  BY <1>4, <1>5, UsersAssumption DEF PlaceOK,
     CallAt, EventOnly, VisitOnly, Shared, OperatorAt, OrgAt,
     OrgKinds, KnowsProfile, KnowsOrg
<1>9. KnownOK("context", f)
  BY <1>1, <1>3, <1>4, <1>5, BoundsAssumption DEF KnownOK, KnowsProfile, KnowsOrg, Seq
<1>10. FreshOK("context", f) /\ InTurn(f)'
  BY <1>5 DEF FreshOK, InTurn
<1>11. {} \in SUBSET (Users \cup {Org})
  OBVIOUS
<1> QED
  BY <1>4, <1>6, <1>7, <1>8, <1>9, <1>10, <1>11, Enters

LEMMA OfOperate ==
    ASSUME MirrorInv, NEW c \in Calls, NEW u \in Users, NEW o \in Operations, Operate(c, u, o)
    PROVE  MirrorInv'
<1>1. PICK f : f = [NoFrame EXCEPT !.user = u]
  OBVIOUS
<1>2. /\ f \in Frame /\ f.user = u /\ f.event = NoFrame.event /\ f.add = NoFrame.add
      /\ f.now = NoFrame.now /\ f.org = NoFrame.org /\ f.was = NoFrame.was /\ f.at = NoFrame.at
  BY <1>1, NoFrameIsAFrame, Set_user
<1>3. f.event = None /\ f.add = {} /\ f.now = None /\ ~f.org /\ ~f.was /\ f.at = 0
  BY <1>2, NoFrameIsAFrame
<1>4. Enter(c, o, f, {}) /\ UNCHANGED <<outside, rows, held>>
  BY <1>1 DEF Operate
<1>5. o \in CallAt /\ PlaceOK(o, f) /\ o \notin {"idle", "launch"}
  BY <1>2, <1>3, UsersAssumption DEF PlaceOK, Operations,
     CallAt, EventOnly, VisitOnly, Shared, OperatorAt, OrgAt,
     OrgKinds, KnowsProfile, KnowsOrg
<1>6. KnownOK(o, f)
  <2>1. 0 <= clock
    BY BoundsAssumption DEF MirrorInv, MirrorTypes, Seq
  <2> QED
    BY <1>2, <1>3, <2>1 DEF KnownOK, KnowsProfile, KnowsOrg, Operations
<1>7. FreshOK(o, f) /\ InTurn(f)'
  BY <1>3 DEF FreshOK, InTurn, Operations
<1>8. {} \in SUBSET (Users \cup {Org})
  OBVIOUS
<1> QED
  BY <1>2, <1>3, <1>4, <1>5, <1>6, <1>7, <1>8, Enters

LEMMA OfReconcile == ASSUME MirrorInv, NEW c \in Calls, Reconcile(c)  PROVE MirrorInv'
<1>1. PICK f : f = [NoFrame EXCEPT !.user = Org]
  OBVIOUS
<1>2. /\ f \in Frame /\ f.user = Org /\ f.event = NoFrame.event /\ f.add = NoFrame.add
      /\ f.now = NoFrame.now /\ f.org = NoFrame.org /\ f.was = NoFrame.was /\ f.at = NoFrame.at
  BY <1>1, NoFrameIsAFrame, Set_user
<1>3. f.event = None /\ f.add = {} /\ f.now = None /\ ~f.org /\ ~f.was /\ f.at = 0
  BY <1>2, NoFrameIsAFrame
<1>4. Enter(c, "reconcile", f, {}) /\ UNCHANGED <<outside, rows, held>>
  BY <1>1 DEF Reconcile
<1>5. "reconcile" \in CallAt /\ PlaceOK("reconcile", f)
  BY <1>2, <1>3, UsersAssumption DEF PlaceOK,
     CallAt, EventOnly, VisitOnly, Shared, OperatorAt, OrgAt,
     OrgKinds, KnowsProfile, KnowsOrg
<1>6. KnownOK("reconcile", f)
  <2>1. 0 <= clock
    BY BoundsAssumption DEF MirrorInv, MirrorTypes, Seq
  <2> QED
    BY <1>2, <1>3, <2>1 DEF KnownOK, KnowsProfile, KnowsOrg
<1>7. FreshOK("reconcile", f) /\ InTurn(f)'
  BY <1>3 DEF FreshOK, InTurn
<1>8. {} \in SUBSET (Users \cup {Org})
  OBVIOUS
<1> QED
  BY <1>2, <1>3, <1>4, <1>5, <1>6, <1>7, <1>8, Enters

-----------------------------------------------------------------------------
(***************************************************************************)
(* The invariant.                                                          *)
(***************************************************************************)
LEMMA InitOK == Init => MirrorInv
<1> SUFFICES ASSUME Init  PROVE MirrorInv
  OBVIOUS
<1>1. /\ members \subseteq Users /\ live = members /\ orgLive = TRUE /\ clock = 0
      /\ accounts = [u \in Users |-> IF u \in members THEN 1 ELSE 0] /\ clerkId = accounts
      /\ orgRow \in {"none", "active"} /\ (orgRow = "none" => members = {})
      /\ profile = [u \in Users |-> IF u \in members THEN "active" ELSE "none"]
      /\ access = profile /\ disturbed = {} /\ held = {}
      /\ pc = [c \in Calls |-> "idle"] /\ frame = [c \in Calls |-> NoFrame]
  BY DEF Init
<1>2. /\ orgRow = "active" => events = {}
      /\ orgRow = "none" => events = {[kind |-> "organization.created", of |-> Org,
                                       account |-> 0, seq |-> 0]}
  BY DEF Init
<1>3. \A e \in events : /\ e.kind = "organization.created" /\ e.of = Org /\ e.account = 0
                        /\ e.seq = 0 /\ e \in Event
  BY <1>1, <1>2, BoundsAssumption DEF Event, Seq
<1>4. orgRow = "none" => \E e \in events : e.kind = "organization.created"
  <2> SUFFICES ASSUME orgRow = "none"  PROVE \E e \in events : e.kind = "organization.created"
    OBVIOUS
  <2>1. PICK e : e = [kind |-> "organization.created", of |-> Org, account |-> 0, seq |-> 0]
    OBVIOUS
  <2>2. e.kind = "organization.created"
    BY <2>1
  <2> QED
    BY <1>2, <2>1, <2>2, Zenon
<1>5. MirrorTypes
  <2>1. accounts \in [Users -> Account] /\ clerkId \in [Users -> Account]
    BY <1>1, BoundsAssumption DEF Account
  <2>2. profile \in [Users -> ProfileStatus] /\ access \in [Users -> AccessStatus]
    BY <1>1 DEF ProfileStatus, AccessStatus
  <2>3. pc \in [Calls -> CallAt] /\ frame \in [Calls -> Frame]
    BY <1>1, NoFrameIsAFrame DEF CallAt
  <2>4. clock \in Seq /\ orgRow \in OrgStatus /\ events \subseteq Event
    BY <1>1, <1>3, BoundsAssumption DEF Seq, OrgStatus
  <2>5. /\ \A u \in live : accounts[u] > 0
        /\ \A u \in Users : /\ profile[u] = "none" => clerkId[u] = 0
                            /\ access[u] # "none" => profile[u] # "none" /\ orgRow # "none"
    BY <1>1
  <2> QED
    BY <1>1, <2>1, <2>2, <2>3, <2>4, <2>5 DEF MirrorTypes
<1>6. EventsOK
  BY <1>1, <1>3 DEF EventsOK, EventOK, OrgKinds
<1>7. OrgOK
  BY <1>1, <1>4 DEF OrgOK
<1>8. \A c \in Calls : pc[c] = "idle" /\ frame[c] = NoFrame
  BY <1>1
<1>9. \A c \in Calls : CallOK(c)
  BY <1>5, <1>8, IdleIsSound DEF CallOK
<1>10. Crossing
  BY <1>8, NoFrameIsAFrame, UsersAssumption DEF Crossing, Concerns
<1>11. ASSUME NEW u \in Users  PROVE UserOK(u)
  <2>1. ASSUME NEW a \in Account, a > 0, a <= accounts[u]  PROVE clerkId[u] = a
    <3>1. accounts[u] \in {0, 1} /\ clerkId[u] = accounts[u] /\ a \in Nat
      BY <1>1, BoundsAssumption DEF Account
    <3> QED
      BY <2>1, <3>1
  <2>2. access[u] = "active" => Excused(u)
    BY <1>1 DEF Excused
  <2>3. ~ \E e \in events : e.kind = "membership.created"
    BY <1>3
  <2> QED
    BY <2>1, <2>2, <2>3 DEF UserOK
<1> QED
  BY <1>5, <1>6, <1>7, <1>9, <1>10, <1>11 DEF MirrorInv

LEMMA NextOK == MirrorInv /\ [Next]_vars => MirrorInv'
<1> SUFFICES ASSUME MirrorInv, [Next]_vars  PROVE MirrorInv'
  OBVIOUS
<1>1. CASE UNCHANGED vars
  <2>1. UNCHANGED <<accounts, live, members, orgLive, events, clock, profile, clerkId, access,
                    orgRow, pc, frame, disturbed, held>>
    BY <1>1 DEF vars, outside, clerk, rows, history
  <2>2. MirrorTypes' /\ EventsOK' /\ OrgOK' /\ (\A u \in Users : UserOK(u)') /\ Crossing'
    BY <2>1 DEF MirrorInv, MirrorTypes, EventsOK, EventOK, OrgOK, UserOK, Excused, Crossing,
       Concerns
  <2>3. \A c \in Calls : CallOK(c)'
    BY <2>1 DEF MirrorInv, CallOK, Sound, PlaceOK, KnownOK, InTurn, FreshOK, VisitOK, Excused
  <2> QED
    BY <2>2, <2>3 DEF MirrorInv
<1>2. CASE ClerkActs
  BY <1>2, OfSignUp, OfDeleteAccount, OfJoin, OfLeave, OfChangeRole, OfDeleteOrg, OfGiveUp
     DEF ClerkActs
<1>3. ASSUME NEW c \in Calls, WebhookStep(c)  PROVE MirrorInv'
  BY <1>3, OfFindUser, OfStoreUser, OfFindDeletedUser, OfSuspend, OfFindOrg, OfStoreOrg,
     OfArchiveOrg, OfFindMember, OfGrant, OfFindRemoved, OfRevoke, OfAcknowledge
     DEF WebhookStep
<1>4. ASSUME NEW c \in Calls, VisitStep(c)  PROVE MirrorInv'
  BY <1>4, OfAuthenticate, OfListMemberships, OfFindAccess, OfHeal, OfHealFails, OfTheEnd
     DEF VisitStep
<1>5. ASSUME NEW c \in Calls, ProfileStep(c)  PROVE MirrorInv'
  BY <1>5, OfAskClerk, OfAskFails, OfFindByEmail, OfAdopt DEF ProfileStep
<1>6. ASSUME NEW c \in Calls, OperatorStep(c)  PROVE MirrorInv'
  BY <1>6, OfEnsureProfile, OfStoreInvited, OfStoreOnboarded, OfResend, OfReinvite, OfUpdate,
     OfSetStatus, OfSetRole, OfMirrorRole, OfFindUserAndOrg, OfAddMember, OfStoreMember,
     OfRemove, OfRemoveMember, OfRemoveRow DEF OperatorStep
<1>7. ASSUME NEW c \in Calls, ReconcileStep(c)  PROVE MirrorInv'
  BY <1>7, OfReadBoth, OfDrop, OfAddProfile, OfAddAccess, OfTheEnd DEF ReconcileStep
<1>8. ASSUME NEW c \in Calls,
             \/ \E e \in events : Receive(c, e)
             \/ \E u \in Users : Visit(c, u) \/ \E o \in Operations : Operate(c, u, o)
             \/ Reconcile(c) \/ Abandon(c)
      PROVE  MirrorInv'
  BY <1>8, OfReceive, OfVisit, OfOperate, OfReconcile, OfTheEnd
<1> QED
  BY <1>1, <1>2, <1>3, <1>4, <1>5, <1>6, <1>7, <1>8 DEF Next

\* What a call knows of a user nobody else is at work on is so.
THEOREM MirrorIsKept == Spec => []MirrorInv
<1>1. Init => MirrorInv
  BY InitOK
<1>2. MirrorInv /\ [Next]_vars => MirrorInv'
  BY NextOK
<1> QED
  BY <1>1, <1>2, PTL DEF Spec

-----------------------------------------------------------------------------
(***************************************************************************)
(* What follows from it.                                                   *)
(***************************************************************************)
LEMMA TypesFollow == MirrorInv => TypeOK
<1> SUFFICES ASSUME MirrorInv  PROVE TypeOK
  OBVIOUS
<1>1. \A c \in Calls : pc[c] = "idle" => frame[c] = NoFrame
  BY InHand DEF PlaceOK
<1> QED
  BY <1>1 DEF MirrorInv, MirrorTypes, TypeOK, Account

LEMMA StaleAccessIsDue == MirrorInv => NoStaleAccess
<1> SUFFICES ASSUME MirrorInv, NEW u \in Users, u \notin disturbed, access[u] = "active",
                    orgRow # "archived", Org \notin disturbed
             PROVE  u \in members \/ RevocationDue(u)
  BY DEF NoStaleAccess
<1>1. Excused(u)
  BY DEF MirrorInv, UserOK
<1>2. ~orgLive => \E o \in events : o.kind = "organization.deleted"
  BY DEF MirrorInv, OrgOK
<1>3. \A o \in events : o.kind = "organization.deleted" => o.of = Org
  BY DEF MirrorInv, EventsOK, EventOK, OrgKinds
<1> QED
  BY <1>1, <1>2, <1>3 DEF Excused, RevocationDue

LEMMA VisitorsAreHealed == MirrorInv => VisitHeals
<1> SUFFICES ASSUME MirrorInv, NEW c \in Calls, pc[c] = "launch", frame[c].was,
                    frame[c].user \notin held, frame[c].at = clock, frame[c].alone
             PROVE  access[frame[c].user] = "active"
  BY DEF VisitHeals
<1> QED
  BY InHand DEF VisitOK

\* A profile is written back as it is, but by Suspend.
LEMMA ProfileIsKept ==
    ASSUME MirrorInv, [Next]_vars, NEW u \in Users, profile[u] = "suspended", u \notin disturbed
    PROVE  profile'[u] = "suspended"
<1>1. profile \in [Users -> ProfileStatus]
  BY DEF MirrorInv, MirrorTypes
<1> DEFINE writers(c) == \/ StoreUser(c) \/ Suspend(c) \/ Adopt(c) \/ EnsureProfile(c)
                         \/ \E item \in frame[c].add : AddProfile(c, item[1], item[2])
<1>2. ASSUME NEW c \in Calls, StoreUser(c) \/ Adopt(c)  PROVE profile'[u] = "suspended"
  <2>1. PICK k, f : k = pc[c] /\ f = frame[c]
    OBVIOUS
  <2>2. /\ k \in {"store_user", "adopt"} /\ f.user \in Users /\ f.seen \in ProfileStatus
        /\ f.user \notin disturbed => f.seen = profile[f.user]
    BY <1>2, <2>1, InHand DEF StoreUser, Adopt, PlaceOK, FreshOK, OrgAt
  <2>3. Claim(f.user, f.account, f.seen)
    BY <1>2, <2>1 DEF StoreUser, Adopt
  <2>4. CASE f.user = u
    BY <1>1, <2>2, <2>3, <2>4 DEF Claim
  <2>5. CASE f.user # u
    BY <1>1, <2>2, <2>3, <2>5 DEF Claim
  <2> QED
    BY <2>4, <2>5
<1>3. ASSUME NEW c \in Calls, Suspend(c) \/ EnsureProfile(c)  PROVE profile'[u] = "suspended"
  BY <1>1, <1>3 DEF Suspend, EnsureProfile
<1>4. ASSUME NEW c \in Calls, NEW item \in frame[c].add, AddProfile(c, item[1], item[2])
      PROVE  profile'[u] = "suspended"
  BY <1>1, <1>4 DEF AddProfile
<1>5. ASSUME NEW c \in Calls, writers(c)  PROVE profile'[u] = "suspended"
  BY <1>2, <1>3, <1>4, <1>5
<1>6. CASE UNCHANGED profile
  BY <1>6
<1>7. CASE UNCHANGED vars
  BY <1>6, <1>7 DEF vars, rows
<1>8. CASE ClerkActs
  BY <1>6, <1>8 DEF ClerkActs, SignUp, DeleteAccount, Join, Leave, ChangeRole, DeleteOrg, GiveUp,
     rows
<1>9. ASSUME NEW c \in Calls,
             \/ FindUser(c) \/ FindDeletedUser(c) \/ FindOrg(c) \/ StoreOrg(c) \/ ArchiveOrg(c)
             \/ FindMember(c) \/ Grant(c) \/ FindRemoved(c) \/ Revoke(c) \/ Acknowledge(c)
      PROVE  UNCHANGED profile
  BY <1>9 DEF FindUser, FindDeletedUser, FindOrg, StoreOrg, ArchiveOrg, FindMember, Grant,
     FindRemoved, Revoke, Acknowledge, rows
<1>10. ASSUME NEW c \in Calls, VisitStep(c) \/ AskClerk(c) \/ AskFails(c) \/ FindByEmail(c)
       PROVE  UNCHANGED profile
  BY <1>10 DEF VisitStep, Authenticate, ListMemberships, FindAccess, Heal, HealFails, Launch,
     AskClerk, AskFails, FindByEmail, rows
<1>11. ASSUME NEW c \in Calls, OperatorStep(c)  PROVE EnsureProfile(c) \/ UNCHANGED profile
  BY <1>11 DEF OperatorStep, StoreInvited, StoreOnboarded, Resend, Reinvite, Update, SetStatus,
     SetRole, MirrorRole, FindUserAndOrg, AddMember, StoreMember, Remove, RemoveMember, RemoveRow,
     ReadAccess, rows
<1>12. ASSUME NEW c \in Calls,
              \/ ReadBoth(c) \/ (\E v \in Users : Drop(c, v)) \/ AddAccess(c) \/ Reconciled(c)
              \/ Abandon(c) \/ (\E e \in events : Receive(c, e))
              \/ \E v \in Users : Visit(c, v) \/ \E o \in Operations : Operate(c, v, o)
              \/ Reconcile(c)
       PROVE  UNCHANGED profile
  BY <1>12 DEF ReadBoth, Drop, AddAccess, Reconciled, Abandon, Receive, Visit, Operate, Reconcile,
     rows
<1> HIDE DEF writers
<1>13. ASSUME NEW c \in Calls,
              \/ WebhookStep(c) \/ VisitStep(c) \/ ProfileStep(c) \/ OperatorStep(c)
              \/ ReconcileStep(c) \/ Abandon(c) \/ (\E e \in events : Receive(c, e))
              \/ \E v \in Users : Visit(c, v) \/ \E o \in Operations : Operate(c, v, o)
              \/ Reconcile(c)
       PROVE  writers(c) \/ UNCHANGED profile
  BY <1>9, <1>10, <1>11, <1>12, <1>13 DEF writers, WebhookStep, ProfileStep, ReconcileStep
<1> QED
  BY <1>5, <1>6, <1>7, <1>8, <1>13 DEF Next

-----------------------------------------------------------------------------
\* Every variable holds what it may, whatever the calls and events do.
THEOREM MirrorTypesHold == Spec => []TypeOK
  BY MirrorIsKept, TypesFollow, PTL

\* Nobody keeps access who is no member in Clerk, unless the event that takes
\* it away is on its way or he is disturbed.
THEOREM AccessFollowsMembership == Spec => []NoStaleAccess
  BY MirrorIsKept, StaleAccessIsDue, PTL

\* A visit nobody crosses ends with the member active, unless an operator keeps
\* him suspended.
THEOREM VisitsHeal == Spec => []VisitHeals
  BY MirrorIsKept, VisitorsAreHealed, PTL

\* Nothing wakes a suspended profile of a user who is not disturbed.
THEOREM SuspensionStays == Spec => SuspendedStays
<1> DEFINE Stays == \A u \in Users : profile[u] = "suspended" /\ u \notin disturbed
                                       => profile'[u] = "suspended"
<1>1. MirrorInv /\ [Next]_vars => Stays
  BY ProfileIsKept
<1>2. SuspendedStays <=> [][Stays]_vars
  BY DEF SuspendedStays
<1> QED
  BY MirrorIsKept, <1>1, <1>2, PTL DEF Spec

=============================================================================
