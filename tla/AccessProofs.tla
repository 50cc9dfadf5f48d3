---------------------------- MODULE AccessProofs ----------------------------
(***************************************************************************)
(* What holds of the services of MCServices that say who may do what, for  *)
(* any numbers of calls, records and administrators and at any bounds: Hub *)
(* authority, platform admins, contracts and API keys.                     *)
(***************************************************************************)
EXTENDS MCServices, FiniteSetTheorems, SequenceTheorems, WellFoundedInduction, TLAPS

-----------------------------------------------------------------------------
(***************************************************************************)
(* A step of the run is a step of one service and leaves the others alone. *)
(***************************************************************************)
LEMMA OneMoves ==
    ASSUME [Next]_vars
    PROVE  /\ A!Next \/ UNCHANGED authVars
           /\ P!Next \/ UNCHANGED adminVars
           /\ H!Next \/ UNCHANGED hubVars
           /\ K!Next \/ UNCHANGED keyVars
  BY DEF Next, vars, Authority, Metadata, CheckoutStep, Quickbooks, References,
     Feedback, Fixes, Administration, Contract, KeyRing

\* What the instances call Cardinality is Cardinality.
LEMMA OneCardinality ==
    \A S : /\ K!Cardinality(S) = Cardinality(S)
           /\ H!Cardinality(S) = Cardinality(S)
  BY DEF Cardinality, K!Cardinality, H!Cardinality

-----------------------------------------------------------------------------
(***************************************************************************)
(* HubAuthority.  A record that a request found active has been active, or *)
(* ceased to be, since the moment with which the answer will be stamped.   *)
(***************************************************************************)
Decision  == [allow : BOOLEAN, issuedAt : Nat, expiresAt : Nat]
AuthFrame == [now : Nat, named : BOOLEAN, todo : SUBSET A!Records,
              read : [A!Records -> A!Status], answer : Decision \cup {None}]

AuthTypes ==
    /\ clock \in Nat /\ expiry \in Nat
    /\ authStatus \in [A!Records \cup {"service"} -> A!Status]
    /\ since \in [A!Records -> Nat]
    /\ authPc \in [Requests -> {"idle", "verify", "user", "organization", "records", "answer"}]
    /\ authFrame \in [Requests -> AuthFrame]

\* Record r was active at time t or later.
Fresh(r, t) == authStatus[r] = "active" \/ since[r] >= t

\* An allowance rests on records that were active after its stamp.
Vouched(a) ==
    a.allow => /\ a \in Decision
               /\ a.issuedAt <= clock /\ a.expiresAt = a.issuedAt + TTL
               /\ \A r \in A!Needed : Fresh(r, a.issuedAt)
               /\ "entitlement" \in A!Needed => a.issuedAt < expiry
               /\ internalOnly => internal

AuthInv ==
    /\ AuthTypes
    /\ \A q \in Requests :
          /\ authFrame[q].now <= clock
          /\ \A r \in A!Records :
                authFrame[q].read[r] = "active" => Fresh(r, authFrame[q].now)
          /\ authPc[q] \in {"idle", "verify"} => \A r \in A!Records : authFrame[q].read[r] # "active"
          /\ authPc[q] = "answer" => Vouched(authFrame[q].answer)
    /\ cache # None => Vouched(cache) /\ cache.allow

LEMMA NeededAreRecords == A!Needed \subseteq A!Records
  BY DEF A!Needed, A!Records

LEMMA NoFrameIsOne ==
    /\ A!NoFrame \in AuthFrame /\ A!NoFrame.now = 0
    /\ A!NoFrame.read = [r \in A!Records |-> "missing"]
    /\ \A r \in A!Records : A!NoFrame.read[r] # "active"
  BY DEF A!NoFrame, AuthFrame, A!Status

LEMMA InitAuth == A!Init => AuthInv
<1> SUFFICES ASSUME A!Init PROVE AuthInv
  OBVIOUS
<1>1. expiry \in Nat
  BY ServicesAssumption DEF A!Init, A!TimeAssumption
<1>2. AuthTypes
  BY <1>1, NoFrameIsOne DEF A!Init, AuthTypes, A!Status
<1>3. \A q \in Requests : authFrame[q] = A!NoFrame /\ authPc[q] = "idle"
  BY DEF A!Init
<1>4. clock = 0 /\ cache = None
  BY DEF A!Init
<1>5. QED
  BY <1>2, <1>3, <1>4, NoFrameIsOne DEF AuthInv

\* Time and changes leave an allowance as good as it was.
LEMMA VouchedStays ==
    ASSUME AuthTypes, AuthTypes', clock' >= clock,
           UNCHANGED <<expiry, internal, internalOnly, requiresOrg>>,
           \A r \in A!Records : \A t \in Nat : t <= clock /\ Fresh(r, t) => Fresh(r, t)',
           NEW a, Vouched(a)
    PROVE  Vouched(a)'
<1> SUFFICES ASSUME a.allow PROVE Vouched(a)'
  BY DEF Vouched
<1>1. /\ a \in Decision
      /\ a.issuedAt <= clock /\ a.expiresAt = a.issuedAt + TTL
      /\ \A r \in A!Needed : Fresh(r, a.issuedAt)
      /\ "entitlement" \in A!Needed => a.issuedAt < expiry
      /\ internalOnly => internal
  BY DEF Vouched
<1>2. A!Needed' = A!Needed
  BY DEF A!Needed
<1>3. a.issuedAt \in Nat /\ clock \in Nat /\ clock' \in Nat
  BY <1>1 DEF Decision, AuthTypes
<1>4. \A r \in A!Needed : Fresh(r, a.issuedAt)'
  BY <1>1, <1>3, NeededAreRecords
<1>5. a.issuedAt <= clock'
  BY <1>1, <1>3
<1>6. QED
  BY <1>1, <1>2, <1>4, <1>5 DEF Vouched

\* The world moves and the calls stand still.
LEMMA WorldMoves ==
    ASSUME AuthInv, AuthTypes', clock' >= clock,
           UNCHANGED <<expiry, internal, internalOnly, requiresOrg, authPc, authFrame, cache>>,
           \A r \in A!Records : \A t \in Nat : t <= clock /\ Fresh(r, t) => Fresh(r, t)'
    PROVE  AuthInv'
<1>1. AuthTypes /\ clock \in Nat /\ clock' \in Nat
  BY DEF AuthInv, AuthTypes
<1>2. \A a : Vouched(a) => Vouched(a)'
  BY <1>1, VouchedStays
<1>3. ASSUME NEW q \in Requests
      PROVE  /\ authFrame'[q].now <= clock'
             /\ \A r \in A!Records :
                  authFrame'[q].read[r] = "active" => Fresh(r, authFrame[q].now)'
  <2>1. authFrame[q].now \in Nat /\ authFrame[q].now <= clock
    BY <1>1 DEF AuthInv, AuthTypes, AuthFrame
  <2>2. \A r \in A!Records : Fresh(r, authFrame[q].now) => Fresh(r, authFrame[q].now)'
    BY <2>1
  <2>3. QED
    BY <1>1, <2>1, <2>2 DEF AuthInv
<1>4. QED
  BY <1>2, <1>3 DEF AuthInv

\* One call moves and the records stand still.
LEMMA RequestMoves ==
    ASSUME AuthInv, NEW q \in Requests,
           UNCHANGED <<clock, authStatus, expiry, internal, internalOnly, requiresOrg, since>>,
           NEW label \in {"idle", "verify", "user", "organization", "records", "answer"},
           NEW f \in AuthFrame,
           authPc' = [authPc EXCEPT ![q] = label],
           authFrame' = [authFrame EXCEPT ![q] = f],
           f.now <= clock,
           \A r \in A!Records : f.read[r] = "active" => Fresh(r, f.now),
           label \in {"idle", "verify"} => \A r \in A!Records : f.read[r] # "active",
           label = "answer" => Vouched(f.answer),
           cache' # None => Vouched(cache') /\ cache'.allow
    PROVE  AuthInv'
<1>1. AuthTypes'
  BY DEF AuthInv, AuthTypes
<1>2. /\ authPc'[q] = label /\ authFrame'[q] = f
      /\ \A d \in Requests : d # q => authPc'[d] = authPc[d] /\ authFrame'[d] = authFrame[d]
  BY DEF AuthInv, AuthTypes
<1>3. A!Needed' = A!Needed
  BY DEF A!Needed
<1>4. \A r, t : Fresh(r, t)' <=> Fresh(r, t)
  BY DEF Fresh
<1>5. \A a : Vouched(a)' <=> Vouched(a)
  BY <1>3 DEF Vouched, Fresh
<1>6. \A d \in Requests :
          /\ authFrame'[d].now <= clock
          /\ \A r \in A!Records :
                authFrame'[d].read[r] = "active" => Fresh(r, authFrame'[d].now)
          /\ authPc'[d] \in {"idle", "verify"} => \A r \in A!Records : authFrame'[d].read[r] # "active"
          /\ authPc'[d] = "answer" => Vouched(authFrame'[d].answer)
  BY <1>2 DEF AuthInv
<1>7. \A d \in Requests : \A r \in A!Records :
          authFrame'[d].read[r] = "active"
              => authStatus'[r] = "active" \/ since'[r] >= authFrame'[d].now
  BY <1>6 DEF Fresh
<1>8. \A d \in Requests : authPc'[d] = "answer" => Vouched(authFrame[d].answer)'
  <2>1. \A d \in Requests : authPc'[d] = "answer" => Vouched(authFrame'[d].answer)
    BY <1>6
  <2>2. QED
    BY <2>1, <1>3 DEF Vouched, Fresh
<1>9. cache' # None => Vouched(cache)' /\ cache'.allow
  BY <1>3 DEF Vouched, Fresh
<1>10. QED
  BY <1>1, <1>6, <1>7, <1>8, <1>9 DEF AuthInv, Fresh

LEMMA RequestEnds ==
    ASSUME AuthInv, NEW q \in Requests, A!Return(q),
           UNCHANGED <<clock, authStatus, expiry, internal, internalOnly, requiresOrg, since>>,
           cache' # None => Vouched(cache') /\ cache'.allow
    PROVE  AuthInv'
<1>1. /\ authPc' = [authPc EXCEPT ![q] = "idle"]
      /\ authFrame' = [authFrame EXCEPT ![q] = A!NoFrame]
  BY DEF A!Return, A!Goto
<1>2. A!NoFrame.now <= clock
  BY NoFrameIsOne DEF AuthInv, AuthTypes
<1>3. QED
  BY <1>1, <1>2, NoFrameIsOne, RequestMoves

LEMMA AuthorityKeepsPromise ==
    ASSUME AuthInv, A!Next
    PROVE  AuthInv'
<1>0. AuthTypes /\ clock \in Nat
  BY DEF AuthInv, AuthTypes
<1>1. ASSUME A!Tick PROVE AuthInv'
  <2>1. /\ clock' = clock + 1
        /\ UNCHANGED <<authStatus, expiry, internal, internalOnly, requiresOrg, authPc,
                       authFrame, cache, since>>
    BY <1>1 DEF A!Tick, A!fixed
  <2>2. AuthTypes' /\ clock' >= clock
    BY <1>0, <2>1 DEF AuthTypes
  <2>3. \A r \in A!Records : \A t \in Nat : t <= clock /\ Fresh(r, t) => Fresh(r, t)'
    BY <2>1 DEF Fresh
  <2>4. QED
    BY <2>1, <2>2, <2>3, WorldMoves
<1>2. ASSUME NEW r \in A!Records \cup {"service"}, NEW s \in A!Status, A!Change(r, s)
      PROVE  AuthInv'
  <2>1. /\ authStatus' = [authStatus EXCEPT ![r] = s]
        /\ UNCHANGED <<clock, expiry, internal, internalOnly, requiresOrg, authPc,
                       authFrame, cache>>
    BY <1>2 DEF A!Change, A!fixed
  <2>2. since' = IF r \in A!Records /\ authStatus[r] = "active"
                 THEN [since EXCEPT ![r] = clock] ELSE since
    BY <1>2 DEF A!Change
  <2>3. AuthTypes' /\ clock' >= clock
    BY <1>0, <2>1, <2>2 DEF AuthTypes
  <2>4. \A j \in A!Records : \A t \in Nat : t <= clock /\ Fresh(j, t) => Fresh(j, t)'
    <3> SUFFICES ASSUME NEW j \in A!Records, NEW t \in Nat, t <= clock, Fresh(j, t)
                 PROVE  Fresh(j, t)'
      OBVIOUS
    <3>1. CASE j # r
      BY <3>1, <2>1, <2>2, <1>0 DEF Fresh, AuthTypes
    <3>2. CASE j = r /\ authStatus[r] = "active"
      <4>1. since'[j] = clock
        BY <3>2, <2>2, <1>0 DEF AuthTypes
      <4>2. QED
        BY <4>1, <1>0 DEF Fresh
    <3>3. CASE j = r /\ authStatus[r] # "active"
      BY <3>3, <2>2 DEF Fresh
    <3>4. QED
      BY <3>1, <3>2, <3>3
  <2>5. QED
    BY <2>1, <2>3, <2>4, WorldMoves
<1>3. ASSUME A!Restart PROVE AuthInv'
  <2>1. /\ cache' = None
        /\ UNCHANGED <<clock, authStatus, expiry, internal, internalOnly, requiresOrg, authPc,
                       authFrame, since>>
    BY <1>3 DEF A!Restart, A!fixed
  <2>2. A!Needed' = A!Needed
    BY <2>1 DEF A!Needed
  <2>3. QED
    BY <2>1, <2>2 DEF AuthInv, AuthTypes, Fresh, Vouched
<1>4. ASSUME NEW q \in Requests,
             \/ \E named \in BOOLEAN : A!Ask(q, named)
             \/ A!VerifyService(q) \/ A!ReadUser(q) \/ A!ReadOrganization(q)
             \/ \E r \in A!Records : A!ReadRecord(q, r)
             \/ \E roles \in BOOLEAN : A!Decide(q, roles)
             \/ A!Receive(q) \/ A!Abandon(q)
      PROVE  AuthInv'
  <2>1. /\ UNCHANGED <<clock, authStatus, expiry, internal, internalOnly, requiresOrg, since>>
        /\ A!Receive(q) \/ cache' = cache
    BY <1>4 DEF A!Ask, A!VerifyService, A!ReadUser, A!ReadOrganization, A!ReadRecord,
       A!Decide, A!Receive, A!Abandon, A!fixed
  <2>2. /\ authFrame[q] \in AuthFrame /\ authFrame[q].now <= clock
        /\ \A r \in A!Records : authFrame[q].read[r] = "active" => Fresh(r, authFrame[q].now)
        /\ \A r \in A!Records : \A t \in Nat : authStatus[r] = "active" => Fresh(r, t)
    BY DEF AuthInv, AuthTypes, Fresh
  <2>3. authStatus \in [A!Records \cup {"service"} -> A!Status]
    BY <1>0 DEF AuthTypes
  <2>4. cache' = cache => (cache' # None => Vouched(cache') /\ cache'.allow)
    BY DEF AuthInv
  <2>5. ASSUME NEW named \in BOOLEAN, A!Ask(q, named) PROVE AuthInv'
    <3> DEFINE f == [authFrame[q] EXCEPT !.named = named]
    <3>1. authFrame' = [authFrame EXCEPT ![q] = f] /\ authPc' = [authPc EXCEPT ![q] = "verify"]
      BY <2>5 DEF A!Ask, A!Goto
    <3>2. f \in AuthFrame /\ f.now = authFrame[q].now /\ f.read = authFrame[q].read
      BY <2>2 DEF AuthFrame
    <3>3. \A r \in A!Records : authFrame[q].read[r] # "active"
      BY <2>5 DEF A!Ask, AuthInv
    <3> HIDE DEF f
    <3>4. cache' = cache
      BY <2>5 DEF A!Ask
    <3>5. QED
      BY <3>1, <3>2, <3>3, <3>4, <2>1, <2>2, <2>4, RequestMoves
  <2>6. ASSUME A!VerifyService(q) PROVE AuthInv'
    <3>1. cache' = cache /\ \A r \in A!Records : authFrame[q].read[r] # "active"
      BY <2>6 DEF A!VerifyService, AuthInv
    <3>2. CASE authStatus["service"] = "active"
      <4> DEFINE f == [authFrame[q] EXCEPT !.now = clock]
      <4>1. /\ authFrame' = [authFrame EXCEPT ![q] = f]
            /\ authPc' = [authPc EXCEPT ![q] = "user"]
        BY <2>6, <3>2 DEF A!VerifyService, A!Goto
      <4>2. f \in AuthFrame /\ f.now = clock /\ f.read = authFrame[q].read
        BY <1>0, <2>2 DEF AuthFrame
      <4> HIDE DEF f
      <4>3. f.now <= clock
        BY <1>0, <4>2
      <4>4. QED
        BY <3>1, <4>1, <4>2, <4>3, <2>1, <2>4, RequestMoves
    <3>3. CASE authStatus["service"] # "active"
      BY <2>6, <3>1, <3>3, <2>1, <2>4, RequestEnds DEF A!VerifyService
    <3>4. QED
      BY <3>2, <3>3
  <2>7. ASSUME A!ReadUser(q) PROVE AuthInv'
    <3> DEFINE f == [authFrame[q] EXCEPT !.read["user"] = authStatus["user"]]
    <3>1. /\ authFrame' = [authFrame EXCEPT ![q] = f]
          /\ authPc' = [authPc EXCEPT ![q] = "organization"] /\ cache' = cache
      BY <2>7 DEF A!ReadUser, A!Goto
    <3>2. f \in AuthFrame /\ f.now = authFrame[q].now
      BY <2>2, <2>3 DEF AuthFrame, A!Records
    <3>3. \A r \in A!Records : f.read[r] = IF r = "user" THEN authStatus[r]
                                           ELSE authFrame[q].read[r]
      BY <2>2 DEF AuthFrame, A!Records
    <3> HIDE DEF f
    <3>4. f.now \in Nat
      BY <3>2 DEF AuthFrame
    <3>5. \A r \in A!Records : f.read[r] = "active" => Fresh(r, f.now)
      BY <3>2, <3>3, <3>4, <2>2
    <3>6. QED
      BY <3>1, <3>2, <3>5, <2>1, <2>2, <2>4, RequestMoves
  <2>8. ASSUME A!ReadOrganization(q) PROVE AuthInv'
    <3> DEFINE known == authFrame[q].read["user"] # "missing"
               sole  == known /\ ~internal /\ authStatus["membership"] = "active"
                        /\ authStatus["organization"] = "active"
               found == IF authFrame[q].named \/ sole THEN authStatus["organization"]
                        ELSE "missing"
               pair  == IF known /\ found # "missing" THEN {"membership", "entitlement"}
                        ELSE {}
               f == [authFrame[q] EXCEPT !.read["organization"] = found,
                                         !.todo = {"app"} \cup pair]
    <3>1. /\ authFrame' = [authFrame EXCEPT ![q] = f]
          /\ authPc' = [authPc EXCEPT ![q] = "records"] /\ cache' = cache
      BY <2>8 DEF A!ReadOrganization, A!Goto
    <3>2. found \in A!Status /\ (found = "active" => authStatus["organization"] = "active")
      BY <2>3 DEF A!Status, A!Records
    <3>3. {"app"} \cup pair \subseteq A!Records
      BY DEF A!Records
    <3> HIDE DEF known, sole, found, pair
    <3>4. f \in AuthFrame /\ f.now = authFrame[q].now
      BY <2>2, <3>2, <3>3 DEF AuthFrame, A!Records
    <3>5. \A r \in A!Records : f.read[r] = IF r = "organization" THEN found
                                           ELSE authFrame[q].read[r]
      BY <2>2 DEF AuthFrame, A!Records
    <3> HIDE DEF f
    <3>6. f.now \in Nat
      BY <3>4 DEF AuthFrame
    <3>7. \A r \in A!Records : f.read[r] = "active" => Fresh(r, f.now)
      BY <3>2, <3>4, <3>5, <3>6, <2>2
    <3>8. QED
      BY <3>1, <3>4, <3>7, <2>1, <2>2, <2>4, RequestMoves
  <2>9. ASSUME NEW r \in A!Records, A!ReadRecord(q, r) PROVE AuthInv'
    <3> DEFINE f == [authFrame[q] EXCEPT !.read[r] = authStatus[r], !.todo = @ \ {r}]
    <3>1. /\ authFrame' = [authFrame EXCEPT ![q] = f]
          /\ authPc[q] = "records" /\ authPc' = authPc /\ cache' = cache
      BY <2>9 DEF A!ReadRecord
    <3>2. authPc' = [authPc EXCEPT ![q] = "records"]
      BY <1>0, <3>1 DEF AuthTypes
    <3>3. f \in AuthFrame /\ f.now = authFrame[q].now
      BY <2>2, <2>3 DEF AuthFrame
    <3>4. \A j \in A!Records : f.read[j] = IF j = r THEN authStatus[j]
                                           ELSE authFrame[q].read[j]
      BY <2>2 DEF AuthFrame
    <3> HIDE DEF f
    <3>5. f.now \in Nat
      BY <3>3 DEF AuthFrame
    <3>6. \A j \in A!Records : f.read[j] = "active" => Fresh(j, f.now)
      BY <3>3, <3>4, <3>5, <2>2
    <3>7. QED
      BY <3>1, <3>2, <3>3, <3>6, <2>1, <2>2, <2>4, RequestMoves
  <2>10. ASSUME NEW roles \in BOOLEAN, A!Decide(q, roles) PROVE AuthInv'
    <3> DEFINE a == A!Snapshot(authFrame[q], roles)
               f == [A!NoFrame EXCEPT !.answer = a]
    <3>1. /\ authFrame' = [authFrame EXCEPT ![q] = f]
          /\ authPc' = [authPc EXCEPT ![q] = "answer"] /\ cache' = cache
      BY <2>10 DEF A!Decide, A!Goto
    <3>2. authFrame[q].now \in Nat /\ TTL \in Nat
      BY <2>2, ServicesAssumption DEF AuthFrame, A!TimeAssumption
    <3>3. /\ a.issuedAt = authFrame[q].now /\ a.expiresAt = authFrame[q].now + TTL
          /\ a.allow = A!Allows(authFrame[q], roles)
      BY DEF A!Snapshot
    <3>4. a \in Decision
      BY <3>2 DEF A!Snapshot, A!Allows, Decision
    <3> HIDE DEF a
    <3>5. a.allow => /\ \A r \in A!Needed : authFrame[q].read[r] = "active"
                     /\ "entitlement" \in A!Needed => authFrame[q].now < expiry
                     /\ internalOnly => internal
      BY <3>3 DEF A!Allows, A!Needed
    <3>6. Vouched(a)
      BY <2>2, <3>3, <3>4, <3>5, NeededAreRecords DEF Vouched
    <3>7. f \in AuthFrame /\ f.now = 0 /\ f.read = A!NoFrame.read /\ f.answer = a
      BY <3>4, NoFrameIsOne DEF A!NoFrame, AuthFrame
    <3> HIDE DEF f
    <3>8. f.now <= clock
      BY <1>0, <3>7
    <3>9. \A r \in A!Records : f.read[r] # "active"
      BY <3>7, NoFrameIsOne
    <3>10. QED
      BY <3>1, <3>6, <3>7, <3>8, <3>9, <2>1, <2>4, RequestMoves
  <2>11. ASSUME A!Receive(q) PROVE AuthInv'
    <3>1. /\ authPc[q] = "answer" /\ A!Return(q)
          /\ \/ cache' = cache
             \/ cache' = authFrame[q].answer /\ authFrame[q].answer.allow
      BY <2>11 DEF A!Receive
    <3>2. Vouched(authFrame[q].answer)
      BY <3>1 DEF AuthInv
    <3>3. cache' # None => Vouched(cache') /\ cache'.allow
      BY <3>1, <3>2, <2>4
    <3>4. QED
      BY <3>1, <3>3, <2>1, RequestEnds
  <2>12. ASSUME A!Abandon(q) PROVE AuthInv'
    BY <2>12, <2>1, <2>4, RequestEnds DEF A!Abandon
  <2>13. QED
    BY <1>4, <2>5, <2>6, <2>7, <2>8, <2>9, <2>10, <2>11, <2>12
<1>5. QED
  BY <1>1, <1>2, <1>3, <1>4 DEF A!Next

LEMMA AuthorityInv == Spec => []AuthInv
<1>1. Init => AuthInv
  BY InitAuth DEF Init
<1>2. AuthInv /\ UNCHANGED authVars => AuthInv'
  <2> SUFFICES ASSUME AuthInv, UNCHANGED authVars PROVE AuthInv'
    OBVIOUS
  <2>1. UNCHANGED <<clock, authStatus, expiry, internal, internalOnly, requiresOrg, changes,
                    authPc, authFrame, cache, since>>
    BY DEF authVars
  <2>2. A!Needed' = A!Needed
    BY <2>1 DEF A!Needed
  <2>3. QED
    BY <2>1, <2>2 DEF AuthInv, AuthTypes, Fresh, Vouched
<1>3. AuthInv /\ [Next]_vars => AuthInv'
  BY <1>2, OneMoves, AuthorityKeepsPromise
<1>4. QED
  BY <1>1, <1>3, PTL DEF Spec

\* An allowance that is still kept rests on records that were active less than
\* a time to live ago.
LEMMA AuthInvMeansIt == AuthInv => A!AccessEndsWithTTL
<1> SUFFICES ASSUME AuthInv, A!Kept PROVE A!AccessEndsWithTTL
  BY DEF A!AccessEndsWithTTL
<1>1. /\ cache.expiresAt > clock /\ cache.expiresAt = cache.issuedAt + TTL
      /\ \A r \in A!Needed : Fresh(r, cache.issuedAt)
      /\ "entitlement" \in A!Needed => cache.issuedAt < expiry
      /\ internalOnly => internal
      /\ cache \in Decision
  BY DEF A!Kept, AuthInv, Vouched
<1>2. cache.issuedAt \in Nat /\ clock \in Nat /\ TTL \in Nat /\ expiry \in Nat
  BY <1>1, ServicesAssumption DEF Decision, AuthInv, AuthTypes, A!TimeAssumption
<1>3. clock - cache.issuedAt < TTL
  BY <1>1, <1>2
<1>4. ASSUME NEW r \in A!Needed, authStatus[r] # "active" PROVE clock - since[r] < TTL
  <2>1. since[r] >= cache.issuedAt
    BY <1>1, <1>4 DEF Fresh
  <2>2. since[r] \in Nat
    BY NeededAreRecords DEF AuthInv, AuthTypes
  <2>3. QED
    BY <1>2, <1>3, <2>1, <2>2
<1>5. "entitlement" \in A!Needed => clock < expiry + TTL
  BY <1>1, <1>2
<1>6. QED
  BY <1>1, <1>4, <1>5 DEF A!AccessEndsWithTTL

\* Access ends with the time to live, at any speed of the Hub's reads and for
\* any number of requests under way (buildSnapshot stamps the answer with the
\* moment before the first read).
THEOREM AccessIsShortLived == Spec => []AccessEndsWithTTL
<1>1. AuthInv => AccessEndsWithTTL
  BY AuthInvMeansIt DEF AccessEndsWithTTL
<1>2. QED
  BY <1>1, AuthorityInv, PTL

-----------------------------------------------------------------------------
(***************************************************************************)
(* PlatformAdmins.  A write that could take away a super admin has seen    *)
(* another one, and knows it when roles or statuses changed since.         *)
(***************************************************************************)
AdminFrame == [actor : Admins \cup {None}, target : Admins \cup {None},
               role : Roles \cup {None}, status : UserStatuses \cup {None}, stale : BOOLEAN]

AdminTypes ==
    /\ role \in [Admins -> Roles]
    /\ adminStatus \in [Admins -> UserStatuses \cup {"invited", "missing"}]
    /\ adminPc \in [Calls -> {"idle", "load", "count", "write", "ensure", "invite", "promote"}]
    /\ adminFrame \in [Calls -> AdminFrame]
    /\ \A c \in Calls : /\ adminPc[c] # "idle" => adminFrame[c].target \in Admins
                        /\ adminPc[c] \in {"ensure", "invite", "promote"}
                              => adminFrame[c].role \in Roles

\* The write of frame f could take a super admin away.
Lowers(f) == \/ f.status \notin {None, "active"} /\ ~P!EndsOwnAccess(f)
             \/ P!IsSuper(f.target) /\ P!Demotes(f)

CallOK(c) ==
    ~adminFrame[c].stale =>
        /\ adminPc[c] = "load" => adminFrame[c].actor \in P!Supers
        /\ adminPc[c] = "write" /\ Lowers(adminFrame[c])
              => P!Supers \ {adminFrame[c].target} # {}

AdminInv == AdminTypes /\ \A c \in Calls : CallOK(c)

LEMMA NoAdminFrame == P!NoFrame \in AdminFrame
  BY DEF P!NoFrame, AdminFrame

LEMMA InitAdmins == P!Init => AdminInv
<1> SUFFICES ASSUME P!Init PROVE AdminInv
  OBVIOUS
<1>1. AdminTypes
  BY NoAdminFrame, ServicesAssumption DEF P!Init, AdminTypes, P!AdminsAssumption
<1>2. \A c \in Calls : adminPc[c] = "idle"
  BY DEF P!Init
<1>3. QED
  BY <1>1, <1>2 DEF AdminInv, CallOK

\* A call goes on, and roles and statuses stand still.
LEMMA AdminGoesOn ==
    ASSUME AdminInv, NEW c \in Calls, UNCHANGED <<role, adminStatus>>,
           NEW label \in {"idle", "load", "count", "write", "ensure", "invite", "promote"},
           NEW f \in AdminFrame,
           adminPc' = [adminPc EXCEPT ![c] = label],
           adminFrame' = [adminFrame EXCEPT ![c] = f],
           label # "idle" => f.target \in Admins,
           label \in {"ensure", "invite", "promote"} => f.role \in Roles,
           ~f.stale => /\ label = "load" => f.actor \in P!Supers
                       /\ label = "write" /\ Lowers(f) => P!Supers \ {f.target} # {}
    PROVE  AdminInv'
<1>1. /\ AdminTypes
      /\ adminPc'[c] = label /\ adminFrame'[c] = f
      /\ \A d \in Calls : d # c => adminPc'[d] = adminPc[d] /\ adminFrame'[d] = adminFrame[d]
  BY DEF AdminInv, AdminTypes
<1>2. AdminTypes'
  BY <1>1 DEF AdminTypes
<1>3. P!Supers' = P!Supers
  BY DEF P!Supers, P!IsSuper
<1>4. \A d \in Calls : CallOK(d)'
  BY <1>1, <1>3 DEF AdminInv, CallOK, Lowers, P!IsSuper, P!Demotes, P!EndsOwnAccess
<1>5. QED
  BY <1>2, <1>4 DEF AdminInv

\* After a change of a role or status everything under way is stale.
LEMMA AdminChange ==
    ASSUME AdminInv, NEW c,
           role' \in [Admins -> Roles],
           adminStatus' \in [Admins -> UserStatuses \cup {"invited", "missing"}],
           adminFrame' = P!Stale(c),
           adminPc' \in [Calls -> {"idle", "load", "count", "write", "ensure", "invite", "promote"}],
           \A d \in Calls : IF d = c THEN adminPc'[d] = "idle" ELSE adminPc'[d] = adminPc[d]
    PROVE  AdminInv'
<1>1. \A d \in Calls : adminFrame'[d] = IF d = c \/ adminPc[d] = "idle" THEN P!NoFrame
                                        ELSE [adminFrame[d] EXCEPT !.stale = TRUE]
  BY DEF P!Stale
<1>2. AdminTypes
  BY DEF AdminInv
<1>3. \A d \in Calls :
          /\ adminFrame'[d] \in AdminFrame
          /\ adminPc'[d] # "idle" => /\ adminFrame'[d].stale
                                     /\ adminFrame'[d].target = adminFrame[d].target
                                     /\ adminFrame'[d].role = adminFrame[d].role
                                     /\ adminPc'[d] = adminPc[d]
  <2> SUFFICES ASSUME NEW d \in Calls
               PROVE  /\ adminFrame'[d] \in AdminFrame
                      /\ adminPc'[d] # "idle" =>
                            /\ adminFrame'[d].stale
                            /\ adminFrame'[d].target = adminFrame[d].target
                            /\ adminFrame'[d].role = adminFrame[d].role
                            /\ adminPc'[d] = adminPc[d]
    OBVIOUS
  <2>1. adminFrame[d] \in AdminFrame
    BY <1>2 DEF AdminTypes
  <2>2. QED
    BY <1>1, <2>1, NoAdminFrame DEF AdminFrame
<1>4. adminFrame' = [d \in Calls |-> adminFrame'[d]]
  BY DEF P!Stale
<1>5. AdminTypes'
  BY <1>2, <1>3, <1>4 DEF AdminTypes
<1>6. \A d \in Calls : CallOK(d)'
  BY <1>3 DEF CallOK
<1>7. QED
  BY <1>5, <1>6 DEF AdminInv

LEMMA AdminCallsKeepInv ==
    ASSUME AdminInv, NEW c \in Calls,
           \/ \E actor, target \in Admins :
                 \/ \E r \in Roles \cup {None}, s \in UserStatuses \cup {None} :
                       P!Update(c, actor, target, r, s)
                 \/ \E r \in Roles : P!Invite(c, actor, target, r)
           \/ P!Load(c) \/ P!Count(c)
           \/ P!CreateInvitation(c, TRUE) \/ P!CreateInvitation(c, FALSE) \/ P!Abandon(c)
    PROVE  AdminInv'
<1>1. AdminTypes /\ adminFrame[c] \in AdminFrame
  BY DEF AdminInv, AdminTypes
<1>2. UNCHANGED <<role, adminStatus>>
  BY DEF P!Update, P!Invite, P!Request, P!Load, P!Count, P!CreateInvitation, P!Abandon
<1>3. P!Return(c) => AdminInv'
  BY <1>2, NoAdminFrame, AdminGoesOn DEF P!Return, P!Goto
<1>4. ASSUME NEW actor \in Admins, NEW target \in Admins, NEW r \in Roles \cup {None},
             NEW s \in UserStatuses \cup {None}, P!Update(c, actor, target, r, s)
      PROVE  AdminInv'
  <2> DEFINE f == [P!NoFrame EXCEPT !.actor = actor, !.target = target,
                                    !.role = r, !.status = s]
  <2>1. /\ adminPc' = [adminPc EXCEPT ![c] = "load"]
        /\ adminFrame' = [adminFrame EXCEPT ![c] = f] /\ actor \in P!Supers
    BY <1>4 DEF P!Update, P!Request, P!Goto
  <2>2. f \in AdminFrame /\ f.target = target /\ f.actor = actor
    BY DEF P!NoFrame, AdminFrame
  <2> HIDE DEF f
  <2>3. QED
    BY <1>2, <2>1, <2>2, AdminGoesOn
<1>5. ASSUME NEW actor \in Admins, NEW target \in Admins, NEW r \in Roles,
             P!Invite(c, actor, target, r)
      PROVE  AdminInv'
  <2> DEFINE f == [P!NoFrame EXCEPT !.target = target, !.role = r]
  <2>1. /\ adminPc' = [adminPc EXCEPT ![c] = "ensure"]
        /\ adminFrame' = [adminFrame EXCEPT ![c] = f]
    BY <1>5 DEF P!Invite, P!Request, P!Goto
  <2>2. f \in AdminFrame /\ f.target = target /\ f.role = r
    BY DEF P!NoFrame, AdminFrame
  <2> HIDE DEF f
  <2>3. QED
    BY <1>2, <2>1, <2>2, AdminGoesOn
<1>6. ASSUME P!Load(c) PROVE AdminInv'
  <2>1. CASE P!Return(c)
    BY <1>3, <2>1
  <2>2. CASE ~P!Return(c)
    <3> DEFINE f == [adminFrame[c] EXCEPT !.actor = IF @ = adminFrame[c].target THEN @ ELSE None]
               label == IF adminFrame[c].target # adminFrame[c].actor
                           /\ P!IsSuper(adminFrame[c].target) /\ P!Demotes(adminFrame[c])
                        THEN "count" ELSE "write"
    <3>1. /\ adminPc[c] = "load" /\ ~P!Refused(adminFrame[c])
          /\ adminPc' = [adminPc EXCEPT ![c] = label]
          /\ adminFrame' = [adminFrame EXCEPT ![c] = f]
      BY <1>6, <2>2 DEF P!Load, P!Goto
    <3>2. /\ f \in AdminFrame /\ f.target = adminFrame[c].target /\ f.role = adminFrame[c].role
          /\ f.status = adminFrame[c].status /\ f.stale = adminFrame[c].stale
          /\ adminFrame[c].actor = adminFrame[c].target => f.actor = f.target
      BY <1>1 DEF AdminFrame
    <3>3. f.target \in Admins
      BY <1>1, <3>1, <3>2 DEF AdminTypes
    <3>4. ~f.stale => adminFrame[c].actor \in P!Supers
      BY <3>1, <3>2 DEF AdminInv, CallOK
    <3> HIDE DEF f
    <3>5. ASSUME ~f.stale, label = "write", Lowers(f) PROVE P!Supers \ {f.target} # {}
      <4>1. adminFrame[c].actor # f.target
        <5>1. SUFFICES ASSUME adminFrame[c].actor = f.target PROVE FALSE
          OBVIOUS
        <5>2. f.actor = f.target
          BY <3>2, <5>1
        <5>3. P!Demotes(f) => P!Demotes(adminFrame[c])
          BY <3>2 DEF P!Demotes
        <5>4. P!IsSuper(f.target) /\ P!Demotes(f)
          BY <3>5, <5>2 DEF Lowers, P!EndsOwnAccess
        <5>5. QED
          BY <3>1, <3>2, <5>1, <5>3, <5>4 DEF P!Refused
      <4>2. QED
        BY <3>4, <3>5, <4>1
    <3>6. /\ label \in {"count", "write"} /\ label # "load"
          /\ label \notin {"idle", "ensure", "invite", "promote"}
      OBVIOUS
    <3> HIDE DEF label
    <3>7. QED
      BY <1>2, <3>1, <3>2, <3>3, <3>5, <3>6, AdminGoesOn
  <2>3. QED
    BY <2>1, <2>2
<1>7. ASSUME P!Count(c) PROVE AdminInv'
  <2>1. CASE P!Return(c)
    BY <1>3, <2>1
  <2>2. CASE ~P!Return(c)
    <3> DEFINE f == [adminFrame[c] EXCEPT !.stale = FALSE]
    <3>1. /\ adminPc[c] = "count" /\ P!Supers \ {adminFrame[c].target} # {}
          /\ adminPc' = [adminPc EXCEPT ![c] = "write"]
          /\ adminFrame' = [adminFrame EXCEPT ![c] = f]
      BY <1>7, <2>2 DEF P!Count, P!Goto
    <3>2. f \in AdminFrame /\ f.target = adminFrame[c].target
      BY <1>1 DEF AdminFrame
    <3>3. f.target \in Admins
      BY <1>1, <3>1, <3>2 DEF AdminTypes
    <3> HIDE DEF f
    <3>4. QED
      BY <1>2, <3>1, <3>2, <3>3, AdminGoesOn
  <2>3. QED
    BY <2>1, <2>2
<1>8. ASSUME NEW ok \in BOOLEAN, P!CreateInvitation(c, ok) PROVE AdminInv'
  <2>1. CASE P!Return(c)
    BY <1>3, <2>1
  <2>2. CASE ~P!Return(c)
    <3>1. /\ adminPc[c] = "invite" /\ adminFrame' = adminFrame
          /\ adminPc' = [adminPc EXCEPT ![c] = "promote"]
      BY <1>8, <2>2 DEF P!CreateInvitation, P!Goto
    <3>2. adminFrame' = [adminFrame EXCEPT ![c] = adminFrame[c]]
      BY <1>1, <3>1 DEF AdminTypes
    <3>3. adminFrame[c].target \in Admins /\ adminFrame[c].role \in Roles
      BY <1>1, <3>1 DEF AdminTypes
    <3>4. QED
      BY <1>1, <1>2, <3>1, <3>2, <3>3, AdminGoesOn
  <2>3. QED
    BY <2>1, <2>2
<1>9. P!Abandon(c) => AdminInv'
  BY <1>3 DEF P!Abandon
<1>10. QED
  BY <1>4, <1>5, <1>6, <1>7, <1>8, <1>9

LEMMA WritesKeepInv ==
    ASSUME AdminInv, NEW c \in Calls, P!Write(c) \/ P!Promote(c)
    PROVE  AdminInv'
<1>1. AdminTypes /\ adminFrame[c] \in AdminFrame
  BY DEF AdminInv, AdminTypes
<1>2. /\ adminPc[c] # "idle" /\ adminFrame[c].target \in Admins
      /\ P!Promote(c) => adminFrame[c].role \in Roles
  BY <1>1 DEF AdminTypes, P!Write, P!Promote
<1>3. /\ adminPc' = [adminPc EXCEPT ![c] = "idle"] /\ adminFrame' = P!Stale(c)
  BY DEF P!Write, P!Promote, P!Goto
<1>4. role' \in [Admins -> Roles]
  BY <1>1, <1>2 DEF P!Write, P!Promote, AdminTypes, AdminFrame
<1>5. adminStatus' \in [Admins -> UserStatuses \cup {"invited", "missing"}]
  BY <1>1, <1>2 DEF P!Write, P!Promote, AdminTypes, AdminFrame
<1>6. /\ adminPc' \in [Calls -> {"idle", "load", "count", "write", "ensure", "invite", "promote"}]
      /\ \A d \in Calls : IF d = c THEN adminPc'[d] = "idle" ELSE adminPc'[d] = adminPc[d]
  BY <1>1, <1>3 DEF AdminTypes
<1>7. QED
  BY <1>3, <1>4, <1>5, <1>6, AdminChange

\* Profiles that appear or are claimed take no super admin away.
LEMMA ProfilesKeepInv ==
    ASSUME AdminInv,
           \/ \E u \in Admins : P!SignIn(u)
           \/ \E c \in Calls : P!EnsureProfile(c)
    PROVE  AdminInv' /\ P!Supers \subseteq P!Supers'
<1>1. AdminTypes
  BY DEF AdminInv
<1>2. role' = role /\ adminFrame' = adminFrame
  BY DEF P!SignIn, P!EnsureProfile
<1>3. PICK u \in Admins, s \in UserStatuses \cup {"invited", "missing"} :
          /\ adminStatus' = [adminStatus EXCEPT ![u] = s]
          /\ adminStatus[u] = "active" => s = "active"
  <2>1. ASSUME NEW u \in Admins, P!SignIn(u)
        PROVE  \E s \in UserStatuses \cup {"invited", "missing"} :
                  /\ adminStatus' = [adminStatus EXCEPT ![u] = s]
                  /\ adminStatus[u] = "active" => s = "active"
    BY <2>1, ServicesAssumption DEF P!SignIn, P!AdminsAssumption
  <2>2. ASSUME NEW c \in Calls, P!EnsureProfile(c)
        PROVE  \E u \in Admins : \E s \in UserStatuses \cup {"invited", "missing"} :
                  /\ adminStatus' = [adminStatus EXCEPT ![u] = s]
                  /\ adminStatus[u] = "active" => s = "active"
    <3> DEFINE u == adminFrame[c].target
               s == IF adminStatus[u] = "missing" THEN "invited" ELSE adminStatus[u]
    <3>1. u \in Admins /\ adminStatus' = [adminStatus EXCEPT ![u] = s]
      BY <1>1, <2>2 DEF P!EnsureProfile, AdminTypes
    <3>2. s \in UserStatuses \cup {"invited", "missing"} /\ (adminStatus[u] = "active" => s = "active")
      BY <1>1, <3>1 DEF AdminTypes
    <3> HIDE DEF s, u
    <3>3. QED
      BY <3>1, <3>2
  <2>3. QED
    BY <2>1, <2>2
<1>4. P!Supers \subseteq P!Supers'
  BY <1>1, <1>2, <1>3 DEF P!Supers, P!IsSuper, AdminTypes
<1>5. \A d \in Calls : adminPc'[d] = adminPc[d]
          \/ (adminPc[d] = "ensure" /\ adminPc'[d] = "invite")
  BY <1>1 DEF P!SignIn, P!EnsureProfile, P!Goto, AdminTypes
<1>6. adminPc' \in [Calls -> {"idle", "load", "count", "write", "ensure", "invite", "promote"}]
  BY <1>1 DEF P!SignIn, P!EnsureProfile, P!Goto, AdminTypes
<1>7. AdminTypes'
  BY <1>1, <1>2, <1>3, <1>5, <1>6 DEF AdminTypes
<1>8. \A d \in Calls : CallOK(d)'
  BY <1>2, <1>4, <1>5 DEF AdminInv, CallOK, Lowers, P!IsSuper, P!Demotes, P!EndsOwnAccess
<1>9. QED
  BY <1>4, <1>7, <1>8 DEF AdminInv

LEMMA AdministrationInv == Spec => []AdminInv
<1>1. Init => AdminInv
  BY InitAdmins DEF Init
<1>2. ASSUME AdminInv, P!Next PROVE AdminInv'
  <2>1. ASSUME NEW u \in Admins, P!DeleteAccount(u) PROVE AdminInv'
    <3>1. /\ AdminTypes /\ role' = role /\ adminPc' = adminPc /\ adminFrame' = P!Stale(None)
          /\ adminStatus' = [adminStatus EXCEPT ![u] = "suspended"]
      BY <1>2, <2>1 DEF P!DeleteAccount, AdminInv
    <3>2. None \notin Calls
      BY ServicesAssumption DEF P!AdminsAssumption
    <3>3. /\ adminStatus' \in [Admins -> UserStatuses \cup {"invited", "missing"}]
          /\ role' \in [Admins -> Roles]
          /\ adminPc' \in [Calls -> {"idle", "load", "count", "write", "ensure", "invite",
                                      "promote"}]
      BY <3>1, ServicesAssumption DEF AdminTypes, P!AdminsAssumption
    <3>4. QED
      BY <1>2, <3>1, <3>2, <3>3, AdminChange
  <2>2. QED
    BY <1>2, <2>1, AdminCallsKeepInv, WritesKeepInv, ProfilesKeepInv DEF P!Next
<1>3. AdminInv /\ UNCHANGED adminVars => AdminInv'
  BY DEF adminVars, AdminInv, AdminTypes, CallOK, Lowers, P!IsSuper, P!Demotes, P!Supers,
         P!EndsOwnAccess
<1>4. AdminInv /\ [Next]_vars => AdminInv'
  BY <1>2, <1>3, OneMoves
<1>5. QED
  BY <1>1, <1>4, PTL DEF Spec

LastSuperStep ==
    P!Supers # {} /\ P!Supers' = {} =>
        \/ adminPc' = adminPc
        \/ \E c \in Calls : adminPc[c] = "promote" /\ adminPc'[c] = "idle"
        \/ \E c \in Calls : /\ adminPc[c] = "write" /\ adminPc'[c] = "idle"
                            /\ adminFrame[c].stale \/ P!EndsOwnAccess(adminFrame[c])

\* A write that is not stale leaves a super admin, unless he writes himself off.
LEMMA WriteLeavesASuper ==
    ASSUME AdminInv, NEW c \in Calls, P!Write(c), P!Supers # {}, ~adminFrame[c].stale,
           ~P!EndsOwnAccess(adminFrame[c])
    PROVE  P!Supers' # {}
<1> DEFINE f == adminFrame[c]
<1>1. /\ adminPc[c] = "write" /\ AdminTypes
      /\ role' = [role EXCEPT ![f.target] = IF f.role = None THEN role[f.target] ELSE f.role]
      /\ adminStatus' = [adminStatus EXCEPT ![f.target] =
                            IF f.status = None THEN adminStatus[f.target] ELSE f.status]
  BY DEF P!Write, AdminInv
<1>2. \A u \in P!Supers : u # f.target => u \in P!Supers'
  BY <1>1 DEF P!Supers, P!IsSuper, AdminTypes
<1>3. CASE Lowers(f)
  BY <1>1, <1>2, <1>3 DEF AdminInv, CallOK
<1>4. CASE ~Lowers(f)
  <2>1. f.target \in Admins /\ f.status \in UserStatuses \cup {None}
    BY <1>1 DEF AdminTypes, AdminFrame
  <2>2. f.target \in P!Supers => f.target \in P!Supers'
    <3> SUFFICES ASSUME f.target \in P!Supers PROVE f.target \in P!Supers'
      OBVIOUS
    <3>1. role[f.target] = "mactech_super_admin" /\ adminStatus[f.target] = "active"
      BY DEF P!Supers, P!IsSuper
    <3>2. f.role \in {None, "mactech_super_admin"} /\ f.status \in {None, "active"}
      BY <1>4, <3>1 DEF Lowers, P!IsSuper, P!Demotes
    <3>3. role'[f.target] = "mactech_super_admin"
      BY <1>1, <2>1, <3>1, <3>2 DEF AdminTypes
    <3>4. adminStatus'[f.target] = "active"
      BY <1>1, <2>1, <3>1, <3>2 DEF AdminTypes
    <3>5. QED
      BY <2>1, <3>3, <3>4 DEF P!Supers, P!IsSuper
  <2>3. QED
    BY <1>2, <2>2
<1>5. QED
  BY <1>3, <1>4

\* The last active super admin is not demoted or made inactive by somebody's
\* request whose reads still hold (updatePlatformUser, which counts the others
\* for demotions only); his own request may make him inactive, and the theorem
\* leaves it out, as it does invitations and Clerk.
THEOREM TheLastSuperAdminStays == Spec => LastSuperAdminStays
<1>1. AdminInv /\ [Next]_vars => [LastSuperStep]_(P!vars)
  <2> SUFFICES ASSUME AdminInv, P!Next \/ UNCHANGED adminVars PROVE [LastSuperStep]_(P!vars)
    BY OneMoves
  <2>1. CASE UNCHANGED adminVars
    BY <2>1 DEF adminVars, P!vars
  <2>2. ASSUME NEW c \in Calls, P!Write(c) PROVE LastSuperStep
    <3>1. adminPc[c] = "write" /\ adminPc'[c] = "idle"
      BY <2>2 DEF P!Write, P!Goto, AdminInv, AdminTypes
    <3>2. QED
      BY <2>2, <3>1, WriteLeavesASuper DEF LastSuperStep
  <2>3. ASSUME NEW c \in Calls, P!Promote(c) PROVE LastSuperStep
    <3>1. adminPc[c] = "promote" /\ adminPc'[c] = "idle"
      BY <2>3 DEF P!Promote, P!Goto, AdminInv, AdminTypes
    <3>2. QED
      BY <3>1 DEF LastSuperStep
  <2>4. ASSUME NEW u \in Admins, P!DeleteAccount(u) PROVE LastSuperStep
    BY <2>4 DEF P!DeleteAccount, LastSuperStep
  <2>5. (\E u \in Admins : P!SignIn(u)) \/ (\E c \in Calls : P!EnsureProfile(c)) => LastSuperStep
    BY ProfilesKeepInv DEF LastSuperStep
  <2>6. UNCHANGED <<role, adminStatus>> => LastSuperStep
    BY DEF LastSuperStep, P!Supers, P!IsSuper
  <2>7. P!Next => LastSuperStep
    BY <2>2, <2>3, <2>4, <2>5, <2>6 DEF P!Next, P!Update, P!Invite, P!Request, P!Load,
       P!Count, P!CreateInvitation, P!Abandon
  <2>8. QED
    BY <2>1, <2>7
<1>2. LastSuperAdminStays <=> [][LastSuperStep]_(P!vars)
  BY PTL DEF LastSuperAdminStays, P!LastSuperAdminStays, LastSuperStep
<1>3. QED
  BY <1>1, <1>2, AdministrationInv, PTL DEF Spec

-----------------------------------------------------------------------------
(***************************************************************************)
(* ApiKeys.  On a line that nothing disturbed one call at a time is at     *)
(* work: the key it rotates stays the live one until there is a successor. *)
(***************************************************************************)
KeyTypes ==
    /\ line \in [ApiKeyIds -> ApiKeyIds \cup {None}]
    /\ active \subseteq ApiKeyIds /\ keyDisturbed \subseteq ApiKeyIds
    /\ keyPc \in [Calls -> {"idle", "issue", "revoke", "withdraw"}]
    /\ subject \in [Calls -> ApiKeyIds \cup {None}]
    /\ \A k \in active : line[k] # None
    /\ \A k \in ApiKeyIds : line[k] # None => line[line[k]] # None
    /\ \A c \in Calls : /\ keyPc[c] = "idle" <=> subject[c] = None
                        /\ subject[c] # None => line[subject[c]] # None

\* Call c works on line l; key k is about to be revoked for its successor.
WorksOn(c, l) == subject[c] # None /\ line[subject[c]] = l
Outgoing(k) == \E c \in Calls : keyPc[c] = "revoke" /\ subject[c] = k

LineOK(l) ==
    /\ \A c, d \in Calls : WorksOn(c, l) /\ WorksOn(d, l) => c = d
    /\ \A c \in Calls : WorksOn(c, l) /\ keyPc[c] = "issue" => subject[c] \in active
    /\ \A j, k \in active :
          (line[j] = l /\ line[k] = l /\ ~Outgoing(j) /\ ~Outgoing(k)) => j = k

KeyInv == KeyTypes /\ \A l \in ApiKeyIds \ keyDisturbed : LineOK(l)

LEMMA NoneIsNoKey == None \notin ApiKeyIds
  BY ServicesAssumption DEF K!ApiKeysAssumption

LEMMA InitKeys == K!Init => KeyInv
  BY NoneIsNoKey DEF K!Init, KeyInv, KeyTypes, LineOK, WorksOn, Outgoing

LEMMA CreateKeepsLines ==
    ASSUME KeyInv, NEW n \in ApiKeyIds, K!CreateApiKey(n)
    PROVE  KeyInv'
<1>1. /\ line[n] = None /\ line' = [line EXCEPT ![n] = n] /\ active' = active \cup {n}
      /\ UNCHANGED <<keyDisturbed, keyPc, subject>>
  BY DEF K!CreateApiKey, K!Insert, K!Issued
<1>2. KeyTypes
  BY DEF KeyInv
<1>3. \A k \in ApiKeyIds : line'[k] = IF k = n THEN n ELSE line[k]
  BY <1>1, <1>2 DEF KeyTypes
<1>4. KeyTypes'
  BY <1>1, <1>2, <1>3, NoneIsNoKey DEF KeyTypes
<1>5. ASSUME NEW l \in ApiKeyIds \ keyDisturbed PROVE LineOK(l)'
  <2>1. LineOK(l)
    BY DEF KeyInv
  <2>2. \A c \in Calls : WorksOn(c, l)' = WorksOn(c, l)
    BY <1>1, <1>2, <1>3 DEF WorksOn, KeyTypes
  <2>3. \A k : Outgoing(k)' = Outgoing(k)
    BY <1>1 DEF Outgoing
  <2>4. CASE l = n
    <3>1. \A k \in ApiKeyIds : line[k] # l
      BY <1>1, <1>2, <2>4, NoneIsNoKey DEF KeyTypes
    <3>2. \A c \in Calls : ~WorksOn(c, l)
      BY <1>2, <3>1 DEF WorksOn, KeyTypes
    <3>3. \A k \in active' : line'[k] = l => k = n
      BY <1>1, <1>2, <1>3, <3>1 DEF KeyTypes
    <3>4. QED
      BY <2>2, <3>2, <3>3 DEF LineOK
  <2>5. CASE l # n
    <3>1. \A k \in active' : line'[k] = l => k \in active /\ line[k] = l
      BY <1>1, <1>2, <1>3, <2>5 DEF KeyTypes
    <3>2. QED
      BY <1>1, <2>1, <2>2, <2>3, <3>1 DEF LineOK
  <2>6. QED
    BY <2>4, <2>5
<1>6. QED
  BY <1>1, <1>4, <1>5 DEF KeyInv

\* A call begins to work on a line: alone, or the line is disturbed.
LEMMA BeginKeepsLines ==
    ASSUME KeyInv, NEW c \in Calls, NEW k \in ApiKeyIds, NEW label \in {"issue", "withdraw"},
           K!Begin(c, k, label), label = "issue" => k \in active
    PROVE  KeyInv'
<1>1. /\ keyPc[c] = "idle" /\ line[k] # None
      /\ keyPc' = [keyPc EXCEPT ![c] = label] /\ subject' = [subject EXCEPT ![c] = k]
      /\ UNCHANGED <<line, active>>
      /\ keyDisturbed' = keyDisturbed
            \/ keyDisturbed' = keyDisturbed \cup {line[k]}
      /\ line[k] \notin keyDisturbed' => \A d \in Calls : ~WorksOn(d, line[k])
  BY DEF K!Begin, K!Issued, K!Working, WorksOn
<1>2. KeyTypes
  BY DEF KeyInv
<1>3. /\ keyPc'[c] = label /\ subject'[c] = k
      /\ \A d \in Calls : d # c => keyPc'[d] = keyPc[d] /\ subject'[d] = subject[d]
      /\ subject[c] = None
  BY <1>1, <1>2 DEF KeyTypes
<1>4. KeyTypes'
  BY <1>1, <1>2, <1>3, NoneIsNoKey DEF KeyTypes
<1>5. ASSUME NEW l \in ApiKeyIds \ keyDisturbed' PROVE LineOK(l)'
  <2>1. LineOK(l)
    BY <1>1 DEF KeyInv
  <2>2. \A d \in Calls : /\ d # c => WorksOn(d, l)' = WorksOn(d, l)
                         /\ d = c => WorksOn(d, l)' = (line[k] = l)
    BY <1>1, <1>3, NoneIsNoKey DEF WorksOn
  <2>3. \A j \in ApiKeyIds : Outgoing(j)' = Outgoing(j)
    BY <1>1, <1>3 DEF Outgoing
  <2>4. \A d, e \in Calls : WorksOn(d, l)' /\ WorksOn(e, l)' => d = e
    BY <1>1, <2>1, <2>2 DEF LineOK
  <2>5. \A d \in Calls : WorksOn(d, l)' /\ keyPc'[d] = "issue" => subject'[d] \in active
    BY <1>3, <2>1, <2>2 DEF LineOK
  <2>6. QED
    BY <1>1, <1>2, <2>1, <2>3, <2>4, <2>5 DEF LineOK, KeyTypes
<1>6. QED
  BY <1>4, <1>5 DEF KeyInv

LEMMA IssueKeepsLines ==
    ASSUME KeyInv, NEW c \in Calls, NEW n \in ApiKeyIds, K!IssueSuccessor(c, n)
    PROVE  KeyInv'
<1> DEFINE m == line[subject[c]]
<1>1. /\ keyPc[c] = "issue" /\ line[n] = None
      /\ line' = [line EXCEPT ![n] = m] /\ active' = active \cup {n}
      /\ keyPc' = [keyPc EXCEPT ![c] = "revoke"]
      /\ UNCHANGED <<keyDisturbed, subject>>
  BY DEF K!IssueSuccessor, K!Insert, K!Issued
<1>2. KeyTypes
  BY DEF KeyInv
<1>3. /\ subject[c] \in ApiKeyIds /\ m \in ApiKeyIds /\ line[m] # None /\ m # n
      /\ subject[c] # n
  BY <1>1, <1>2 DEF KeyTypes
<1> HIDE DEF m
<1>4. /\ \A k \in ApiKeyIds : line'[k] = IF k = n THEN m ELSE line[k]
      /\ keyPc'[c] = "revoke"
      /\ \A d \in Calls : d # c => keyPc'[d] = keyPc[d]
  BY <1>1, <1>2 DEF KeyTypes
<1>5. KeyTypes'
  <2>1. \A d \in Calls : subject[d] # None => line'[subject[d]] # None
    BY <1>2, <1>3, <1>4, NoneIsNoKey DEF KeyTypes
  <2>2. \A k \in ApiKeyIds : line'[k] # None => line'[line'[k]] # None
    BY <1>2, <1>3, <1>4, NoneIsNoKey DEF KeyTypes
  <2>3. \A k \in active' : line'[k] # None
    BY <1>1, <1>2, <1>3, <1>4, NoneIsNoKey DEF KeyTypes
  <2>4. \A d \in Calls : keyPc'[d] = "idle" <=> subject'[d] = None
    BY <1>1, <1>2, <1>4 DEF KeyTypes
  <2>5. QED
    BY <1>1, <1>2, <1>3, <2>1, <2>2, <2>3, <2>4 DEF KeyTypes
<1>6. ASSUME NEW l \in ApiKeyIds \ keyDisturbed PROVE LineOK(l)'
  <2>1. LineOK(l)
    BY DEF KeyInv
  <2>2. \A d \in Calls : WorksOn(d, l)' = WorksOn(d, l)
    BY <1>1, <1>2, <1>4 DEF WorksOn, KeyTypes
  <2>3. \A k \in ApiKeyIds : Outgoing(k)' = (Outgoing(k) \/ k = subject[c])
    <3>1. \A d \in Calls : keyPc'[d] = "revoke" <=> d = c \/ keyPc[d] = "revoke"
      BY <1>4
    <3>2. QED
      BY <1>1, <3>1 DEF Outgoing
  <2>4. \A d \in Calls : WorksOn(d, l)' /\ keyPc'[d] = "issue" => subject'[d] \in active'
    BY <1>1, <1>4, <2>1, <2>2 DEF LineOK
  <2>5. CASE l # m
    <3>1. \A k \in active' : line'[k] = l => k \in active /\ line[k] = l
      BY <1>1, <1>2, <1>4, <2>5 DEF KeyTypes
    <3>2. QED
      BY <1>2, <2>1, <2>2, <2>3, <2>4, <3>1 DEF LineOK, KeyTypes
  <2>6. CASE l = m
    <3>1. WorksOn(c, l) /\ subject[c] \in active /\ line[subject[c]] = l
      BY <1>1, <1>3, <2>1, <2>6, NoneIsNoKey DEF WorksOn, LineOK, m
    <3>2. \A k \in active : line[k] = l => ~Outgoing(k)
      <4> SUFFICES ASSUME NEW k \in active, line[k] = l,
                          NEW d \in Calls, keyPc[d] = "revoke", subject[d] = k
                   PROVE  FALSE
        BY DEF Outgoing
      <4>1. WorksOn(d, l)
        BY <1>2, NoneIsNoKey DEF WorksOn, KeyTypes
      <4>2. QED
        BY <1>1, <2>1, <3>1, <4>1 DEF LineOK
    <3>3. \A k \in active : line[k] = l => k = subject[c]
      BY <2>1, <3>1, <3>2 DEF LineOK
    <3>4. \A k \in active' : line'[k] = l /\ ~Outgoing(k)' => k = n
      BY <1>1, <1>2, <1>4, <2>3, <3>3 DEF KeyTypes
    <3>5. QED
      BY <2>1, <2>2, <2>4, <3>4 DEF LineOK
  <2>7. QED
    BY <2>5, <2>6
<1>7. QED
  BY <1>1, <1>5, <1>6 DEF KeyInv

\* A call ends, with or without the revocation of its key.
LEMMA ReturnKeepsLines ==
    ASSUME KeyInv, NEW c \in Calls, K!Return(c), line' = line,
           active' = active \/ active' = active \ {subject[c]},
           keyDisturbed' = keyDisturbed \/ keyDisturbed' = keyDisturbed \cup {line[subject[c]]},
           keyPc[c] # "idle",
           keyPc[c] = "revoke"
               => \/ active' = active \ {subject[c]}
                  \/ keyDisturbed' = keyDisturbed \cup {line[subject[c]]}
    PROVE  KeyInv'
<1>1. keyPc' = [keyPc EXCEPT ![c] = "idle"] /\ subject' = [subject EXCEPT ![c] = None]
  BY DEF K!Return
<1>2. KeyTypes
  BY DEF KeyInv
<1>3. /\ keyPc'[c] = "idle" /\ subject'[c] = None
      /\ \A d \in Calls : d # c => keyPc'[d] = keyPc[d] /\ subject'[d] = subject[d]
      /\ subject[c] \in ApiKeyIds /\ line[subject[c]] \in ApiKeyIds
  BY <1>1, <1>2 DEF KeyTypes
<1>4. KeyTypes'
  BY <1>1, <1>2, <1>3 DEF KeyTypes
<1>5. ASSUME NEW l \in ApiKeyIds \ keyDisturbed' PROVE LineOK(l)'
  <2>1. LineOK(l)
    BY DEF KeyInv
  <2>2. \A d \in Calls : /\ d # c => WorksOn(d, l)' = WorksOn(d, l)
                         /\ ~WorksOn(c, l)'
    BY <1>3 DEF WorksOn
  <2>3. \A k \in active' : line[k] = l /\ Outgoing(k) => Outgoing(k)'
    <3> SUFFICES ASSUME NEW k \in active', line[k] = l, NEW d \in Calls,
                        keyPc[d] = "revoke", subject[d] = k
                 PROVE  Outgoing(k)'
      BY DEF Outgoing
    <3>1. d # c
      BY <1>2 DEF KeyTypes
    <3>2. QED
      BY <1>3, <3>1 DEF Outgoing
  <2>4. ASSUME NEW d \in Calls, WorksOn(d, l)', keyPc'[d] = "issue"
        PROVE  subject'[d] \in active'
    <3>1. d # c /\ WorksOn(d, l) /\ keyPc[d] = "issue" /\ subject'[d] = subject[d]
      BY <1>3, <2>2, <2>4
    <3>2. subject[d] \in active
      BY <2>1, <3>1 DEF LineOK
    <3>3. ~WorksOn(c, l)
      BY <2>1, <3>1 DEF LineOK
    <3>4. subject[d] # subject[c]
      BY <3>1, <3>3 DEF WorksOn
    <3>5. QED
      BY <3>1, <3>2, <3>4
  <2>5. active' \subseteq active
    OBVIOUS
  <2>6. QED
    BY <2>1, <2>2, <2>3, <2>4, <2>5 DEF LineOK
<1>6. QED
  BY <1>4, <1>5 DEF KeyInv

LEMMA KeyRingInv == Spec => []KeyInv
<1>1. Init => KeyInv
  BY InitKeys DEF Init
<1>2. ASSUME KeyInv, K!Next PROVE KeyInv'
  <2>1. ASSUME NEW c \in Calls, NEW k \in ApiKeyIds, K!LoadForRotation(c, k) PROVE KeyInv'
    BY <1>2, <2>1, BeginKeepsLines DEF K!LoadForRotation
  <2>2. ASSUME NEW c \in Calls, NEW k \in ApiKeyIds, K!BeginRevocation(c, k) PROVE KeyInv'
    BY <1>2, <2>2, BeginKeepsLines DEF K!BeginRevocation
  <2>3. ASSUME NEW c \in Calls, K!RevokePredecessor(c) \/ K!RevokeApiKey(c) PROVE KeyInv'
    <3>1. line' = line /\ active' = active \ {subject[c]} /\ K!Return(c)
          /\ keyPc[c] # "idle" /\ keyDisturbed' = keyDisturbed
      BY <2>3 DEF K!RevokePredecessor, K!RevokeApiKey, K!SetRevoked
    <3>2. QED
      BY <1>2, <3>1, ReturnKeepsLines
  <2>4. ASSUME NEW c \in Calls, K!Abandon(c) PROVE KeyInv'
    <3>1. line' = line /\ active' = active /\ K!Return(c) /\ keyPc[c] # "idle"
          /\ keyDisturbed' = IF keyPc[c] = "revoke" THEN keyDisturbed \cup {line[subject[c]]}
                             ELSE keyDisturbed
      BY <2>4 DEF K!Abandon
    <3>2. QED
      BY <1>2, <3>1, ReturnKeepsLines
  <2>5. QED
    BY <1>2, <2>1, <2>2, <2>3, <2>4, CreateKeepsLines, IssueKeepsLines DEF K!Next
<1>3. KeyInv /\ UNCHANGED keyVars => KeyInv'
  BY DEF keyVars, KeyInv, KeyTypes, LineOK, WorksOn, Outgoing
<1>4. KeyInv /\ [Next]_vars => KeyInv'
  BY <1>2, <1>3, OneMoves
<1>5. QED
  BY <1>1, <1>4, PTL DEF Spec

\* What an undisturbed line has is bounded by what LineOK says.
LEMMA FewLive ==
    ASSUME KeyInv, NEW l \in ApiKeyIds \ keyDisturbed
    PROVE  Cardinality(K!Live(l)) <=
               IF \E c \in Calls : keyPc[c] = "revoke" /\ line[subject[c]] = l THEN 2 ELSE 1
<1>1. KeyTypes /\ LineOK(l)
  BY DEF KeyInv
<1> DEFINE live == K!Live(l)
           staying == {k \in live : ~Outgoing(k)}
<1>2. \A j, k \in staying : j = k
  BY <1>1 DEF LineOK, K!Live
<1>3. \A k \in live : k \in active /\ line[k] = l
  BY DEF K!Live
<1>4. PICK s : staying \subseteq {s}
  BY <1>2
<1>5. IsFiniteSet({s}) /\ Cardinality({s}) = 1
  BY FS_Singleton
<1>6. CASE \E c \in Calls : keyPc[c] = "revoke" /\ line[subject[c]] = l
  <2>1. PICK c \in Calls : keyPc[c] = "revoke" /\ line[subject[c]] = l
    BY <1>6
  <2>2. \A k \in live : k = s \/ k = subject[c]
    <3> SUFFICES ASSUME NEW k \in live, NEW d \in Calls, keyPc[d] = "revoke", subject[d] = k
                 PROVE  k = subject[c]
      BY <1>4 DEF Outgoing
    <3>1. WorksOn(d, l) /\ WorksOn(c, l)
      BY <1>1, <1>3, <2>1, NoneIsNoKey DEF WorksOn, KeyTypes
    <3>2. QED
      BY <1>1, <3>1 DEF LineOK
  <2>3. live \in SUBSET ({s} \cup {subject[c]})
    BY <2>2
  <2>4. IsFiniteSet({s} \cup {subject[c]}) /\ Cardinality({s} \cup {subject[c]}) \in {1, 2}
    <3>1. /\ IsFiniteSet({s} \cup {subject[c]})
          /\ \/ Cardinality({s} \cup {subject[c]}) = Cardinality({s})
             \/ Cardinality({s} \cup {subject[c]}) = Cardinality({s}) + 1
      BY <1>5, FS_AddElement
    <3>2. QED
      BY <1>5, <3>1
  <2>5. IsFiniteSet(live) /\ Cardinality(live) <= Cardinality({s} \cup {subject[c]})
    BY <2>3, <2>4, FS_Subset
  <2>6. Cardinality(live) \in Nat
    BY <2>5, FS_CardinalityType
  <2>7. Cardinality(live) <= 2
    BY <2>4, <2>5, <2>6
  <2>8. QED
    BY <1>6, <2>7
<1>7. CASE ~ \E c \in Calls : keyPc[c] = "revoke" /\ line[subject[c]] = l
  <2>1. live \in SUBSET {s}
    BY <1>3, <1>4, <1>7 DEF Outgoing
  <2>2. Cardinality(live) <= 1
    BY <1>5, <2>1, FS_Subset
  <2>3. QED
    BY <1>7, <2>2
<1>8. QED
  BY <1>6, <1>7

FewLiveKeys ==
    \A l \in ApiKeyIds \ keyDisturbed :
        K!Cardinality(K!Live(l)) <=
            IF \E c \in Calls : keyPc[c] = "revoke" /\ line[subject[c]] = l THEN 2 ELSE 1

LineStep ==
    \A l \in ApiKeyIds \ keyDisturbed' :
        /\ (line[l] # None /\ K!Live(l) = {}) => K!Live(l)' = {}
        /\ K!Cardinality(K!Live(l)') <=
              IF \E c \in Calls : keyPc'[c] = "revoke" /\ line'[subject'[c]] = l THEN 2 ELSE 1

LEMMA EndedLinesStay ==
    ASSUME KeyInv, K!Next, NEW l \in ApiKeyIds \ keyDisturbed',
           line[l] # None, K!Live(l) = {}
    PROVE  K!Live(l)' = {}
<1>1. \A k \in active : line[k] # l
  BY DEF K!Live
<1>2. KeyTypes
  BY DEF KeyInv
<1>3. CASE active' \subseteq active /\ line' = line
  BY <1>1, <1>3 DEF K!Live
<1>4. ASSUME NEW n \in ApiKeyIds, K!CreateApiKey(n) PROVE K!Live(l)' = {}
  <2>1. line[n] = None /\ line' = [line EXCEPT ![n] = n] /\ active' = active \cup {n}
    BY <1>4 DEF K!CreateApiKey, K!Insert, K!Issued
  <2>2. \A k \in active' : line'[k] # l
    BY <1>1, <1>2, <2>1 DEF KeyTypes
  <2>3. QED
    BY <2>2 DEF K!Live
<1>5. ASSUME NEW c \in Calls, NEW n \in ApiKeyIds, K!IssueSuccessor(c, n)
      PROVE  K!Live(l)' = {}
  <2>1. /\ keyPc[c] = "issue" /\ line[n] = None /\ keyDisturbed' = keyDisturbed
        /\ line' = [line EXCEPT ![n] = line[subject[c]]] /\ active' = active \cup {n}
    BY <1>5 DEF K!IssueSuccessor, K!Insert, K!Issued
  <2>2. line[subject[c]] # l
    <3>1. LineOK(l) /\ subject[c] # None
      BY <1>2, <2>1 DEF KeyInv, KeyTypes
    <3>2. QED
      BY <1>1, <2>1, <3>1 DEF LineOK, WorksOn
  <2>3. \A k \in active' : line'[k] # l
    BY <1>1, <1>2, <2>1, <2>2 DEF KeyTypes
  <2>4. QED
    BY <2>3 DEF K!Live
<1>6. QED
  BY <1>3, <1>4, <1>5 DEF K!Next, K!LoadForRotation, K!BeginRevocation, K!Begin,
     K!RevokePredecessor, K!RevokeApiKey, K!SetRevoked, K!Abandon

\* A line of keys that has ended is not revived, and has one live key except
\* between the two writes of its rotation, for any number of keys and calls
\* (rotateApiKey and revokeApiKey, on lines that nothing else disturbed).
THEOREM LinesAreClosed == Spec => LinesEnd
<1>0. KeyInv => FewLiveKeys
  BY FewLive, OneCardinality DEF FewLiveKeys
<1>1. KeyInv /\ FewLiveKeys' /\ [Next]_vars => [LineStep]_(K!vars)
  <2> SUFFICES ASSUME KeyInv, FewLiveKeys', K!Next \/ UNCHANGED keyVars PROVE [LineStep]_(K!vars)
    BY OneMoves
  <2>1. CASE UNCHANGED keyVars
    BY <2>1 DEF keyVars, K!vars
  <2>2. CASE K!Next
    <3>1. LineStep
      BY <2>2, EndedLinesStay DEF LineStep, FewLiveKeys
    <3>2. QED
      BY <3>1
  <2>3. QED
    BY <2>1, <2>2
<1>2. LinesEnd <=> [][LineStep]_(K!vars)
  BY PTL DEF LinesEnd, K!LinesEnd, LineStep
<1>3. QED
  BY <1>0, <1>1, <1>2, KeyRingInv, PTL DEF Spec


-----------------------------------------------------------------------------
(***************************************************************************)
(* HubContracts.  A call's event follows the log as it is read: as long as *)
(* one transition at a time is in flight, the stage read is the one at the *)
(* log's end and the stamp is newer than all of it.                        *)
(***************************************************************************)
EventRow == [contract : Contracts, from : Stages \cup {None}, to : Stages, at : Nat]
HubFrame == [contract : Contracts \cup {None}, seen : Stages \cup {None},
             to : Stages \cup {None}, at : Nat, user : Users \cup {None}]
Transitions == {"award", "awardEvent", "event", "update"}
HubLabels == Transitions \cup {"idle", "remove"}

HubTypes ==
    /\ stage \in [Contracts -> Stages \cup {None}]
    /\ events \subseteq EventRow
    /\ hubClock \in Nat
    /\ hubPc \in [Calls -> HubLabels]
    /\ hubFrame \in [Calls -> HubFrame]

LogFor(k) == {e \in events : e.contract = k}

\* d comes next after e; a log that leads step by step to a stage.
ComesNext(L, e, d) == d.at > e.at /\ \A x \in L : x.at > e.at => x.at >= d.at
LeadsTo(L, s) ==
    \A e \in L :
        /\ e.from # "CLOSEOUT"
        /\ \A d \in L : ComesNext(L, e, d) => d.from = e.to
        /\ (\A d \in L : d.at <= e.at) => e.to = s

ContractOK(k) ==
    IF stage[k] = None THEN LogFor(k) = {}
    ELSE /\ \E e \in LogFor(k) : e.from = None /\ \A d \in LogFor(k) : d.from = None => d = e
         /\ \E e \in LogFor(k) : e.to = stage[k]
         /\ k \notin hubOverlapped => LeadsTo(LogFor(k), stage[k])

TransitionOK(c) ==
    LET f == hubFrame[c] IN
    /\ hubPc[c] \in Transitions <=> f.to # None
    /\ hubPc[c] \in Transitions => f.contract \in Contracts /\ f.seen \in Stages
    /\ hubPc[c] \in Transitions => stage[f.contract] # None
    /\ hubPc[c] \in Transitions /\ f.contract \notin hubOverlapped =>
          f.seen = stage[f.contract] /\ f.seen # "CLOSEOUT"
    /\ hubPc[c] \in {"award", "awardEvent"} => f.to = "ACTIVE"
    /\ hubPc[c] = "update" => f.at <= hubClock
    /\ hubPc[c] = "update" /\ f.contract \notin hubOverlapped =>
          \A e \in LogFor(f.contract) : e.at < f.at

HubInv ==
    /\ HubTypes
    /\ \A e \in events : e.at <= hubClock
    /\ \A k \in Contracts : ContractOK(k)
    /\ \A c \in Calls : TransitionOK(c)
    /\ \A c, d \in Calls :
          /\ c # d /\ hubPc[c] \in Transitions /\ hubPc[d] \in Transitions
          /\ hubFrame[c].contract = hubFrame[d].contract
          => hubFrame[c].contract \in hubOverlapped

LEMMA NoneIsNoStage ==
    /\ None \notin Stages /\ None \notin Calls /\ "ACTIVE" \in Stages /\ "CLOSEOUT" \in Stages
    /\ MaxEvents \in Nat
  BY ServicesAssumption DEF H!HubContractsAssumption

LEMMA NoHubFrame == H!NoFrame \in HubFrame /\ H!NoFrame.to = None /\ H!NoFrame.contract = None
  BY DEF H!NoFrame, HubFrame

LEMMA InitHub == H!Init => HubInv
<1> SUFFICES ASSUME H!Init PROVE HubInv
  OBVIOUS
<1>1. HubTypes /\ events = {}
  BY NoHubFrame DEF H!Init, HubTypes, HubLabels
<1>2. \A c \in Calls : hubPc[c] = "idle" /\ hubFrame[c].to = None
  BY NoHubFrame DEF H!Init
<1>3. \A k \in Contracts : stage[k] = None
  BY DEF H!Init
<1>4. \A k \in Contracts : ContractOK(k)
  BY <1>1, <1>3 DEF ContractOK, LogFor
<1>5. \A c \in Calls : TransitionOK(c)
  BY <1>2 DEF TransitionOK, Transitions
<1>6. QED
  BY <1>1, <1>2, <1>4, <1>5 DEF HubInv, Transitions

\* A log goes on with an event that is newer and starts where it ended.
LEMMA LogGoesOn ==
    ASSUME NEW L \in SUBSET EventRow, NEW s, NEW n \in EventRow, LeadsTo(L, s),
           \A e \in L : e.at < n.at, n.from = s, s # "CLOSEOUT"
    PROVE  LeadsTo(L \cup {n}, n.to)
<1> DEFINE M2 == L \cup {n}
<1>0. \A e \in M2 : e.at \in Nat
  BY DEF EventRow
<1> SUFFICES ASSUME NEW e \in M2
             PROVE  /\ e.from # "CLOSEOUT"
                    /\ \A d \in M2 : ComesNext(M2, e, d) => d.from = e.to
                    /\ (\A d \in M2 : d.at <= e.at) => e.to = n.to
  BY DEF LeadsTo
<1>1. CASE e = n
  <2>1. \A d \in M2 : ~(d.at > n.at)
    BY <1>0
  <2>2. QED
    BY <1>1, <2>1 DEF ComesNext
<1>2. CASE e \in L
  <2>1. e.from # "CLOSEOUT"
    BY <1>2 DEF LeadsTo
  <2>2. ASSUME NEW d \in L, ComesNext(M2, e, d) PROVE d.from = e.to
    <3>1. ComesNext(L, e, d)
      BY <2>2 DEF ComesNext
    <3>2. QED
      BY <1>2, <3>1 DEF LeadsTo
  <2>3. ASSUME ComesNext(M2, e, n) PROVE n.from = e.to
    <3>1. \A d \in L : d.at <= e.at
      <4> SUFFICES ASSUME NEW d \in L, ~(d.at <= e.at) PROVE FALSE
        OBVIOUS
      <4>1. d.at \in Nat /\ e.at \in Nat /\ n.at \in Nat /\ d.at < n.at
        BY <1>0
      <4>2. d.at > e.at
        BY <4>1
      <4>3. d.at >= n.at
        BY <2>3, <4>2 DEF ComesNext
      <4>4. QED
        BY <4>1, <4>3
    <3>2. QED
      BY <1>2, <3>1 DEF LeadsTo
  <2>4. ~(n.at <= e.at)
    BY <1>0, <1>2
  <2>5. QED
    BY <2>1, <2>2, <2>3, <2>4
<1>3. QED
  BY <1>1, <1>2

\* A step that writes no log.
LEMMA HubReads ==
    ASSUME HubInv, NEW c \in Calls, NEW l \in HubLabels, NEW f \in HubFrame,
           stage' = stage, events' = events, hubClock' \in Nat, hubClock <= hubClock',
           hubPc' = [hubPc EXCEPT ![c] = l], hubFrame' = [hubFrame EXCEPT ![c] = f],
           hubOverlapped \subseteq hubOverlapped',
           TransitionOK(c)',
           l \in Transitions =>
              \A d \in Calls \ {c} : hubPc[d] \in Transitions /\ hubFrame[d].contract = f.contract
                  => f.contract \in hubOverlapped'
    PROVE  HubInv'
<1>1. HubTypes
  BY DEF HubInv
<1>2. /\ hubPc'[c] = l /\ hubFrame'[c] = f
      /\ \A d \in Calls : d # c => hubPc'[d] = hubPc[d] /\ hubFrame'[d] = hubFrame[d]
  BY <1>1 DEF HubTypes
<1>3. \A k : LogFor(k)' = LogFor(k)
  BY DEF LogFor
<1>4. HubTypes'
  BY <1>1 DEF HubTypes
<1>5. \A e \in events' : e.at <= hubClock'
  <2> SUFFICES ASSUME NEW e \in events PROVE e.at <= hubClock'
    OBVIOUS
  <2>1. e.at \in Nat /\ e.at <= hubClock /\ hubClock \in Nat
    BY <1>1 DEF HubInv, HubTypes, EventRow
  <2>2. QED
    BY <2>1
<1>6. ASSUME NEW k \in Contracts PROVE ContractOK(k)'
  <2>1. ContractOK(k)
    BY DEF HubInv
  <2>2. QED
    BY <1>3, <2>1 DEF ContractOK
<1>7. ASSUME NEW d \in Calls PROVE TransitionOK(d)'
  <2>1. CASE d = c
    BY <2>1
  <2>2. CASE d # c
    <3>1. TransitionOK(d) /\ hubFrame[d].at \in Nat /\ hubClock \in Nat
      BY <1>1 DEF HubInv, HubTypes, HubFrame
    <3>2. hubPc[d] = "update" => hubFrame[d].at <= hubClock'
      BY <3>1 DEF TransitionOK
    <3>3. QED
      BY <1>2, <1>3, <2>2, <3>1, <3>2 DEF TransitionOK
  <2>3. QED
    BY <2>1, <2>2
<1>8. ASSUME NEW d \in Calls, NEW e \in Calls, d # e, hubPc'[d] \in Transitions,
             hubPc'[e] \in Transitions, hubFrame'[d].contract = hubFrame'[e].contract
      PROVE  hubFrame'[d].contract \in hubOverlapped'
  <2>1. CASE d # c /\ e # c
    BY <1>2, <1>8, <2>1 DEF HubInv
  <2>2. CASE d = c /\ e # c
    BY <1>2, <1>8, <2>2
  <2>3. CASE d # c /\ e = c
    BY <1>2, <1>8, <2>3
  <2>4. QED
    BY <1>8, <2>1, <2>2, <2>3
<1>9. Transitions' = Transitions
  BY DEF Transitions
<1>10. QED
  BY <1>4, <1>5, <1>6, <1>7, <1>8 DEF HubInv, Transitions

\* A contract's log gets an event and the contract its stage.
LEMMA HubAppends ==
    ASSUME HubInv, NEW k \in Contracts, NEW n \in EventRow,
           n.contract = k, stage' = [stage EXCEPT ![k] = n.to], events' = events \cup {n},
           hubClock' \in Nat, hubClock <= hubClock', n.at <= hubClock',
           hubOverlapped' = hubOverlapped,
           hubPc' \in [Calls -> HubLabels], hubFrame' \in [Calls -> HubFrame],
           \A d \in Calls : \/ hubPc'[d] = hubPc[d] /\ hubFrame'[d] = hubFrame[d]
                            \/ hubPc'[d] = "idle" /\ hubFrame'[d].to = None,
           \A d \in Calls : hubPc'[d] \in Transitions /\ hubFrame'[d].contract = k =>
               k \in hubOverlapped,
           stage[k] = None => n.from = None,
           stage[k] # None => n.from # None,
           stage[k] # None /\ k \notin hubOverlapped =>
              n.from = stage[k] /\ n.from # "CLOSEOUT" /\ \A e \in LogFor(k) : e.at < n.at
    PROVE  HubInv'
<1>1. HubTypes /\ ContractOK(k)
  BY DEF HubInv
<1>2. stage'[k] = n.to /\ \A j \in Contracts : j # k => stage'[j] = stage[j]
  BY <1>1 DEF HubTypes
<1>3. HubTypes'
  <2>1. n.to \in Stages
    BY DEF EventRow
  <2>2. QED
    BY <1>1, <2>1 DEF HubTypes
<1>4. LogFor(k)' = LogFor(k) \cup {n} /\ \A j : j # k => LogFor(j)' = LogFor(j)
  BY DEF LogFor
<1>5. LogFor(k) \in SUBSET EventRow
  BY <1>1 DEF HubTypes, LogFor
<1>6. \A e \in events' : e.at <= hubClock'
  <2> SUFFICES ASSUME NEW e \in events PROVE e.at <= hubClock'
    OBVIOUS
  <2>1. e.at \in Nat /\ e.at <= hubClock /\ hubClock \in Nat
    BY <1>1 DEF HubInv, HubTypes, EventRow
  <2>2. QED
    BY <2>1
<1>7. ContractOK(k)'
  <2>1. stage'[k] # None
    BY <1>2, NoneIsNoStage DEF EventRow
  <2>2. \E e \in LogFor(k)' : e.to = stage'[k]
    BY <1>2, <1>4
  <2>3. \E e \in LogFor(k)' : e.from = None /\ \A d \in LogFor(k)' : d.from = None => d = e
    <3>1. CASE stage[k] = None
      <4>1. LogFor(k)' = {n}
        BY <1>1, <1>4, <3>1 DEF ContractOK
      <4>2. QED
        BY <3>1, <4>1
    <3>2. CASE stage[k] # None
      <4>1. PICK e \in LogFor(k) : e.from = None /\ \A d \in LogFor(k) : d.from = None => d = e
        BY <1>1, <3>2 DEF ContractOK
      <4>2. QED
        BY <1>4, <3>2, <4>1
    <3>3. QED
      BY <3>1, <3>2
  <2>4. k \notin hubOverlapped' => LeadsTo(LogFor(k)', stage'[k])
    <3> SUFFICES ASSUME k \notin hubOverlapped PROVE LeadsTo(LogFor(k) \cup {n}, n.to)
      BY <1>2, <1>4
    <3>1. CASE stage[k] = None
      <4>1. LogFor(k) = {} /\ n.from = None
        BY <1>1, <3>1 DEF ContractOK
      <4>2. n.at \in Nat /\ n.from # "CLOSEOUT"
        BY <4>1, NoneIsNoStage DEF EventRow
      <4>3. QED
        BY <4>1, <4>2 DEF LeadsTo, ComesNext
    <3>2. CASE stage[k] # None
      <4>1. LeadsTo(LogFor(k), stage[k])
        BY <1>1, <3>2 DEF ContractOK
      <4>2. n.from = stage[k] /\ stage[k] # "CLOSEOUT" /\ \A e \in LogFor(k) : e.at < n.at
        BY <3>2
      <4>3. QED
        BY <1>5, <4>1, <4>2, LogGoesOn
    <3>3. QED
      BY <3>1, <3>2
  <2>5. QED
    BY <2>1, <2>2, <2>3, <2>4 DEF ContractOK
<1>8. ASSUME NEW j \in Contracts PROVE ContractOK(j)'
  <2>1. CASE j = k
    BY <1>7, <2>1
  <2>2. CASE j # k
    <3>1. ContractOK(j)
      BY DEF HubInv
    <3>2. QED
      BY <1>2, <1>4, <2>2, <3>1 DEF ContractOK
  <2>3. QED
    BY <2>1, <2>2
<1>9. ASSUME NEW d \in Calls PROVE TransitionOK(d)'
  <2>1. CASE hubPc'[d] = "idle" /\ hubFrame'[d].to = None
    BY <2>1 DEF TransitionOK, Transitions
  <2>2. CASE hubPc'[d] = hubPc[d] /\ hubFrame'[d] = hubFrame[d]
    <3>1. TransitionOK(d) /\ hubFrame[d].at \in Nat /\ hubClock \in Nat
      BY <1>1 DEF HubInv, HubTypes, HubFrame
    <3>2. hubPc[d] = "update" => hubFrame[d].at <= hubClock'
      BY <3>1 DEF TransitionOK
    <3>3. hubPc[d] \in Transitions => stage'[hubFrame[d].contract] # None
      BY <1>2, <3>1, NoneIsNoStage DEF TransitionOK, EventRow
    <3>4. CASE hubFrame[d].contract # k
      BY <1>2, <1>4, <2>2, <3>1, <3>2, <3>3, <3>4 DEF TransitionOK
    <3>5. CASE hubFrame[d].contract = k
      <4>1. hubPc[d] \in Transitions => k \in hubOverlapped'
        BY <2>2, <3>5
      <4>2. hubPc[d] = "update" => hubPc[d] \in Transitions
        BY DEF Transitions
      <4>3. QED
        BY <2>2, <3>1, <3>2, <3>3, <3>5, <4>1, <4>2 DEF TransitionOK
    <3>6. QED
      BY <3>4, <3>5
  <2>3. QED
    BY <2>1, <2>2
<1>10. ASSUME NEW d \in Calls, NEW e \in Calls, d # e, hubPc'[d] \in Transitions,
              hubPc'[e] \in Transitions, hubFrame'[d].contract = hubFrame'[e].contract
       PROVE  hubFrame'[d].contract \in hubOverlapped'
  <2>1. "idle" \notin Transitions
    BY DEF Transitions
  <2>2. /\ hubPc'[d] = hubPc[d] /\ hubFrame'[d] = hubFrame[d]
        /\ hubPc'[e] = hubPc[e] /\ hubFrame'[e] = hubFrame[e]
    BY <1>10, <2>1
  <2>3. QED
    BY <1>10, <2>2 DEF HubInv
<1>11. QED
  BY <1>3, <1>6, <1>8, <1>9, <1>10 DEF HubInv, Transitions

LEMMA CreateHub ==
    ASSUME HubInv, NEW k \in Contracts, NEW s \in Stages, NEW initial,
           H!CreateContract(k, s, initial)
    PROVE  HubInv'
<1> DEFINE n == [contract |-> k, from |-> None, to |-> s, at |-> hubClock']
<1>1. HubTypes /\ ContractOK(k)
  BY DEF HubInv
<1>2. /\ stage[k] = None /\ hubClock' = hubClock + 1 /\ stage' = [stage EXCEPT ![k] = s]
      /\ events' = events \cup {n}
      /\ hubOverlapped' = hubOverlapped /\ hubPc' = hubPc /\ hubFrame' = hubFrame
  BY DEF H!CreateContract, H!Event
<1>3. hubClock \in Nat /\ hubClock' \in Nat /\ hubClock <= hubClock'
  BY <1>1, <1>2 DEF HubTypes
<1>4. n \in EventRow /\ n.contract = k /\ n.from = None /\ n.to = s /\ n.at <= hubClock'
  BY <1>3 DEF EventRow
<1> HIDE DEF n
<1>5. \A d \in Calls : hubPc'[d] \in Transitions => hubFrame'[d].contract # k
  BY <1>2 DEF HubInv, TransitionOK
<1>6. hubPc' \in [Calls -> HubLabels] /\ hubFrame' \in [Calls -> HubFrame]
  BY <1>1, <1>2 DEF HubTypes
<1>7. \A d \in Calls : hubPc'[d] = hubPc[d] /\ hubFrame'[d] = hubFrame[d]
  BY <1>2
<1>8. QED
  BY <1>2, <1>3, <1>4, <1>5, <1>6, <1>7, HubAppends

\* A call that does nothing to a log and holds no transition afterwards.
LEMMA HubRests ==
    ASSUME HubInv, NEW c \in Calls, NEW l \in {"idle", "remove"}, NEW f \in HubFrame,
           f.to = None, stage' = stage, events' = events, hubClock' = hubClock,
           hubPc' = [hubPc EXCEPT ![c] = l], hubFrame' = [hubFrame EXCEPT ![c] = f],
           hubOverlapped' = hubOverlapped
    PROVE  HubInv'
<1>1. HubTypes
  BY DEF HubInv
<1>2. hubPc'[c] = l /\ hubFrame'[c] = f
  BY <1>1 DEF HubTypes
<1>3. l \in HubLabels /\ l \notin Transitions
  BY DEF HubLabels, Transitions
<1>4. l \notin {"update", "award", "awardEvent"}
  OBVIOUS
<1>5. TransitionOK(c)'
  BY <1>2, <1>3, <1>4 DEF TransitionOK
<1>6. hubClock \in Nat /\ hubClock' \in Nat /\ hubClock <= hubClock'
  BY <1>1 DEF HubTypes
<1>7. QED
  BY <1>3, <1>5, <1>6, HubReads

LEMMA LoadHub ==
    ASSUME HubInv, NEW c \in Calls, NEW k \in Contracts, NEW to \in Stages,
           NEW label \in {"award", "event"}, NEW closed, "CLOSEOUT" \in closed,
           label = "award" => to = "ACTIVE", H!Load(c, k, to, label, closed)
    PROVE  HubInv'
<1> DEFINE f == [H!NoFrame EXCEPT !.contract = k, !.seen = stage[k], !.to = to]
<1>1. HubTypes
  BY DEF HubInv
<1>2. /\ stage[k] # None /\ stage[k] # "CLOSEOUT" /\ stage' = stage /\ events' = events
      /\ hubClock' = hubClock
      /\ hubPc' = [hubPc EXCEPT ![c] = label] /\ hubFrame' = [hubFrame EXCEPT ![c] = f]
      /\ hubOverlapped' = IF H!InFlight(k) = {} THEN hubOverlapped ELSE hubOverlapped \cup {k}
  BY DEF H!Load, H!Goto
<1>3. stage[k] \in Stages
  BY <1>1, <1>2 DEF HubTypes
<1>4. f \in HubFrame /\ f.contract = k /\ f.seen = stage[k] /\ f.to = to
  BY <1>3 DEF H!NoFrame, HubFrame
<1> HIDE DEF f
<1>5. hubPc'[c] = label /\ hubFrame'[c] = f
  BY <1>1, <1>2 DEF HubTypes
<1>6. label \in HubLabels /\ label \in Transitions /\ label # "update" /\ label # "awardEvent"
  BY DEF HubLabels, Transitions
<1>7. TransitionOK(c)'
  BY <1>2, <1>3, <1>4, <1>5, <1>6, NoneIsNoStage DEF TransitionOK
<1>8. \A d \in Calls \ {c} : hubPc[d] \in Transitions /\ hubFrame[d].contract = k
         => k \in hubOverlapped'
  BY <1>2 DEF HubInv, TransitionOK, H!InFlight
<1>9. hubClock' \in Nat /\ hubClock <= hubClock' /\ hubOverlapped \subseteq hubOverlapped'
  BY <1>1, <1>2 DEF HubTypes
<1>10. QED
  BY <1>2, <1>4, <1>6, <1>7, <1>8, <1>9, HubReads

LEMMA LockHub ==
    ASSUME HubInv, NEW c \in Calls, H!Award(c)
    PROVE  HubInv'
<1>1. HubTypes /\ TransitionOK(c) /\ hubFrame[c] \in HubFrame
  BY DEF HubInv, HubTypes
<1>2. /\ hubPc[c] = "award" /\ stage' = stage /\ events' = events /\ hubClock' = hubClock
      /\ hubPc' = [hubPc EXCEPT ![c] = "awardEvent"]
      /\ hubFrame' = [hubFrame EXCEPT ![c] = hubFrame[c]] /\ hubOverlapped' = hubOverlapped
  BY DEF H!Award, H!Goto
<1>3. hubPc'[c] = "awardEvent" /\ hubFrame'[c] = hubFrame[c]
  BY <1>1, <1>2 DEF HubTypes
<1>4. "awardEvent" \in HubLabels /\ "awardEvent" \in Transitions /\ "award" \in Transitions
  BY DEF HubLabels, Transitions
<1>5. TransitionOK(c)'
  BY <1>1, <1>2, <1>3, <1>4 DEF TransitionOK
<1>6. \A d \in Calls \ {c} : hubPc[d] \in Transitions /\ hubFrame[d].contract = hubFrame[c].contract
         => hubFrame[c].contract \in hubOverlapped'
  BY <1>2, <1>4 DEF HubInv
<1>7. hubClock' \in Nat /\ hubClock <= hubClock'
  BY <1>1, <1>2 DEF HubTypes
<1>8. QED
  BY <1>1, <1>2, <1>4, <1>5, <1>6, <1>7, HubReads

LEMMA StampHub ==
    ASSUME HubInv, NEW c \in Calls, H!CreateEvent(c)
    PROVE  HubInv'
<1> DEFINE f == [hubFrame[c] EXCEPT !.at = hubClock']
<1>1. HubTypes /\ TransitionOK(c) /\ hubFrame[c] \in HubFrame /\ hubClock \in Nat
  BY DEF HubInv, HubTypes
<1>2. /\ hubPc[c] = "event" /\ stage' = stage /\ events' = events /\ hubClock' = hubClock + 1
      /\ hubPc' = [hubPc EXCEPT ![c] = "update"]
      /\ hubFrame' = [hubFrame EXCEPT ![c] = f] /\ hubOverlapped' = hubOverlapped
  BY DEF H!CreateEvent, H!Goto
<1>3. hubClock' \in Nat /\ hubClock <= hubClock'
  BY <1>1, <1>2
<1>4. /\ f \in HubFrame /\ f.contract = hubFrame[c].contract /\ f.seen = hubFrame[c].seen
      /\ f.to = hubFrame[c].to /\ f.at = hubClock'
  BY <1>1, <1>3 DEF HubFrame
<1> HIDE DEF f
<1>5. hubPc'[c] = "update" /\ hubFrame'[c] = f
  BY <1>1, <1>2 DEF HubTypes
<1>6. "update" \in HubLabels /\ "update" \in Transitions /\ "event" \in Transitions
  BY DEF HubLabels, Transitions
<1>7. \A e \in events : e.at < hubClock'
  <2> SUFFICES ASSUME NEW e \in events PROVE e.at < hubClock'
    OBVIOUS
  <2>1. e.at \in Nat /\ e.at <= hubClock
    BY <1>1 DEF HubInv, HubTypes, EventRow
  <2>2. QED
    BY <1>1, <1>2, <2>1
<1>8. TransitionOK(c)'
  <2>1. f.at <= hubClock'
    BY <1>3, <1>4
  <2>2. \A e \in events' : e.at < f.at
    BY <1>2, <1>4, <1>7
  <2>3. QED
    BY <1>1, <1>2, <1>4, <1>5, <1>6, <2>1, <2>2 DEF TransitionOK, LogFor
<1>9. \A d \in Calls \ {c} : hubPc[d] \in Transitions /\ hubFrame[d].contract = f.contract
         => f.contract \in hubOverlapped'
  BY <1>2, <1>4, <1>6 DEF HubInv
<1>10. QED
  BY <1>2, <1>3, <1>4, <1>6, <1>8, <1>9, HubReads

\* The transaction commits: the event as it was stamped and the stage.
LEMMA CommitHub ==
    ASSUME HubInv, NEW c \in Calls, H!CreateAwardEvent(c) \/ H!UpdateStage(c)
    PROVE  HubInv'
<1> DEFINE f == hubFrame[c]
           k == f.contract
<1>1. HubTypes /\ TransitionOK(c) /\ f \in HubFrame /\ hubClock \in Nat
  BY DEF HubInv, HubTypes
<1>2. hubPc[c] \in Transitions /\ hubPc' = [hubPc EXCEPT ![c] = "idle"]
      /\ hubFrame' = [hubFrame EXCEPT ![c] = H!NoFrame] /\ hubOverlapped' = hubOverlapped
  BY DEF H!CreateAwardEvent, H!UpdateStage, H!Return, H!Goto, Transitions
<1>3. k \in Contracts /\ stage[k] # None /\ f.seen \in Stages /\ f.to # None /\ f.to \in Stages
  BY <1>1, <1>2 DEF TransitionOK, HubFrame
<1>4. PICK at \in Nat : LET n == [contract |-> k, from |-> f.seen, to |-> f.to, at |-> at] IN
          /\ stage' = [stage EXCEPT ![k] = n.to] /\ events' = events \cup {n}
          /\ hubClock' \in Nat /\ hubClock <= hubClock' /\ at <= hubClock'
          /\ k \notin hubOverlapped => \A e \in LogFor(k) : e.at < at
  <2>1. CASE H!CreateAwardEvent(c)
    <3>1. hubPc[c] = "awardEvent" /\ hubClock' = hubClock + 1
          /\ stage' = [stage EXCEPT ![k] = "ACTIVE"]
          /\ events' = events \cup {[contract |-> k, from |-> f.seen, to |-> f.to, at |-> hubClock']}
      BY <2>1 DEF H!CreateAwardEvent, H!Event
    <3>2. f.to = "ACTIVE"
      BY <1>1, <3>1 DEF TransitionOK
    <3>3. hubClock' \in Nat /\ hubClock <= hubClock'
      BY <1>1, <3>1
    <3>4. \A e \in LogFor(k) : e.at < hubClock'
      <4> SUFFICES ASSUME NEW e \in events PROVE e.at < hubClock'
        BY DEF LogFor
      <4>1. e.at \in Nat /\ e.at <= hubClock
        BY <1>1 DEF HubInv, HubTypes, EventRow
      <4>2. QED
        BY <1>1, <3>1, <4>1
    <3>5. QED
      BY <3>1, <3>2, <3>3, <3>4
  <2>2. CASE H!UpdateStage(c)
    <3>1. hubPc[c] = "update" /\ hubClock' = hubClock
          /\ stage' = [stage EXCEPT ![k] = f.to]
          /\ events' = events \cup {[contract |-> k, from |-> f.seen, to |-> f.to, at |-> f.at]}
      BY <2>2 DEF H!UpdateStage, H!Event
    <3>2. f.at \in Nat /\ f.at <= hubClock
          /\ (k \notin hubOverlapped => \A e \in LogFor(k) : e.at < f.at)
      BY <1>1, <3>1 DEF TransitionOK, HubFrame
    <3>3. hubClock' \in Nat /\ hubClock <= hubClock'
      BY <1>1, <3>1
    <3>4. QED
      BY <3>1, <3>2, <3>3
  <2>3. QED
    BY <2>1, <2>2
<1> DEFINE n == [contract |-> k, from |-> f.seen, to |-> f.to, at |-> at]
<1>5. n \in EventRow /\ n.contract = k /\ n.from = f.seen /\ n.to = f.to /\ n.at = at
  BY <1>3 DEF EventRow
<1>6. stage' = [stage EXCEPT ![k] = n.to] /\ events' = events \cup {n}
  BY <1>4
<1> HIDE DEF n
<1>7. /\ hubPc' \in [Calls -> HubLabels] /\ hubFrame' \in [Calls -> HubFrame]
      /\ hubPc'[c] = "idle" /\ hubFrame'[c].to = None
      /\ \A d \in Calls : d # c => hubPc'[d] = hubPc[d] /\ hubFrame'[d] = hubFrame[d]
  BY <1>1, <1>2, NoHubFrame DEF HubTypes, HubLabels
<1>8. \A d \in Calls : hubPc'[d] \in Transitions /\ hubFrame'[d].contract = k => k \in hubOverlapped
  <2>1. "idle" \notin Transitions
    BY DEF Transitions
  <2>2. QED
    BY <1>2, <1>7, <2>1 DEF HubInv
<1>9. n.from # None /\ (k \notin hubOverlapped => n.from = stage[k] /\ n.from # "CLOSEOUT")
  BY <1>1, <1>2, <1>3, <1>5, NoneIsNoStage DEF TransitionOK
<1>10. QED
  BY <1>2, <1>3, <1>4, <1>5, <1>6, <1>7, <1>8, <1>9, HubAppends

LEMMA HubKeeps == HubInv /\ (H!Next \/ UNCHANGED hubVars) => HubInv'
<1> SUFFICES ASSUME HubInv, H!Next \/ UNCHANGED hubVars PROVE HubInv'
  OBVIOUS
<1>1. CASE /\ stage' = stage /\ events' = events /\ hubClock' = hubClock /\ hubPc' = hubPc
           /\ hubFrame' = hubFrame /\ hubOverlapped' = hubOverlapped
  BY <1>1 DEF HubInv, HubTypes, ContractOK, TransitionOK, LogFor, Transitions
<1>2. ASSUME NEW c \in Calls, NEW k \in Contracts, NEW u \in Users, H!FindMember(c, k, u)
      PROVE  HubInv'
  <2> DEFINE f == [H!NoFrame EXCEPT !.contract = k, !.user = u]
  <2>1. /\ stage' = stage /\ events' = events /\ hubClock' = hubClock
        /\ hubOverlapped' = hubOverlapped /\ hubPc' = [hubPc EXCEPT ![c] = "remove"]
        /\ hubFrame' = [hubFrame EXCEPT ![c] = f]
    BY <1>2 DEF H!FindMember, H!Goto
  <2>2. f \in HubFrame /\ f.to = None
    BY DEF H!NoFrame, HubFrame
  <2> HIDE DEF f
  <2>3. QED
    BY <2>1, <2>2, HubRests
<1>3. ASSUME NEW c \in Calls, H!DeleteMember(c) \/ H!Abandon(c)
      PROVE  HubInv'
  <2>1. /\ stage' = stage /\ events' = events /\ hubClock' = hubClock
        /\ hubOverlapped' = hubOverlapped /\ hubPc' = [hubPc EXCEPT ![c] = "idle"]
        /\ hubFrame' = [hubFrame EXCEPT ![c] = H!NoFrame]
    BY <1>3 DEF H!DeleteMember, H!Abandon, H!Return, H!Goto
  <2>2. QED
    BY <2>1, NoHubFrame, HubRests
<1>4. ASSUME NEW c \in Calls, NEW k \in Contracts, H!LoadForAward(c, k)
      PROVE  HubInv'
  BY <1>4, NoneIsNoStage, LoadHub DEF H!LoadForAward
<1>5. ASSUME NEW c \in Calls, NEW k \in Contracts, NEW to \in Stages, H!LoadForLifecycle(c, k, to)
      PROVE  HubInv'
  BY <1>5, LoadHub DEF H!LoadForLifecycle
<1>6. CASE \E k \in Contracts, u \in Users : H!GrantMember(k, u)
  BY <1>1, <1>6 DEF H!GrantMember
<1>7. CASE UNCHANGED hubVars
  BY <1>1, <1>7 DEF hubVars
<1>8. CASE H!Next
  BY <1>2, <1>3, <1>4, <1>5, <1>6, <1>8, CreateHub, LockHub, StampHub, CommitHub DEF H!Next
<1>9. QED
  BY <1>7, <1>8

LEMMA LeastStamp ==
    ASSUME NEW G \in SUBSET Nat, G # {}
    PROVE  \E g \in G : \A h \in G : h >= g
<1>1. \E g \in G : \A h \in G : <<h, g>> \notin OpToRel(<, Nat)
  BY WFMin, NatLessThanWellFounded, Zenon
<1>2. PICK g \in G : \A h \in G : <<h, g>> \notin OpToRel(<, Nat)
  BY <1>1
<1>3. \A h \in G : ~(h < g)
  BY <1>2 DEF OpToRel
<1>4. QED
  BY <1>3

\* Of the events after e the first comes next.
LEMMA SomeComesNext ==
    ASSUME NEW L \in SUBSET EventRow, NEW e \in L, NEW x \in L, x.at > e.at
    PROVE  \E d \in L : ComesNext(L, e, d)
<1> DEFINE stamps == {d.at : d \in {y \in L : y.at > e.at}}
<1>1. stamps \subseteq Nat /\ x.at \in stamps
  BY DEF EventRow
<1>2. PICK m \in stamps : \A y \in stamps : y >= m
  <2> HIDE DEF stamps
  <2>1. QED
    BY <1>1, LeastStamp
<1>3. PICK d \in L : d.at > e.at /\ d.at = m
  OBVIOUS
<1>4. QED
  BY <1>2, <1>3 DEF ComesNext

LEMMA HubInvMeans == HubInv => H!LogTellsTheStage
<1> SUFFICES ASSUME HubInv, NEW k \in Contracts, stage[k] # None
             PROVE  LET log == {e \in events : e.contract = k}
                        After(e) == {d \in log : d.at > e.at
                                        /\ \A x \in log : x.at > e.at => x.at >= d.at}
                    IN  /\ H!Cardinality({e \in log : e.from = None}) = 1
                        /\ \E e \in log : e.to = stage[k]
                        /\ k \notin hubOverlapped =>
                              \A e \in log : /\ e.from # "CLOSEOUT"
                                             /\ IF After(e) = {} THEN e.to = stage[k]
                                                ELSE \A d \in After(e) : d.from = e.to
  BY DEF H!LogTellsTheStage
<1> DEFINE log == {e \in events : e.contract = k}
           After(e) == {d \in log : d.at > e.at /\ \A x \in log : x.at > e.at => x.at >= d.at}
<1>1. log = LogFor(k) /\ ContractOK(k) /\ log \in SUBSET EventRow
  BY DEF LogFor, HubInv, HubTypes
<1>2. H!Cardinality({e \in log : e.from = None}) = 1
  <2>1. PICK e \in log : e.from = None /\ \A d \in log : d.from = None => d = e
    BY <1>1 DEF ContractOK
  <2>2. {d \in log : d.from = None} = {e}
    BY <2>1
  <2>3. Cardinality({e}) = 1
    BY FS_Singleton
  <2>4. QED
    BY <2>2, <2>3, OneCardinality
<1>3. \E e \in log : e.to = stage[k]
  BY <1>1 DEF ContractOK
<1>4. ASSUME k \notin hubOverlapped, NEW e \in log
      PROVE  /\ e.from # "CLOSEOUT"
             /\ IF After(e) = {} THEN e.to = stage[k] ELSE \A d \in After(e) : d.from = e.to
  <2>1. LeadsTo(log, stage[k])
    BY <1>1, <1>4 DEF ContractOK
  <2>2. \A d \in log : ComesNext(log, e, d) <=> d \in After(e)
    BY DEF ComesNext
  <2>3. \A d \in After(e) : d.from = e.to
    BY <2>1, <2>2 DEF LeadsTo
  <2>4. After(e) = {} => \A d \in log : d.at <= e.at
    <3> SUFFICES ASSUME After(e) = {}, NEW d \in log PROVE d.at <= e.at
      OBVIOUS
    <3>1. e.at \in Nat /\ d.at \in Nat
      BY <1>1 DEF EventRow
    <3>2. ~(d.at > e.at)
      BY <1>1, <2>2, SomeComesNext
    <3>3. QED
      BY <3>1, <3>2
  <2>5. QED
    BY <2>1, <2>3, <2>4 DEF LeadsTo
<1>5. QED
  BY <1>2, <1>3, <1>4

\* A contract's log has one beginning, knows its stage, and leads to it step by
\* step unless two of its transitions were in flight together, for any number of
\* contracts, stages and calls.
THEOREM LogIsTheStage == Spec => []LogTellsTheStage
<1>1. Init => HubInv
  BY InitHub DEF Init
<1>2. HubInv /\ [Next]_vars => HubInv'
  BY HubKeeps, OneMoves
<1>3. HubInv => LogTellsTheStage
  BY HubInvMeans DEF LogTellsTheStage
<1>4. QED
  BY <1>1, <1>2, <1>3, PTL DEF Spec
=============================================================================
