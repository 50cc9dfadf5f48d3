-------------------------- MODULE ObjectReferences --------------------------
(***************************************************************************)
(* References to objects that other apps own: lib/suite-object-reference.ts*)
(* and suite-object-reference-core.ts.  A service registers a reference    *)
(* for an object and version (again, if it exists), verifies it against a  *)
(* hash, and supersedes it by another reference; a superseded one cannot   *)
(* be handed on, its replacement can.                                      *)
(*                                                                         *)
(* A step is one awaited call; requests interleave and may die in between. *)
(* The key of an object and version is unique only where the version is    *)
(* given: PostgreSQL takes two nulls for different.  Out of the model: who *)
(* may operate on a reference and whether the apps, organizations and      *)
(* users it names are active, which only refuse; metadata.                 *)
(***************************************************************************)
EXTENDS Naturals, FiniteSets

CONSTANTS
    Calls,     \* slots for requests
    MaxRefs,   \* bound: references that may be created
    Names,     \* object and version
    Versioned, \* those whose version is not null
    Hashes,    \* hashes of objects, among them None
    Verdicts,  \* statuses a verification may set
    None

NamesAssumption == Versioned \subseteq Names /\ None \notin Names \cup Nat /\ MaxRefs \in Nat
VerdictsAssumption == Verdicts \subseteq {"pending", "verified", "failed"}

\* Ids, in the order in which they are given out.
Ids == 1..MaxRefs

VARIABLES
    ref, \* [Ids -> the SuiteObjectReference row, or NoRef]
    pc, frame,
    \* history
    racedCreate,   \* names of which two registrations overlapped
    racedSupersede \* references a supersession of which overlapped another one

vars == <<ref, pc, frame, racedCreate, racedSupersede>>

NoRef   == [name |-> None, hash |-> None, status |-> "none", deprecated |-> FALSE,
            replacedBy |-> None]
NoFrame == [name |-> None, hash |-> None, id |-> None, by |-> None]

Stored(i) == ref[i] # NoRef
StoredIds == {i \in Ids : Stored(i)}
NamedBy(n) == {i \in Ids : ref[i].name = n}

Goto(c, label) == pc' = [pc EXCEPT ![c] = label]
Return(c) == Goto(c, "idle") /\ frame' = [frame EXCEPT ![c] = NoFrame]
Begin(c, label, f) ==
    /\ pc[c] = "idle"
    /\ frame' = [frame EXCEPT ![c] = f]
    /\ Goto(c, label)

Superseding == {c \in Calls : pc[c] = "supersede"}

\* assertReferenceActive
IsActive(i) == ~ref[i].deprecated /\ ref[i].status # "deprecated"

-----------------------------------------------------------------------------
(***************************************************************************)
(* createSuiteObjectReference                                              *)
(***************************************************************************)
Create(c, n, h) ==
    /\ Begin(c, "find", [NoFrame EXCEPT !.name = n, !.hash = h])
    /\ racedCreate' = IF \E x \in Calls : frame[x].name = n THEN racedCreate \cup {n}
                      ELSE racedCreate
    /\ UNCHANGED <<ref, racedSupersede>>

Find(c) ==
    LET found == NamedBy(frame[c].name) IN
    /\ pc[c] = "find"
    /\ \E i \in IF found = {} THEN {None} ELSE found :
          frame' = [frame EXCEPT ![c].id = i]
    /\ Goto(c, "store")
    /\ UNCHANGED <<ref, racedCreate, racedSupersede>>

\* The one found gets the new hash and keeps its status; otherwise a row is
\* created, which the unique key may reject.
Store(c, i) ==
    LET f == frame[c] IN
    /\ pc[c] = "store"
    /\ IF f.id # None
       THEN i = f.id /\ ref' = [ref EXCEPT ![i].hash = f.hash]
       ELSE /\ i = Cardinality(StoredIds) + 1
            /\ ref' = IF f.name \in Versioned /\ NamedBy(f.name) # {} THEN ref
                      ELSE [ref EXCEPT ![i] = [NoRef EXCEPT !.name = f.name,
                                                  !.hash = f.hash, !.status = "pending"]]
    /\ Return(c)
    /\ UNCHANGED <<racedCreate, racedSupersede>>

-----------------------------------------------------------------------------
(***************************************************************************)
(* verifySuiteObjectReference: not found, superseded or another hash, or   *)
(* the status is written by id.                                            *)
(***************************************************************************)
Verify(c, i, h) ==
    /\ i \in StoredIds /\ IsActive(i)
    /\ h = None \/ ref[i].hash = None \/ ref[i].hash = h
    /\ Begin(c, "verify", [NoFrame EXCEPT !.id = i])
    /\ UNCHANGED <<ref, racedCreate, racedSupersede>>

StoreVerdict(c, status) ==
    /\ pc[c] = "verify"
    /\ ref' = [ref EXCEPT ![frame[c].id].status = status]
    /\ Return(c)
    /\ UNCHANGED <<racedCreate, racedSupersede>>

-----------------------------------------------------------------------------
(***************************************************************************)
(* deprecateSuiteObjectReference: the replacement as it was read must be   *)
(* active and another one, else the request is refused.  The one replaced  *)
(* may have been superseded before: of its own state nothing is asked.     *)
(***************************************************************************)
\* Mutant: The replacement may itself be superseded.
DeprecateByAny(c, i, by) ==
    /\ i \in StoredIds /\ by \in StoredIds \ {i}
    /\ Begin(c, "supersede", [NoFrame EXCEPT !.id = i, !.by = by])
    /\ racedSupersede' =
          IF Superseding = {} THEN racedSupersede
          ELSE racedSupersede \cup {i} \cup {frame[x].id : x \in Superseding}
    /\ UNCHANGED <<ref, racedCreate>>

Deprecate(c, i, by) ==
    /\ i \in StoredIds /\ by \in StoredIds \ {i} /\ IsActive(by)
    /\ Begin(c, "supersede", [NoFrame EXCEPT !.id = i, !.by = by])
    /\ racedSupersede' =
          IF Superseding = {} THEN racedSupersede
          ELSE racedSupersede \cup {i} \cup {frame[x].id : x \in Superseding}
    /\ UNCHANGED <<ref, racedCreate>>

Supersede(c) ==
    LET f == frame[c] IN
    /\ pc[c] = "supersede"
    /\ ref' = [ref EXCEPT ![f.id].deprecated = TRUE, ![f.id].replacedBy = f.by,
                          ![f.id].status = "deprecated"]
    /\ Return(c)
    /\ UNCHANGED <<racedCreate, racedSupersede>>

\* A statement throws, or the process dies: what is written stays.
Abandon(c) ==
    /\ pc[c] # "idle"
    /\ Return(c)
    /\ UNCHANGED <<ref, racedCreate, racedSupersede>>

Init ==
    /\ ref = [i \in Ids |-> NoRef]
    /\ pc = [c \in Calls |-> "idle"]
    /\ frame = [c \in Calls |-> NoFrame]
    /\ racedCreate = {} /\ racedSupersede = {}

Next ==
    \E c \in Calls :
        \/ \E n \in Names, h \in Hashes : Create(c, n, h)
        \/ Find(c) \/ Supersede(c) \/ Abandon(c)
        \/ \E i \in Ids :
              \/ Store(c, i)
              \/ \E h \in Hashes : Verify(c, i, h)
              \/ \E by \in Ids : Deprecate(c, i, by)
        \/ \E status \in Verdicts : StoreVerdict(c, status)

Spec == Init /\ [][Next]_vars

-----------------------------------------------------------------------------
\* What each variable may hold.
TypeOK ==
    /\ ref \in [Ids -> [name : Names \cup {None}, hash : Hashes \cup {None},
                        status : {"none", "pending", "deprecated"} \cup Verdicts,
                        deprecated : BOOLEAN, replacedBy : Ids \cup {None}]]
    /\ racedCreate \subseteq Names /\ racedSupersede \subseteq Ids
    /\ \A c \in Calls : pc[c] = "idle" => frame[c] = NoFrame

Deprecated == {i \in Ids : ref[i].deprecated}

\* Whoever holds a superseded reference can find the one to use: it names a
\* stored replacement, and no group of superseded references only points back
\* into itself, so that going from replacement to replacement ends at an active
\* one; no verification in flight and no second registration revives it.  (Of
\* two supersessions at a time each can replace what the other retires.)
SupersededLeadsToActive ==
    /\ \A i \in Deprecated : ref[i].replacedBy \in StoredIds /\ ~IsActive(i)
    /\ \A group \in (SUBSET (Deprecated \ racedSupersede)) \ {{}} :
          \E i \in group : ref[i].replacedBy \notin group

\* An object in one version has one reference, superseded or not: registering
\* it again must find it.  Only two registrations at a time of an object
\* without a version can create two.
OneReferencePerVersion ==
    \A n \in Names : n \in Versioned \/ n \notin racedCreate =>
        Cardinality(NamedBy(n)) <= 1
=============================================================================
