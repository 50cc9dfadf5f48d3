---------------------------- MODULE RecordProofs ----------------------------
(***************************************************************************)
(* What holds of the services of MCServices that keep records, for any     *)
(* numbers of calls and of whatever they record, at any bounds: metadata,  *)
(* checkout, QuickBooks, references, feedback and crash fixes.             *)
(***************************************************************************)
EXTENDS MCServices, FiniteSetTheorems, SequenceTheorems, TLAPS

-----------------------------------------------------------------------------
(***************************************************************************)
(* A step of the run is a step of one service and leaves the others alone. *)
(***************************************************************************)
LEMMA OneMoves ==
    ASSUME [Next]_vars
    PROVE  /\ M!Next \/ UNCHANGED metaVars
           /\ C!Next \/ UNCHANGED shopVars
           /\ Q!Next \/ UNCHANGED qboVars
           /\ R!Next \/ UNCHANGED refVars
           /\ F!Next \/ UNCHANGED fbVars
           /\ X!Next \/ UNCHANGED fixVars
  BY DEF Next, vars, Authority, Metadata, CheckoutStep, Quickbooks, References,
     Feedback, Fixes, Administration, Contract, KeyRing

\* What the instances call Cardinality is Cardinality.
LEMMA OneCardinality ==
    \A S : /\ C!Cardinality(S) = Cardinality(S)
           /\ R!Cardinality(S) = Cardinality(S)
  BY DEF Cardinality, C!Cardinality, R!Cardinality

-----------------------------------------------------------------------------
(***************************************************************************)
(* ObjectReferences.  The rows that are stored are the first ids; a name   *)
(* is being registered once at a time, and a replacement is active as long *)
(* as one supersession at a time is under way.                             *)
(***************************************************************************)
RefRow == [name : Names \cup {None}, hash : Hashes \cup {None},
           status : {"none", "deprecated", "pending", "verified", "failed"},
           deprecated : BOOLEAN, replacedBy : R!Ids \cup {None}]
RefFrame == [name : Names \cup {None}, hash : Hashes \cup {None},
             id : R!Ids \cup {None}, by : R!Ids \cup {None}]

RefTypes ==
    /\ ref \in [R!Ids -> RefRow]
    /\ refPc \in [Calls -> {"idle", "find", "store", "verify", "supersede"}]
    /\ refFrame \in [Calls -> RefFrame]

\* What a frame holds is stored, and stands for what its stage says.
RefFrameOK(c) ==
    LET f == refFrame[c] IN
    /\ refPc[c] = "idle" => f.name = None
    /\ refPc[c] \in {"find", "store"} => f.name \in Names
    /\ refPc[c] \in {"find", "store", "verify", "supersede"} /\ f.id # None
          => f.id \in R!StoredIds
    /\ refPc[c] = "find" => f.id = None
    /\ refPc[c] = "store" /\ f.id = None /\ f.name \notin racedCreate
          => \A i \in R!Ids : ref[i].name # f.name
    /\ refPc[c] = "verify" => f.id \in R!StoredIds
    /\ refPc[c] = "supersede" =>
          /\ f.id \in R!StoredIds /\ f.by \in R!StoredIds /\ f.id # f.by
          /\ f.id \notin racedSupersede => ~ref[f.by].deprecated

IdsGivenOut == \E n \in Nat : R!StoredIds = 1..n
RowsWhole ==
    \A i \in R!Ids : /\ ref[i].name = None <=> ref[i] = R!NoRef
                     /\ ref[i].deprecated => ref[i].replacedBy \in R!StoredIds
NamedOnce ==
    \A i, j \in R!Ids :
        ref[i].name \in Names /\ (ref[i].name \in Versioned \/ ref[i].name \notin racedCreate)
           /\ ref[j].name = ref[i].name => i = j
GroupsLeadOut ==
    \A group \in (SUBSET (R!Deprecated \ racedSupersede)) \ {{}} :
        \E i \in group : ref[i].replacedBy \notin group

RowsOK == IdsGivenOut /\ RowsWhole /\ NamedOnce /\ GroupsLeadOut

FramesOK ==
    /\ \A c \in Calls : RefFrameOK(c)
    /\ \A c, d \in Calls : c # d =>
          /\ refFrame[c].name \in Names /\ refFrame[c].name = refFrame[d].name
                => refFrame[c].name \in racedCreate
          /\ refPc[c] = "supersede" /\ refPc[d] = "supersede"
                => refFrame[c].id \in racedSupersede

RefInv == RefTypes /\ RowsOK /\ FramesOK

LEMMA NoneIsNoName == None \notin Names /\ None \notin R!Ids /\ Versioned \subseteq Names
                      /\ MaxRefs \in Nat /\ R!Ids \subseteq Nat
  BY ServicesAssumption DEF R!NamesAssumption, R!Ids

LEMMA NoRefRow == R!NoRef \in RefRow /\ R!NoRef.name = None /\ ~R!NoRef.deprecated
  BY DEF R!NoRef, RefRow

LEMMA NoRefFrame == R!NoFrame \in RefFrame /\ R!NoFrame.name = None
  BY DEF R!NoFrame, RefFrame

LEMMA InitRefs == R!Init => RefInv
<1> SUFFICES ASSUME R!Init PROVE RefInv
  OBVIOUS
<1>1. RefTypes
  BY NoRefRow, NoRefFrame DEF R!Init, RefTypes
<1>2. \A i \in R!Ids : ref[i] = R!NoRef
  BY DEF R!Init
<1>3. R!StoredIds = {} /\ R!Deprecated = {}
  BY <1>2, NoRefRow DEF R!StoredIds, R!Stored, R!Deprecated
<1>4. \E n \in Nat : R!StoredIds = 1..n
  <2>1. 1..0 = {}
    OBVIOUS
  <2>2. QED
    BY <1>3, <2>1
<1>5. RowsOK
  <2>1. \A i \in R!Ids : ref[i].name = None /\ ~ref[i].deprecated
    BY <1>2, NoRefRow
  <2>2. \A group \in (SUBSET (R!Deprecated \ racedSupersede)) \ {{}} :
            \E i \in group : ref[i].replacedBy \notin group
    <3>1. \A group \in SUBSET {} : group = {}
      OBVIOUS
    <3>2. R!Deprecated \ racedSupersede = {}
      BY <1>3
    <3>3. QED
      BY <3>1, <3>2
  <2>3. QED
    BY <1>2, <1>4, <2>1, <2>2, NoneIsNoName DEF RowsOK, IdsGivenOut, RowsWhole, NamedOnce, GroupsLeadOut
<1>6. \A c \in Calls : refPc[c] = "idle" /\ refFrame[c].name = None
  BY NoRefFrame DEF R!Init
<1>7. FramesOK
  BY <1>6, NoneIsNoName DEF FramesOK, RefFrameOK
<1>8. QED
  BY <1>1, <1>5, <1>7 DEF RefInv

\* What a step of call c must keep of the others' frames.
LEMMA RefOthersKeep ==
    ASSUME RefInv, NEW c \in Calls,
           NEW label \in {"idle", "find", "store", "verify", "supersede"}, NEW f \in RefFrame,
           refPc' = [refPc EXCEPT ![c] = label],
           refFrame' = [refFrame EXCEPT ![c] = f],
           R!StoredIds \subseteq R!StoredIds',
           racedCreate \subseteq racedCreate', racedSupersede \subseteq racedSupersede',
           \A d \in Calls \ {c} :
              refPc[d] = "store" /\ refFrame[d].id = None /\ refFrame[d].name \notin racedCreate'
                 => \A i \in R!Ids : ref'[i].name # refFrame[d].name,
           \A d \in Calls \ {c} :
              refPc[d] = "supersede" /\ refFrame[d].id \notin racedSupersede'
                 => ~ref'[refFrame[d].by].deprecated,
           RefFrameOK(c)',
           \A d \in Calls \ {c} :
              /\ f.name \in Names /\ refFrame[d].name = f.name => f.name \in racedCreate'
              /\ label = "supersede" /\ refPc[d] = "supersede"
                    => f.id \in racedSupersede' /\ refFrame[d].id \in racedSupersede'
    PROVE  /\ refPc' \in [Calls -> {"idle", "find", "store", "verify", "supersede"}]
           /\ refFrame' \in [Calls -> RefFrame]
           /\ FramesOK'
<1>1. RefTypes /\ FramesOK
  BY DEF RefInv
<1>2. /\ refPc'[c] = label /\ refFrame'[c] = f
      /\ \A d \in Calls \ {c} : refPc'[d] = refPc[d] /\ refFrame'[d] = refFrame[d]
  BY <1>1 DEF RefTypes
<1>3. ASSUME NEW d \in Calls \ {c} PROVE RefFrameOK(d)'
  <2>1. RefFrameOK(d)
    BY <1>1 DEF FramesOK
  <2>2. QED
    BY <1>2, <2>1 DEF RefFrameOK
<1>4. \A d, e \in Calls : d # e =>
          /\ refFrame'[d].name \in Names /\ refFrame'[d].name = refFrame'[e].name
                => refFrame'[d].name \in racedCreate'
          /\ refPc'[d] = "supersede" /\ refPc'[e] = "supersede"
                => refFrame'[d].id \in racedSupersede'
  BY <1>1, <1>2 DEF FramesOK
<1>5. QED
  BY <1>1, <1>3, <1>4 DEF RefTypes, FramesOK

\* A call reads and goes on.
LEMMA RefReads ==
    ASSUME RefInv, NEW c \in Calls, ref' = ref,
           NEW label \in {"idle", "find", "store", "verify", "supersede"}, NEW f \in RefFrame,
           refPc' = [refPc EXCEPT ![c] = label],
           refFrame' = [refFrame EXCEPT ![c] = f],
           racedCreate \subseteq racedCreate', racedSupersede \subseteq racedSupersede',
           RefFrameOK(c)',
           \A d \in Calls \ {c} :
              /\ f.name \in Names /\ refFrame[d].name = f.name => f.name \in racedCreate'
              /\ label = "supersede" /\ refPc[d] = "supersede"
                    => f.id \in racedSupersede' /\ refFrame[d].id \in racedSupersede'
    PROVE  RefInv'
<1>1. RefTypes /\ RowsOK /\ FramesOK
  BY DEF RefInv
<1>2. R!StoredIds' = R!StoredIds /\ R!Deprecated' = R!Deprecated
  BY DEF R!StoredIds, R!Stored, R!Deprecated
<1>3. RowsOK'
  BY <1>1, <1>2 DEF RowsOK, IdsGivenOut, RowsWhole, NamedOnce, GroupsLeadOut
<1>4. /\ \A d \in Calls \ {c} :
            refPc[d] = "store" /\ refFrame[d].id = None /\ refFrame[d].name \notin racedCreate'
               => \A i \in R!Ids : ref'[i].name # refFrame[d].name
      /\ \A d \in Calls \ {c} :
            refPc[d] = "supersede" /\ refFrame[d].id \notin racedSupersede'
               => ~ref'[refFrame[d].by].deprecated
  BY <1>1 DEF FramesOK, RefFrameOK
<1>5. FramesOK' /\ RefTypes'
  BY <1>1, <1>2, <1>4, RefOthersKeep DEF RefTypes
<1>6. QED
  BY <1>3, <1>5 DEF RefInv

\* A call that returns holds nothing.
LEMMA RefReturned ==
    ASSUME RefInv, NEW c \in Calls, R!Return(c)
    PROVE  /\ refPc' = [refPc EXCEPT ![c] = "idle"]
           /\ refFrame' = [refFrame EXCEPT ![c] = R!NoFrame]
           /\ RefFrameOK(c)'
<1>1. /\ refPc' = [refPc EXCEPT ![c] = "idle"]
      /\ refFrame' = [refFrame EXCEPT ![c] = R!NoFrame]
  BY DEF R!Return, R!Goto
<1>2. refPc'[c] = "idle" /\ refFrame'[c].name = None
  BY <1>1, NoRefFrame DEF RefInv, RefTypes
<1>3. QED
  BY <1>1, <1>2 DEF RefFrameOK

\* One row is written and the call returns.
LEMMA RefWrites ==
    ASSUME RefInv, NEW c \in Calls, NEW i \in R!StoredIds, NEW row2 \in RefRow,
           ref' = [ref EXCEPT ![i] = row2], row2.name = ref[i].name,
           row2.deprecated = ref[i].deprecated, row2.replacedBy = ref[i].replacedBy,
           R!Return(c), UNCHANGED <<racedCreate, racedSupersede>>
    PROVE  RefInv'
<1>1. RefTypes /\ RowsOK /\ FramesOK /\ i \in R!Ids
  BY DEF RefInv, R!StoredIds
<1>2. /\ \A j \in R!Ids : /\ ref'[j].name = ref[j].name
                          /\ ref'[j].deprecated = ref[j].deprecated
                          /\ ref'[j].replacedBy = ref[j].replacedBy
                          /\ j # i => ref'[j] = ref[j]
      /\ ref'[i] = row2 /\ ref' \in [R!Ids -> RefRow]
  BY <1>1 DEF RefTypes
<1>3. \A j \in R!Ids : ref'[j] = R!NoRef <=> ref[j] = R!NoRef
  <2>1. ref[i] # R!NoRef /\ ref[i].name # None
    BY <1>1 DEF R!StoredIds, R!Stored, RowsOK, IdsGivenOut, RowsWhole, NamedOnce, GroupsLeadOut
  <2>2. row2 # R!NoRef
    BY <2>1, NoRefRow
  <2>3. QED
    BY <1>2, <2>1, <2>2
<1>4. R!StoredIds' = R!StoredIds /\ R!Deprecated' = R!Deprecated
  BY <1>2, <1>3 DEF R!StoredIds, R!Stored, R!Deprecated
<1>5. RowsOK'
  <2>1. \A j \in R!Ids : /\ ref'[j].name = None <=> ref'[j] = R!NoRef
                         /\ ref'[j].deprecated => ref'[j].replacedBy \in R!StoredIds'
    BY <1>1, <1>2, <1>3, <1>4 DEF RowsOK, IdsGivenOut, RowsWhole, NamedOnce, GroupsLeadOut
  <2>2. \A group \in (SUBSET (R!Deprecated' \ racedSupersede')) \ {{}} :
            \E j \in group : ref'[j].replacedBy \notin group
    <3> SUFFICES ASSUME NEW group \in (SUBSET (R!Deprecated' \ racedSupersede')) \ {{}}
                 PROVE  \E j \in group : ref'[j].replacedBy \notin group
      OBVIOUS
    <3>1. PICK j \in group : ref[j].replacedBy \notin group
      BY <1>1, <1>4 DEF RowsOK, IdsGivenOut, RowsWhole, NamedOnce, GroupsLeadOut
    <3>2. j \in R!Ids
      BY <1>4 DEF R!Deprecated
    <3>3. QED
      BY <1>2, <3>1, <3>2
  <2>3. \A j, k \in R!Ids :
            ref'[j].name \in Names /\ (ref'[j].name \in Versioned \/ ref'[j].name \notin racedCreate')
               /\ ref'[k].name = ref'[j].name => j = k
    BY <1>1, <1>2 DEF RowsOK, IdsGivenOut, RowsWhole, NamedOnce, GroupsLeadOut
  <2>4. \E n \in Nat : R!StoredIds' = 1..n
    BY <1>1, <1>4 DEF RowsOK, IdsGivenOut, RowsWhole, NamedOnce, GroupsLeadOut
  <2>5. \A group \in (SUBSET (R!Deprecated \ racedSupersede)') \ {{}} :
            \E j \in group : ref'[j].replacedBy \notin group
    BY <2>2
  <2>0. R!NoRef' = R!NoRef
    BY DEF R!NoRef
  <2>6. QED
    <3>1. IdsGivenOut'
      BY <2>4 DEF IdsGivenOut
    <3>2. RowsWhole'
      BY <2>0, <2>1 DEF RowsWhole
    <3>3. NamedOnce'
      BY <2>3 DEF NamedOnce
    <3>4. GroupsLeadOut'
      BY <2>5 DEF GroupsLeadOut
    <3>5. QED
      BY <3>1, <3>2, <3>3, <3>4 DEF RowsOK
<1>6. /\ \A d \in Calls \ {c} :
            refPc[d] = "store" /\ refFrame[d].id = None /\ refFrame[d].name \notin racedCreate'
               => \A j \in R!Ids : ref'[j].name # refFrame[d].name
      /\ \A d \in Calls \ {c} :
            refPc[d] = "supersede" /\ refFrame[d].id \notin racedSupersede'
               => ~ref'[refFrame[d].by].deprecated
  BY <1>1, <1>2 DEF FramesOK, RefFrameOK, R!StoredIds
<1>7. FramesOK' /\ RefTypes'
  BY <1>1, <1>2, <1>4, <1>6, RefReturned, NoRefFrame, NoneIsNoName, RefOthersKeep DEF RefTypes
<1>8. QED
  BY <1>5, <1>7 DEF RefInv

LEMMA CreateRefs ==
    ASSUME RefInv, NEW c \in Calls, NEW n \in Names, NEW h \in Hashes, R!Create(c, n, h)
    PROVE  RefInv'
<1> DEFINE f == [R!NoFrame EXCEPT !.name = n, !.hash = h]
<1>1. /\ refPc[c] = "idle" /\ refPc' = [refPc EXCEPT ![c] = "find"]
      /\ refFrame' = [refFrame EXCEPT ![c] = f] /\ ref' = ref
      /\ racedSupersede' = racedSupersede
      /\ racedCreate' = IF \E x \in Calls : refFrame[x].name = n THEN racedCreate \cup {n}
                        ELSE racedCreate
  BY DEF R!Create, R!Begin, R!Goto
<1>2. f \in RefFrame /\ f.name = n /\ f.id = None /\ f.by = None
  BY DEF R!NoFrame, RefFrame
<1> HIDE DEF f
<1>3. racedCreate \subseteq racedCreate'
  BY <1>1
<1>4. RefFrameOK(c)'
  <2>1. refPc'[c] = "find" /\ refFrame'[c] = f
    BY <1>1 DEF RefInv, RefTypes
  <2>2. QED
    BY <1>2, <2>1 DEF RefFrameOK
<1>5. \A d \in Calls \ {c} :
        f.name \in Names /\ refFrame[d].name = f.name => f.name \in racedCreate'
  BY <1>1, <1>2
<1>6. QED
  BY <1>1, <1>2, <1>3, <1>4, <1>5, RefReads

LEMMA FindRefs ==
    ASSUME RefInv, NEW c \in Calls, R!Find(c)
    PROVE  RefInv'
<1>0. RefTypes /\ RowsOK /\ FramesOK /\ refFrame[c] \in RefFrame
  BY DEF RefInv, RefTypes
<1> DEFINE n == refFrame[c].name
           found == R!NamedBy(n)
<1>1. PICK i \in IF found = {} THEN {None} ELSE found :
          refFrame' = [refFrame EXCEPT ![c].id = i]
  BY DEF R!Find
<1>2. /\ refPc[c] = "find" /\ refPc' = [refPc EXCEPT ![c] = "store"]
      /\ ref' = ref /\ racedSupersede' = racedSupersede /\ racedCreate' = racedCreate
  BY DEF R!Find, R!Goto
<1>3. n \in Names
  BY <1>0, <1>2 DEF FramesOK, RefFrameOK
<1>4. \A j \in found : j \in R!StoredIds /\ j \in R!Ids
  <2>1. \A j \in found : j \in R!Ids /\ ref[j].name = n
    BY DEF R!NamedBy
  <2>2. \A j \in found : ref[j].name # None
    BY <1>3, <2>1, NoneIsNoName
  <2>3. \A j \in found : ref[j] # R!NoRef
    BY <1>0, <2>1, <2>2 DEF RowsOK, IdsGivenOut, RowsWhole, NamedOnce, GroupsLeadOut
  <2>4. QED
    BY <2>1, <2>3 DEF R!StoredIds, R!Stored
<1>5. i \in R!Ids \cup {None}
  BY <1>4
<1> DEFINE f == [refFrame[c] EXCEPT !.id = i]
<1>6. f \in RefFrame /\ f.name = n /\ f.id = i
  BY <1>0, <1>5 DEF RefFrame
<1>7. refFrame' = [refFrame EXCEPT ![c] = f]
  BY <1>0, <1>1 DEF RefTypes
<1>8. i = None => \A j \in R!Ids : ref[j].name # n
  <2> SUFFICES ASSUME i = None PROVE found = {}
    BY DEF R!NamedBy
  <2>1. QED
    BY <1>4, NoneIsNoName
<1>9. i # None => i \in R!StoredIds
  BY <1>4
<1> HIDE DEF f
<1>10. RefFrameOK(c)'
  <2>1. refPc'[c] = "store" /\ refFrame'[c] = f
    BY <1>0, <1>2, <1>7 DEF RefTypes
  <2>2. R!StoredIds' = R!StoredIds
    BY <1>2 DEF R!StoredIds, R!Stored
  <2>3. QED
    BY <1>2, <1>3, <1>6, <1>8, <1>9, <2>1, <2>2 DEF RefFrameOK
<1>4a. \A d \in Calls \ {c} :
        f.name \in Names /\ refFrame[d].name = f.name => f.name \in racedCreate'
  BY <1>0, <1>2, <1>6 DEF FramesOK
<1>12. QED
  BY <1>2, <1>6, <1>7, <1>10, <1>4a, RefReads

LEMMA BeginVerify ==
    ASSUME RefInv, NEW c \in Calls, NEW i \in R!Ids, NEW h \in Hashes, R!Verify(c, i, h)
    PROVE  RefInv'
<1> DEFINE f == [R!NoFrame EXCEPT !.id = i]
<1>1. /\ refPc[c] = "idle" /\ refPc' = [refPc EXCEPT ![c] = "verify"]
      /\ refFrame' = [refFrame EXCEPT ![c] = f] /\ ref' = ref
      /\ racedSupersede' = racedSupersede /\ racedCreate' = racedCreate
      /\ i \in R!StoredIds
  BY DEF R!Verify, R!Begin, R!Goto
<1>2. f \in RefFrame /\ f.name = None /\ f.id = i
  BY DEF R!NoFrame, RefFrame
<1> HIDE DEF f
<1>3. RefFrameOK(c)'
  <2>1. refPc'[c] = "verify" /\ refFrame'[c] = f
    BY <1>1 DEF RefInv, RefTypes
  <2>2. R!StoredIds' = R!StoredIds
    BY <1>1 DEF R!StoredIds, R!Stored
  <2>3. QED
    BY <1>1, <1>2, <2>1, <2>2 DEF RefFrameOK
<1>4. QED
  BY <1>1, <1>2, <1>3, NoneIsNoName, RefReads

LEMMA BeginSupersede ==
    ASSUME RefInv, NEW c \in Calls, NEW i \in R!Ids, NEW by \in R!Ids, R!Deprecate(c, i, by)
    PROVE  RefInv'
<1> DEFINE f == [R!NoFrame EXCEPT !.id = i, !.by = by]
<1>1. /\ refPc[c] = "idle" /\ refPc' = [refPc EXCEPT ![c] = "supersede"]
      /\ refFrame' = [refFrame EXCEPT ![c] = f] /\ ref' = ref
      /\ racedCreate' = racedCreate
      /\ i \in R!StoredIds /\ by \in R!StoredIds /\ i # by /\ ~ref[by].deprecated
      /\ racedSupersede' = IF R!Superseding = {} THEN racedSupersede
                           ELSE racedSupersede \cup {i} \cup {refFrame[x].id : x \in R!Superseding}
  BY DEF R!Deprecate, R!Begin, R!Goto, R!IsActive
<1>2. f \in RefFrame /\ f.name = None /\ f.id = i /\ f.by = by
  BY DEF R!NoFrame, RefFrame
<1> HIDE DEF f
<1>3. racedSupersede \subseteq racedSupersede'
  BY <1>1
<1>4. RefFrameOK(c)'
  <2>1. refPc'[c] = "supersede" /\ refFrame'[c] = f
    BY <1>1 DEF RefInv, RefTypes
  <2>2. R!StoredIds' = R!StoredIds
    BY <1>1 DEF R!StoredIds, R!Stored
  <2>3. QED
    BY <1>1, <1>2, <2>1, <2>2 DEF RefFrameOK
<1>5. \A d \in Calls \ {c} : refPc[d] = "supersede" =>
          f.id \in racedSupersede' /\ refFrame[d].id \in racedSupersede'
  BY <1>1, <1>2 DEF R!Superseding
<1>6. QED
  BY <1>1, <1>2, <1>3, <1>4, <1>5, NoneIsNoName, RefReads

LEMMA VerdictRefs ==
    ASSUME RefInv, NEW c \in Calls, NEW status \in Verdicts, R!StoreVerdict(c, status)
    PROVE  RefInv'
<1> DEFINE i == refFrame[c].id
           row2 == [ref[i] EXCEPT !.status = status]
<1>0. RefTypes /\ FramesOK
  BY DEF RefInv
<1>1. refPc[c] = "verify" /\ R!Return(c) /\ UNCHANGED <<racedCreate, racedSupersede>>
      /\ ref' = [ref EXCEPT ![i].status = status]
  BY DEF R!StoreVerdict
<1>2. i \in R!StoredIds /\ i \in R!Ids
  BY <1>0, <1>1 DEF FramesOK, RefFrameOK, R!StoredIds
<1>3. ref[i] \in RefRow /\ status \in {"pending", "verified", "failed"}
  BY <1>0, <1>2, ServicesAssumption DEF RefTypes, R!VerdictsAssumption
<1>4. row2 \in RefRow /\ row2.name = ref[i].name
      /\ row2.deprecated = ref[i].deprecated /\ row2.replacedBy = ref[i].replacedBy
  BY <1>3 DEF RefRow
<1>5. ref' = [ref EXCEPT ![i] = row2]
  BY <1>0, <1>1, <1>2 DEF RefTypes
<1> HIDE DEF row2
<1>6. QED
  BY <1>1, <1>2, <1>4, <1>5, RefWrites

LEMMA AbandonRefs ==
    ASSUME RefInv, NEW c \in Calls, R!Abandon(c)
    PROVE  RefInv'
<1>1. R!Return(c) /\ ref' = ref /\ racedCreate' = racedCreate
      /\ racedSupersede' = racedSupersede
  BY DEF R!Abandon
<1>2. QED
  BY <1>1, NoRefFrame, NoneIsNoName, RefReturned, RefReads

LEMMA SupersedeRefs ==
    ASSUME RefInv, NEW c \in Calls, R!Supersede(c)
    PROVE  RefInv'
<1> DEFINE i == refFrame[c].id
           by == refFrame[c].by
           row2 == [ref[i] EXCEPT !.deprecated = TRUE, !.replacedBy = by, !.status = "deprecated"]
<1>1. RefTypes /\ RowsOK /\ FramesOK
  BY DEF RefInv
<1>2. /\ refPc[c] = "supersede" /\ R!Return(c) /\ racedCreate' = racedCreate
      /\ racedSupersede' = racedSupersede
      /\ ref' = [ref EXCEPT ![i].deprecated = TRUE, ![i].replacedBy = by,
                            ![i].status = "deprecated"]
  BY DEF R!Supersede
<1>3. /\ i \in R!StoredIds /\ by \in R!StoredIds /\ i # by /\ i \in R!Ids /\ by \in R!Ids
      /\ i \notin racedSupersede => ~ref[by].deprecated
  BY <1>1, <1>2 DEF FramesOK, RefFrameOK, R!StoredIds
<1>4. ref[i] \in RefRow
  BY <1>1, <1>3 DEF RefTypes
<1>5. row2 \in RefRow /\ row2.name = ref[i].name /\ row2.deprecated /\ row2.replacedBy = by
      /\ row2.status = "deprecated"
  BY <1>3, <1>4 DEF RefRow
<1>6. ref' = [ref EXCEPT ![i] = row2]
  BY <1>1, <1>2, <1>3 DEF RefTypes
<1>7. row2 # R!NoRef
  BY <1>5 DEF R!NoRef
<1> HIDE DEF row2
<1>8. /\ \A j \in R!Ids : ref'[j].name = ref[j].name /\ (j # i => ref'[j] = ref[j])
      /\ ref'[i] = row2 /\ ref' \in [R!Ids -> RefRow]
  BY <1>1, <1>3, <1>5, <1>6 DEF RefTypes
<1>9. ref[i].name # None /\ ref[i] # R!NoRef
  BY <1>1, <1>3 DEF R!StoredIds, R!Stored, RowsOK, IdsGivenOut, RowsWhole, NamedOnce, GroupsLeadOut
<1>10. R!StoredIds' = R!StoredIds
  BY <1>7, <1>8, <1>9 DEF R!StoredIds, R!Stored
<1>4a. R!Deprecated' = R!Deprecated \cup {i}
  BY <1>3, <1>5, <1>8 DEF R!Deprecated
<1>12. RowsOK'
  <2>1. \A j \in R!Ids : /\ ref'[j].name = None <=> ref'[j] = R!NoRef
                         /\ ref'[j].deprecated => ref'[j].replacedBy \in R!StoredIds'
    BY <1>1, <1>3, <1>5, <1>7, <1>8, <1>9, <1>10 DEF RowsOK, IdsGivenOut, RowsWhole, NamedOnce, GroupsLeadOut
  <2>2. \A group \in (SUBSET (R!Deprecated \ racedSupersede)') \ {{}} :
            \E j \in group : ref'[j].replacedBy \notin group
    <3> SUFFICES ASSUME NEW group \in (SUBSET (R!Deprecated' \ racedSupersede')) \ {{}}
                 PROVE  \E j \in group : ref'[j].replacedBy \notin group
      OBVIOUS
    <3>1. CASE i \in group
      <4>1. i \notin racedSupersede
        BY <1>2, <3>1
      <4>2. by \notin R!Deprecated
        BY <1>3, <4>1 DEF R!Deprecated
      <4>3. by \notin group
        BY <1>3, <1>4a, <4>2
      <4>4. QED
        BY <1>5, <1>8, <3>1, <4>3
    <3>2. CASE i \notin group
      <4>1. group \in (SUBSET (R!Deprecated \ racedSupersede)) \ {{}}
        BY <1>2, <1>4a, <3>2
      <4>2. PICK j \in group : ref[j].replacedBy \notin group
        BY <1>1, <4>1 DEF RowsOK, IdsGivenOut, RowsWhole, NamedOnce, GroupsLeadOut
      <4>3. j \in R!Ids /\ j # i
        BY <3>2, <4>1 DEF R!Deprecated
      <4>4. QED
        BY <1>8, <4>2, <4>3
    <3>3. QED
      BY <3>1, <3>2
  <2>3. \A j, k \in R!Ids :
            ref'[j].name \in Names /\ (ref'[j].name \in Versioned \/ ref'[j].name \notin racedCreate')
               /\ ref'[k].name = ref'[j].name => j = k
    BY <1>1, <1>2, <1>8 DEF RowsOK, IdsGivenOut, RowsWhole, NamedOnce, GroupsLeadOut
  <2>4. \E n \in Nat : R!StoredIds' = 1..n
    BY <1>1, <1>10 DEF RowsOK, IdsGivenOut, RowsWhole, NamedOnce, GroupsLeadOut
  <2>0. R!NoRef' = R!NoRef
    BY DEF R!NoRef
  <2>5. QED
    <3>1. IdsGivenOut'
      BY <2>4 DEF IdsGivenOut
    <3>2. RowsWhole'
      BY <2>0, <2>1 DEF RowsWhole
    <3>3. NamedOnce'
      BY <2>3 DEF NamedOnce
    <3>4. GroupsLeadOut'
      BY <2>2 DEF GroupsLeadOut
    <3>5. QED
      BY <3>1, <3>2, <3>3, <3>4 DEF RowsOK
<1>13. /\ \A d \in Calls \ {c} :
            refPc[d] = "store" /\ refFrame[d].id = None /\ refFrame[d].name \notin racedCreate'
               => \A j \in R!Ids : ref'[j].name # refFrame[d].name
       /\ \A d \in Calls \ {c} :
            refPc[d] = "supersede" /\ refFrame[d].id \notin racedSupersede'
               => ~ref'[refFrame[d].by].deprecated
  <2>1. \A d \in Calls \ {c} : refPc[d] = "supersede" => refFrame[d].id \in racedSupersede
    BY <1>1, <1>2 DEF FramesOK
  <2>2. QED
    BY <1>1, <1>2, <1>8, <2>1 DEF FramesOK, RefFrameOK
<1>14. FramesOK' /\ RefTypes'
  BY <1>1, <1>2, <1>8, <1>10, <1>13, RefReturned, NoRefFrame, NoneIsNoName, RefOthersKeep
     DEF RefTypes
<1>15. QED
  BY <1>12, <1>14 DEF RefInv

\* A row is created for a name that nobody else is registering.
LEMMA NewRef ==
    ASSUME RefInv, NEW c \in Calls, NEW i \in R!Ids, R!Store(c, i),
           refFrame[c].id = None, ref' # ref
    PROVE  RefInv'
<1> DEFINE n == refFrame[c].name
           new == [R!NoRef EXCEPT !.name = n, !.hash = refFrame[c].hash, !.status = "pending"]
<1>1. RefTypes /\ RowsOK /\ FramesOK /\ refFrame[c] \in RefFrame
  BY DEF RefInv, RefTypes
<1>2. /\ refPc[c] = "store" /\ R!Return(c) /\ racedCreate' = racedCreate
      /\ racedSupersede' = racedSupersede
      /\ i = R!Cardinality(R!StoredIds) + 1
      /\ ref' = [ref EXCEPT ![i] = new]
      /\ ~(n \in Versioned /\ R!NamedBy(n) # {})
  BY DEF R!Store
<1>3. n \in Names /\ (n \notin racedCreate => \A j \in R!Ids : ref[j].name # n)
  BY <1>1, <1>2 DEF FramesOK, RefFrameOK
<1>4. new \in RefRow /\ new.name = n /\ ~new.deprecated
  BY <1>1, <1>3 DEF RefRow, RefFrame, R!NoRef
<1>5. new # R!NoRef /\ R!NoRef' = R!NoRef
  BY <1>3, <1>4, NoneIsNoName, NoRefRow DEF R!NoRef
<1> HIDE DEF new
<1>6. PICK m \in Nat : R!StoredIds = 1..m
  BY <1>1 DEF RowsOK, IdsGivenOut
<1>7. i = m + 1
  <2>1. Cardinality(1..m) = m
    BY FS_Interval
  <2>2. QED
    BY <1>2, <1>6, <2>1, OneCardinality
<1>8. i \notin R!StoredIds /\ ref[i] = R!NoRef
  BY <1>6, <1>7 DEF R!StoredIds, R!Stored
<1>9. /\ \A j \in R!Ids : j # i => ref'[j] = ref[j]
      /\ ref'[i] = new /\ ref' \in [R!Ids -> RefRow]
  BY <1>1, <1>2, <1>4 DEF RefTypes
<1>10. R!StoredIds' = R!StoredIds \cup {i}
  BY <1>5, <1>9 DEF R!StoredIds, R!Stored
<1>4a. R!Deprecated' = R!Deprecated
  BY <1>4, <1>8, <1>9, NoRefRow DEF R!Deprecated
<1>12. RowsOK'
  <2>1. IdsGivenOut'
    <3>1. R!StoredIds' = 1..(m + 1)
      BY <1>6, <1>7, <1>10
    <3>2. QED
      BY <3>1 DEF IdsGivenOut
  <2>2. RowsWhole'
    <3> SUFFICES ASSUME NEW j \in R!Ids
                 PROVE  /\ ref'[j].name = None <=> ref'[j] = R!NoRef
                        /\ ref'[j].deprecated => ref'[j].replacedBy \in R!StoredIds'
      BY <1>5 DEF RowsWhole
    <3>1. CASE j = i
      BY <1>3, <1>4, <1>5, <1>9, <3>1, NoneIsNoName
    <3>2. CASE j # i
      BY <1>1, <1>9, <1>10, <3>2 DEF RowsOK, RowsWhole
    <3>3. QED
      BY <3>1, <3>2
  <2>3. NamedOnce'
    <3>1. n \in Versioned \/ n \notin racedCreate => \A j \in R!Ids : ref[j].name # n
      BY <1>2, <1>3 DEF R!NamedBy
    <3> SUFFICES ASSUME NEW j \in R!Ids, NEW k \in R!Ids, ref'[j].name \in Names,
                        ref'[j].name \in Versioned \/ ref'[j].name \notin racedCreate,
                        ref'[k].name = ref'[j].name
                 PROVE  j = k
      BY <1>2 DEF NamedOnce
    <3>2. CASE j = i /\ k # i
      BY <1>4, <1>9, <3>1, <3>2
    <3>3. CASE k = i /\ j # i
      BY <1>4, <1>9, <3>1, <3>3
    <3>4. CASE j # i /\ k # i
      BY <1>1, <1>9, <3>4 DEF RowsOK, NamedOnce
    <3>5. QED
      BY <3>2, <3>3, <3>4
  <2>4. GroupsLeadOut'
    <3> SUFFICES ASSUME NEW group \in (SUBSET (R!Deprecated' \ racedSupersede')) \ {{}}
                 PROVE  \E j \in group : ref'[j].replacedBy \notin group
      BY DEF GroupsLeadOut
    <3>1. PICK j \in group : ref[j].replacedBy \notin group
      BY <1>1, <1>2, <1>4a DEF RowsOK, GroupsLeadOut
    <3>2. j \in R!Ids /\ ref[j].deprecated
      BY <1>4a DEF R!Deprecated
    <3>3. j # i
      BY <1>8, <3>2, NoRefRow
    <3>4. QED
      BY <1>9, <3>1, <3>2, <3>3
  <2>5. QED
    BY <2>1, <2>2, <2>3, <2>4 DEF RowsOK
<1>13. \A d \in Calls \ {c} :
          refPc[d] = "store" /\ refFrame[d].id = None /\ refFrame[d].name \notin racedCreate'
             => \A j \in R!Ids : ref'[j].name # refFrame[d].name
  <2> SUFFICES ASSUME NEW d \in Calls \ {c}, refPc[d] = "store", refFrame[d].id = None,
                      refFrame[d].name \notin racedCreate, NEW j \in R!Ids
               PROVE  ref'[j].name # refFrame[d].name
    BY <1>2
  <2>1. ref[j].name # refFrame[d].name
    BY <1>1 DEF FramesOK, RefFrameOK
  <2>2. n # refFrame[d].name
    BY <1>1, <1>3 DEF FramesOK
  <2>3. QED
    BY <1>4, <1>9, <2>1, <2>2
<1>14. \A d \in Calls \ {c} :
          refPc[d] = "supersede" /\ refFrame[d].id \notin racedSupersede'
             => ~ref'[refFrame[d].by].deprecated
  <2> SUFFICES ASSUME NEW d \in Calls \ {c}, refPc[d] = "supersede",
                      refFrame[d].id \notin racedSupersede
               PROVE  ~ref'[refFrame[d].by].deprecated
    BY <1>2
  <2>1. refFrame[d].by \in R!StoredIds /\ ~ref[refFrame[d].by].deprecated
    BY <1>1 DEF FramesOK, RefFrameOK
  <2>2. refFrame[d].by # i /\ refFrame[d].by \in R!Ids
    BY <1>8, <2>1 DEF R!StoredIds
  <2>3. QED
    BY <1>9, <2>1, <2>2
<1>15. FramesOK' /\ RefTypes'
  BY <1>1, <1>2, <1>9, <1>10, <1>13, <1>14, RefReturned, NoRefFrame, NoneIsNoName,
     RefOthersKeep DEF RefTypes
<1>16. QED
  BY <1>12, <1>15 DEF RefInv

LEMMA StoreRefs ==
    ASSUME RefInv, NEW c \in Calls, NEW i \in R!Ids, R!Store(c, i)
    PROVE  RefInv'
<1>1. RefTypes /\ FramesOK /\ refFrame[c] \in RefFrame
  BY DEF RefInv, RefTypes
<1>2. refPc[c] = "store" /\ R!Return(c) /\ UNCHANGED <<racedCreate, racedSupersede>>
  BY DEF R!Store
<1>3. CASE refFrame[c].id # None
  <2> DEFINE row2 == [ref[i] EXCEPT !.hash = refFrame[c].hash]
  <2>1. i = refFrame[c].id /\ ref' = [ref EXCEPT ![i].hash = refFrame[c].hash]
    BY <1>3 DEF R!Store
  <2>2. i \in R!StoredIds
    BY <1>1, <1>2, <1>3, <2>1 DEF FramesOK, RefFrameOK
  <2>3. ref[i] \in RefRow
    BY <1>1 DEF RefTypes
  <2>4. row2 \in RefRow /\ row2.name = ref[i].name
        /\ row2.deprecated = ref[i].deprecated /\ row2.replacedBy = ref[i].replacedBy
    BY <1>1, <2>3 DEF RefRow, RefFrame
  <2>5. ref' = [ref EXCEPT ![i] = row2]
    BY <1>1, <2>1 DEF RefTypes
  <2> HIDE DEF row2
  <2>6. QED
    BY <1>2, <2>2, <2>4, <2>5, RefWrites
<1>4. CASE refFrame[c].id = None /\ ref' # ref
  BY <1>4, NewRef
<1>5. CASE ref' = ref
  BY <1>2, <1>5, NoRefFrame, NoneIsNoName, RefReturned, RefReads
<1>6. QED
  BY <1>3, <1>4, <1>5

LEMMA RefsKeep == RefInv /\ (R!Next \/ UNCHANGED refVars) => RefInv'
<1> SUFFICES ASSUME RefInv, R!Next \/ UNCHANGED refVars PROVE RefInv'
  OBVIOUS
<1>1. CASE UNCHANGED refVars
  <2>1. /\ ref' = ref /\ refPc' = refPc /\ refFrame' = refFrame
        /\ racedCreate' = racedCreate /\ racedSupersede' = racedSupersede
    BY <1>1 DEF refVars
  <2>2. /\ R!StoredIds' = R!StoredIds /\ R!Deprecated' = R!Deprecated /\ R!NoRef' = R!NoRef
    BY <2>1 DEF R!StoredIds, R!Stored, R!Deprecated, R!NoRef
  <2>3. RefTypes'
    BY <2>1 DEF RefInv, RefTypes
  <2>4. RowsOK'
    BY <2>1, <2>2 DEF RefInv, RowsOK, IdsGivenOut, RowsWhole, NamedOnce, GroupsLeadOut
  <2>5. FramesOK'
    BY <2>1, <2>2 DEF RefInv, FramesOK, RefFrameOK
  <2>6. QED
    BY <2>3, <2>4, <2>5 DEF RefInv
<1>2. CASE R!Next
  <2>1. PICK c \in Calls :
          \/ \E n \in Names, h \in Hashes : R!Create(c, n, h)
          \/ R!Find(c) \/ R!Supersede(c) \/ R!Abandon(c)
          \/ \E i \in R!Ids :
                \/ R!Store(c, i)
                \/ \E h \in Hashes : R!Verify(c, i, h)
                \/ \E by \in R!Ids : R!Deprecate(c, i, by)
          \/ \E status \in Verdicts : R!StoreVerdict(c, status)
    BY <1>2 DEF R!Next
  <2>2. CASE \E n \in Names, h \in Hashes : R!Create(c, n, h)
    BY <2>2, CreateRefs
  <2>3. CASE R!Find(c) \/ R!Supersede(c) \/ R!Abandon(c)
    BY <2>3, FindRefs, SupersedeRefs, AbandonRefs
  <2>4. CASE \E i \in R!Ids : R!Store(c, i)
    BY <2>4, StoreRefs
  <2>5. CASE \E i \in R!Ids, h \in Hashes : R!Verify(c, i, h)
    BY <2>5, BeginVerify
  <2>6. CASE \E i \in R!Ids, by \in R!Ids : R!Deprecate(c, i, by)
    BY <2>6, BeginSupersede
  <2>7. CASE \E status \in Verdicts : R!StoreVerdict(c, status)
    BY <2>7, VerdictRefs
  <2>8. QED
    BY <2>1, <2>2, <2>3, <2>4, <2>5, <2>6, <2>7
<1>3. QED
  BY <1>1, <1>2

LEMMA RefInvMeans == RefInv => R!SupersededLeadsToActive /\ R!OneReferencePerVersion
<1> SUFFICES ASSUME RefInv PROVE R!SupersededLeadsToActive /\ R!OneReferencePerVersion
  OBVIOUS
<1>1. RefTypes /\ RowsWhole /\ NamedOnce /\ GroupsLeadOut
  BY DEF RefInv, RowsOK
<1>2. R!SupersededLeadsToActive
  <2>1. \A i \in R!Deprecated : ref[i].replacedBy \in R!StoredIds /\ ~R!IsActive(i)
    BY <1>1 DEF RowsWhole, R!Deprecated, R!IsActive
  <2>2. QED
    BY <1>1, <2>1 DEF GroupsLeadOut, R!SupersededLeadsToActive
<1>3. ASSUME NEW n \in Names, n \in Versioned \/ n \notin racedCreate
      PROVE  R!Cardinality(R!NamedBy(n)) <= 1
  <2>1. \A i, j \in R!NamedBy(n) : i = j
    BY <1>1, <1>3 DEF NamedOnce, R!NamedBy
  <2>2. CASE R!NamedBy(n) = {}
    <3>1. Cardinality(R!NamedBy(n)) = 0
      BY <2>2, FS_EmptySet
    <3>2. QED
      BY <3>1, OneCardinality
  <2>3. CASE R!NamedBy(n) # {}
    <3>1. PICK i : R!NamedBy(n) = {i}
      BY <2>1, <2>3
    <3>2. Cardinality({i}) = 1
      BY FS_Singleton
    <3>3. QED
      BY <3>1, <3>2, OneCardinality
  <2>4. QED
    BY <2>2, <2>3
<1>4. R!OneReferencePerVersion
  BY <1>3 DEF R!OneReferencePerVersion
<1>5. QED
  BY <1>2, <1>4

(***************************************************************************)
(* A superseded reference names a stored one and no group of them points   *)
(* only back into itself; an object in one version has one reference.      *)
(***************************************************************************)
THEOREM ReferencesAreFound == Spec => []ReferencesResolve
<1>1. Init => RefInv
  BY InitRefs DEF Init
<1>2. RefInv /\ [Next]_vars => RefInv'
  BY RefsKeep, OneMoves
<1>3. RefInv => ReferencesResolve
  BY RefInvMeans DEF ReferencesResolve
<1>4. QED
  BY <1>1, <1>2, <1>3, PTL DEF Spec


-----------------------------------------------------------------------------
(***************************************************************************)
(* Checkout.  A stage of a submission says what QuickBooks may hold for it *)
(* and what its order says; a key that one submission at a time used has   *)
(* one order.                                                              *)
(***************************************************************************)
OrderRow == [status : {"none", "pending", "failed", "payment_pending"},
             key : Keys \cup {None}, invoice : BOOLEAN, template : BOOLEAN]
ShopLabels == {"new", "lookup", "package", "order", "customer", "item", "invoice", "template",
               "store", "store_both", "fail", "end"}
Buying == {"package", "order"}
Billing == {"customer", "item", "invoice", "template", "store", "store_both", "fail"}

ShopTypes ==
    /\ order \in [Submissions -> OrderRow]
    /\ shopPc \in [Submissions -> ShopLabels]
    /\ key \in [Submissions -> Keys \cup {None}]
    /\ answer \in [Submissions -> Submissions \cup {None, "error"}]
    /\ invoices \subseteq Submissions /\ templates \subseteq Submissions

Ordered(s) == order[s].status # "none"

\* What a submission that has ended leaves behind.
Billed(s) ==
    /\ order[s].status = "payment_pending" => s \in invoices
    /\ s \notin interrupted => /\ order[s].invoice <=> s \in invoices
                               /\ order[s].template <=> s \in templates
                               /\ order[s].status # "pending"

StageOK(s) ==
    /\ shopPc[s] = "end" => Billed(s)
    /\ shopPc[s] # "end" => answer[s] = None
    /\ shopPc[s] = "new" => key[s] = None
    /\ shopPc[s] = "lookup" => key[s] \in Keys
    /\ shopPc[s] \in {"new", "lookup"} \cup Buying => ~Ordered(s)
    /\ shopPc[s] \in Billing =>
          order[s].status = "pending" /\ ~order[s].invoice /\ ~order[s].template
    /\ shopPc[s] \in {"customer", "item", "invoice"} => s \notin invoices
    /\ shopPc[s] = "fail" /\ s \notin interrupted => s \notin invoices
    /\ shopPc[s] \in {"template", "store", "store_both"} => s \in invoices
    /\ shopPc[s] \in {"template", "fail"} => s \notin templates
    /\ shopPc[s] = "store" /\ s \notin interrupted => s \notin templates
    /\ shopPc[s] = "store_both" => s \in templates

OrderOK(s) ==
    /\ IF Ordered(s) THEN order[s].key = key[s] ELSE order[s] = C!NoOrder /\ s \notin invoices
    /\ s \in templates => s \in invoices
    /\ answer[s] \in Submissions => Ordered(answer[s]) /\ key[answer[s]] = key[s]

\* Of two submissions under a key that never overlapped.
KeyOK(s, t) ==
    s # t /\ key[s] = key[t] /\ key[s] \in Keys \ overlapped =>
        /\ shopPc[s] \in C!Finished \/ shopPc[t] \in C!Finished
        /\ Ordered(s) => ~Ordered(t) /\ shopPc[t] \notin Buying

ShopInv ==
    /\ ShopTypes
    /\ \A s \in Submissions : StageOK(s) /\ OrderOK(s)
    /\ \A s, t \in Submissions : KeyOK(s, t)

LEMMA NoSubmission == None \notin Keys /\ None \notin Submissions /\ "error" \notin Submissions
  BY ServicesAssumption DEF C!SubmissionsAssumption

LEMMA NoOrderRow ==
    /\ C!NoOrder \in OrderRow /\ C!NoOrder.status = "none" /\ C!NoOrder.key = None
    /\ C!NoOrder.invoice = FALSE /\ C!NoOrder.template = FALSE
  BY DEF C!NoOrder, OrderRow

LEMMA InitShop == C!Init => ShopInv
<1> SUFFICES ASSUME C!Init PROVE ShopInv
  OBVIOUS
<1>1. \A s \in Submissions : /\ order[s] = C!NoOrder /\ shopPc[s] = "new" /\ key[s] = None
                             /\ answer[s] = None
  BY DEF C!Init
<1>2. invoices = {} /\ templates = {} /\ overlapped = {} /\ interrupted = {}
  BY DEF C!Init
<1>3. ShopTypes
  BY NoOrderRow DEF C!Init, ShopTypes, ShopLabels
<1>4. \A s \in Submissions : StageOK(s) /\ OrderOK(s)
  BY <1>1, <1>2, NoOrderRow, NoSubmission DEF StageOK, OrderOK, Ordered, Buying, Billing
<1>5. \A s, t \in Submissions : KeyOK(s, t)
  BY <1>1, NoSubmission DEF KeyOK
<1>6. QED
  BY <1>3, <1>4, <1>5 DEF ShopInv

\* What a step of submission s must show.
LEMMA ShopStep ==
    ASSUME ShopInv, NEW s \in Submissions, NEW o \in OrderRow, NEW l \in ShopLabels,
           NEW k \in Keys \cup {None}, NEW a \in Submissions \cup {None, "error"},
           order' = [order EXCEPT ![s] = o], shopPc' = [shopPc EXCEPT ![s] = l],
           key' = [key EXCEPT ![s] = k], answer' = [answer EXCEPT ![s] = a],
           invoices' \in {invoices, invoices \cup {s}},
           templates' \in {templates, templates \cup {s}},
           interrupted' \in {interrupted, interrupted \cup {s}},
           overlapped \subseteq overlapped',
           shopPc[s] # "end", shopPc[s] # "new" => k = key[s] /\ l # "new",
           Ordered(s) => o.status # "none",
           StageOK(s)',
           IF o.status # "none" THEN o.key = k ELSE o = C!NoOrder /\ s \notin invoices',
           s \in templates' => s \in invoices',
           a \in Submissions => IF a = s THEN o.status # "none"
                                ELSE Ordered(a) /\ key[a] = k,
           shopPc[s] = "new" /\ k \in Keys \ overlapped' =>
              \A t \in Submissions \ {s} : key[t] = k => shopPc[t] \in C!Finished,
           l \in Buying /\ shopPc[s] \notin Buying /\ k \in Keys \ overlapped' =>
              \A t \in Submissions \ {s} : key[t] = k => ~Ordered(t),
           o.status # "none" /\ ~Ordered(s) => shopPc[s] = "order"
    PROVE  ShopInv'
<1>1. ShopTypes /\ StageOK(s) /\ OrderOK(s)
  BY DEF ShopInv
<1>2. /\ order'[s] = o /\ shopPc'[s] = l /\ key'[s] = k /\ answer'[s] = a
      /\ \A t \in Submissions : t # s =>
            order'[t] = order[t] /\ shopPc'[t] = shopPc[t] /\ key'[t] = key[t] /\ answer'[t] = answer[t]
  BY <1>1 DEF ShopTypes
<1>3. ShopTypes'
  <2>1. invoices' \subseteq Submissions /\ templates' \subseteq Submissions
    BY <1>1 DEF ShopTypes
  <2>2. /\ order' \in [Submissions -> OrderRow] /\ shopPc' \in [Submissions -> ShopLabels]
        /\ key' \in [Submissions -> Keys \cup {None}]
        /\ answer' \in [Submissions -> Submissions \cup {None, "error"}]
    BY <1>1 DEF ShopTypes
  <2>3. QED
    BY <2>1, <2>2 DEF ShopTypes
<1>4. /\ \A t \in Submissions : t # s => (Ordered(t)' <=> Ordered(t))
      /\ Ordered(s)' <=> o.status # "none"
  BY <1>2 DEF Ordered
<1>5. \A t \in Submissions : t # s => /\ t \in invoices' <=> t \in invoices
                                      /\ t \in templates' <=> t \in templates
                                      /\ t \in interrupted' <=> t \in interrupted
  OBVIOUS
<1>6. C!NoOrder' = C!NoOrder /\ C!Finished' = C!Finished
  BY DEF C!NoOrder, C!Finished
<1>7. ASSUME NEW t \in Submissions PROVE StageOK(t)'
  <2>1. CASE t = s
    BY <2>1
  <2>2. CASE t # s
    <3>1. StageOK(t)
      BY DEF ShopInv
    <3>2. QED
      BY <1>2, <1>4, <1>5, <2>2, <3>1 DEF StageOK, Billed
  <2>3. QED
    BY <2>1, <2>2
<1>8. ASSUME NEW t \in Submissions PROVE OrderOK(t)'
  <2>1. Ordered(s) => key'[s] = key[s]
    BY <1>1, <1>2 DEF StageOK
  <2>2. CASE t = s
    BY <1>2, <1>4, <1>6, <2>2 DEF OrderOK
  <2>3. CASE t # s
    <3>1. OrderOK(t)
      BY DEF ShopInv
    <3>2. answer[t] \in Submissions => Ordered(answer[t])' /\ key'[answer[t]] = key[t]
      BY <1>2, <1>4, <2>1, <2>3, <3>1 DEF OrderOK
    <3>3. QED
      BY <1>2, <1>4, <1>5, <1>6, <2>3, <3>1, <3>2 DEF OrderOK
  <2>4. QED
    BY <2>2, <2>3
<1>9. ASSUME NEW t \in Submissions, t # s, k = key[t], k \in Keys \ overlapped'
      PROVE  /\ l \in C!Finished \/ shopPc[t] \in C!Finished
             /\ o.status # "none" => ~Ordered(t) /\ shopPc[t] \notin Buying
             /\ Ordered(t) => o.status = "none" /\ l \notin Buying
  <2>1. StageOK(t) /\ KeyOK(s, t) /\ KeyOK(t, s)
    BY DEF ShopInv
  <2>2. CASE shopPc[s] = "new"
    <3>1. shopPc[t] \in C!Finished
      BY <1>9, <2>2
    <3>2. o.status = "none"
      BY <1>1, <2>2 DEF StageOK
    <3>3. l \in Buying => ~Ordered(t)
      BY <1>9, <2>2 DEF Buying
    <3>4. QED
      BY <3>1, <3>2, <3>3
  <2>3. CASE shopPc[s] # "new"
    <3>1. key[s] = key[t] /\ key[s] \in Keys \ overlapped /\ l # "new"
          /\ shopPc[s] \notin C!Finished
      BY <1>9, <2>3 DEF C!Finished
    <3>2. shopPc[t] \in C!Finished
      BY <1>9, <2>1, <3>1 DEF KeyOK
    <3>3. shopPc[t] \notin Buying
      BY <3>2 DEF C!Finished, Buying
    <3>4. Ordered(t) => ~Ordered(s) /\ shopPc[s] \notin Buying
      BY <1>9, <2>1, <3>1 DEF KeyOK
    <3>5. o.status # "none" => ~Ordered(t)
      BY <3>4 DEF Buying
    <3>6. l \in Buying => ~Ordered(t)
      BY <1>9, <3>4
    <3>7. QED
      BY <3>2, <3>3, <3>5, <3>6
  <2>4. QED
    BY <2>2, <2>3
<1>10. ASSUME NEW t \in Submissions, NEW u \in Submissions PROVE KeyOK(t, u)'
  <2>1. CASE t # s /\ u # s
    <3>1. KeyOK(t, u)
      BY DEF ShopInv
    <3>2. QED
      BY <1>2, <1>4, <1>6, <2>1, <3>1 DEF KeyOK
  <2>2. CASE t = s /\ u # s
    BY <1>2, <1>4, <1>6, <1>9, <2>2 DEF KeyOK
  <2>3. CASE t # s /\ u = s
    BY <1>2, <1>4, <1>6, <1>9, <2>3 DEF KeyOK
  <2>4. CASE t = u
    BY <2>4 DEF KeyOK
  <2>5. QED
    BY <2>1, <2>2, <2>3, <2>4
<1>4a. QED
  BY <1>3, <1>7, <1>8, <1>10 DEF ShopInv

\* Submissions that go on, with the order as it is.
LEMMA ShopGoesOn ==
    ASSUME ShopInv, NEW s \in Submissions, NEW l \in ShopLabels,
           NEW a \in Submissions \cup {None, "error"},
           UNCHANGED <<order, key, overlapped>>,
           shopPc' = [shopPc EXCEPT ![s] = l], answer' = [answer EXCEPT ![s] = a],
           invoices' \in {invoices, invoices \cup {s}},
           templates' \in {templates, templates \cup {s}},
           interrupted' \in {interrupted, interrupted \cup {s}},
           shopPc[s] \notin C!Finished, l # "new",
           StageOK(s)',
           ~Ordered(s) => s \notin invoices',
           s \in templates' => s \in invoices',
           a \in Submissions => Ordered(a) /\ key[a] = key[s],
           l \in Buying /\ shopPc[s] \notin Buying /\ key[s] \in Keys \ overlapped =>
              \A t \in Submissions \ {s} : key[t] = key[s] => ~Ordered(t)
    PROVE  ShopInv'
<1>1. ShopTypes /\ OrderOK(s)
  BY DEF ShopInv
<1>2. /\ order' = [order EXCEPT ![s] = order[s]] /\ key' = [key EXCEPT ![s] = key[s]]
      /\ order[s] \in OrderRow /\ key[s] \in Keys \cup {None}
  BY <1>1 DEF ShopTypes
<1>3. IF order[s].status # "none" THEN order[s].key = key[s]
      ELSE order[s] = C!NoOrder /\ s \notin invoices'
  BY <1>1 DEF OrderOK, Ordered
<1>4. shopPc[s] # "end" /\ shopPc[s] # "new"
  BY DEF C!Finished
<1>5. a \in Submissions => IF a = s THEN order[s].status # "none"
                                ELSE Ordered(a) /\ key[a] = key[s]
  BY DEF Ordered
<1>6. (Ordered(s) => order[s].status # "none")
      /\ ~(order[s].status # "none" /\ ~Ordered(s))
  BY DEF Ordered
<1>7. overlapped' = overlapped
  OBVIOUS
<1>8. QED
  BY <1>2, <1>3, <1>4, <1>5, <1>6, <1>7, ShopStep

LEMMA SubmitShop ==
    ASSUME ShopInv, NEW s \in Submissions, NEW k \in Keys \cup {None}, C!Submit(s, k)
    PROVE  ShopInv'
<1> DEFINE l == IF k = None THEN "package" ELSE "lookup"
<1>1. ShopTypes /\ StageOK(s) /\ OrderOK(s)
  BY DEF ShopInv
<1>2. /\ shopPc[s] = "new" /\ key' = [key EXCEPT ![s] = k]
      /\ shopPc' = [shopPc EXCEPT ![s] = l]
      /\ order' = order /\ invoices' = invoices /\ templates' = templates /\ answer' = answer
      /\ interrupted' = interrupted
      /\ overlapped' = IF k # None /\ C!Running(k) # {} THEN overlapped \cup {k} ELSE overlapped
  BY DEF C!Submit, C!Goto
<1>3. /\ order' = [order EXCEPT ![s] = order[s]] /\ order[s] \in OrderRow
      /\ answer' = [answer EXCEPT ![s] = answer[s]]
      /\ answer[s] \in Submissions \cup {None, "error"}
      /\ shopPc'[s] = l /\ key'[s] = k /\ order'[s] = order[s] /\ answer'[s] = answer[s]
  BY <1>1, <1>2 DEF ShopTypes
<1>4. ~Ordered(s) /\ answer[s] = None /\ s \notin invoices /\ s \notin templates
      /\ order[s] = C!NoOrder
  BY <1>1, <1>2 DEF StageOK, OrderOK
<1>5. l \in {"package", "lookup"} /\ l \in ShopLabels /\ l # "new" /\ (l = "lookup" => k \in Keys)
      /\ (l \in Buying => k \notin Keys)
  BY NoSubmission DEF ShopLabels, Buying
<1> HIDE DEF l
<1>6. StageOK(s)'
  BY <1>3, <1>4, <1>5 DEF StageOK, Ordered, Buying, Billing
<1>7. k \in Keys \ overlapped' =>
         \A t \in Submissions \ {s} : key[t] = k => shopPc[t] \in C!Finished
  BY <1>2, NoSubmission DEF C!Running
<1>8. overlapped \subseteq overlapped'
  BY <1>2
<1>9. order[s].status = "none"
  BY <1>4 DEF Ordered
<1>10. shopPc[s] # "end"
  BY <1>2
<1>4a. QED
  BY <1>2, <1>3, <1>4, <1>5, <1>6, <1>7, <1>8, <1>9, <1>10, NoSubmission, ShopStep

LEMMA LookupShop ==
    ASSUME ShopInv, NEW s \in Submissions, C!Lookup(s)
    PROVE  ShopInv'
<1> DEFINE found == {t \in Submissions : order[t].key = key[s]}
<1>1. ShopTypes /\ StageOK(s) /\ OrderOK(s)
  BY DEF ShopInv
<1>2. /\ shopPc[s] = "lookup" /\ order' = order /\ invoices' = invoices
      /\ templates' = templates /\ key' = key /\ overlapped' = overlapped
      /\ interrupted' = interrupted
  BY DEF C!Lookup
<1>3. key[s] \in Keys /\ ~Ordered(s) /\ s \notin invoices /\ s \notin templates
      /\ answer[s] = None /\ order[s] = C!NoOrder
  BY <1>1, <1>2 DEF StageOK, OrderOK
<1>4. shopPc[s] \notin C!Finished
  BY <1>2 DEF C!Finished
<1>5. CASE found = {}
  <2>1. shopPc' = [shopPc EXCEPT ![s] = "package"] /\ answer' = answer
    BY <1>5 DEF C!Lookup, C!Goto
  <2>2. answer' = [answer EXCEPT ![s] = None]
    BY <1>1, <1>3, <2>1 DEF ShopTypes
  <2>3. \A t \in Submissions : key[t] = key[s] => ~Ordered(t)
    <3> SUFFICES ASSUME NEW t \in Submissions, key[t] = key[s], Ordered(t) PROVE FALSE
      OBVIOUS
    <3>1. order[t].key = key[s]
      BY DEF ShopInv, OrderOK
    <3>2. QED
      BY <1>5, <3>1
  <2>4. StageOK(s)'
    <3>1. shopPc'[s] = "package" /\ answer'[s] = None
      BY <1>1, <2>1, <2>2 DEF ShopTypes
    <3>2. QED
      BY <1>2, <1>3, <3>1 DEF StageOK, Ordered, Buying, Billing
  <2>5. "package" \in ShopLabels
    BY DEF ShopLabels
  <2>6. QED
    BY <1>2, <1>3, <1>4, <2>1, <2>2, <2>3, <2>4, <2>5, NoSubmission, ShopGoesOn
<1>6. CASE found # {}
  <2>1. PICK t \in found : C!Return(s, t)
    BY <1>6 DEF C!Lookup
  <2>2. shopPc' = [shopPc EXCEPT ![s] = "end"] /\ answer' = [answer EXCEPT ![s] = t]
    BY <2>1 DEF C!Return, C!Goto
  <2>3. t \in Submissions /\ Ordered(t) /\ key[t] = key[s]
    <3>1. t \in Submissions /\ order[t].key = key[s] /\ OrderOK(t)
      BY <2>1 DEF ShopInv
    <3>2. order[t] # C!NoOrder
      BY <1>3, <3>1, NoSubmission, NoOrderRow
    <3>3. QED
      BY <3>1, <3>2 DEF OrderOK
  <2>4. StageOK(s)'
    <3>1. shopPc'[s] = "end"
      BY <1>1, <2>2 DEF ShopTypes
    <3>2. Billed(s)'
      BY <1>2, <1>3, NoOrderRow DEF Billed
    <3>3. QED
      BY <3>1, <3>2 DEF StageOK, Buying, Billing
  <2>5. "end" \in ShopLabels /\ "end" \notin Buying
    BY DEF ShopLabels, Buying
  <2>6. QED
    BY <1>2, <1>3, <1>4, <2>2, <2>3, <2>4, <2>5, ShopGoesOn
<1>7. QED
  BY <1>5, <1>6

LEMMA PackageShop ==
    ASSUME ShopInv, NEW s \in Submissions, NEW ok \in BOOLEAN, C!ReadPackage(s, ok)
    PROVE  ShopInv'
<1>1. ShopTypes /\ StageOK(s) /\ OrderOK(s)
  BY DEF ShopInv
<1>2. /\ shopPc[s] = "package" /\ order' = order /\ invoices' = invoices
      /\ templates' = templates /\ key' = key /\ overlapped' = overlapped
      /\ interrupted' = interrupted
  BY DEF C!ReadPackage
<1>3. ~Ordered(s) /\ s \notin invoices /\ s \notin templates /\ answer[s] = None
      /\ order[s] = C!NoOrder
  BY <1>1, <1>2 DEF StageOK, OrderOK, Buying
<1>4. shopPc[s] \notin C!Finished /\ shopPc[s] \in Buying
  BY <1>2 DEF C!Finished, Buying
<1>5. \/ shopPc' = [shopPc EXCEPT ![s] = "order"] /\ answer' = answer
      \/ shopPc' = [shopPc EXCEPT ![s] = "end"] /\ answer' = [answer EXCEPT ![s] = "error"]
  BY DEF C!ReadPackage, C!Return, C!Goto
<1>6. CASE shopPc' = [shopPc EXCEPT ![s] = "order"] /\ answer' = answer
  <2>1. answer' = [answer EXCEPT ![s] = None]
    BY <1>1, <1>3, <1>6 DEF ShopTypes
  <2>2. shopPc'[s] = "order" /\ answer'[s] = None
    BY <1>1, <1>6, <2>1 DEF ShopTypes
  <2>3. StageOK(s)'
    BY <1>2, <1>3, <2>2 DEF StageOK, Ordered, Buying, Billing
  <2>4. "order" \in ShopLabels
    BY DEF ShopLabels
  <2>5. QED
    BY <1>2, <1>3, <1>4, <1>6, <2>1, <2>3, <2>4, NoSubmission, ShopGoesOn
<1>7. CASE shopPc' = [shopPc EXCEPT ![s] = "end"] /\ answer' = [answer EXCEPT ![s] = "error"]
  <2>1. shopPc'[s] = "end" /\ "end" \in ShopLabels
    BY <1>1, <1>7 DEF ShopTypes, ShopLabels
  <2>2. Billed(s)'
    BY <1>2, <1>3, NoOrderRow DEF Billed
  <2>3. StageOK(s)'
    BY <2>1, <2>2 DEF StageOK, Buying, Billing
  <2>4. QED
    BY <1>2, <1>3, <1>4, <1>7, <2>1, <2>3, NoSubmission, ShopGoesOn
<1>8. QED
  BY <1>5, <1>6, <1>7

\* A step towards the invoice, or its failure.
LEMMA BillingGoesOn ==
    ASSUME ShopInv, NEW s \in Submissions, NEW l \in Billing,
           UNCHANGED <<order, key, overlapped, answer>>, shopPc[s] \in Billing,
           shopPc' = [shopPc EXCEPT ![s] = l],
           invoices' \in {invoices, invoices \cup {s}},
           templates' \in {templates, templates \cup {s}},
           interrupted' \in {interrupted, interrupted \cup {s}},
           s \in templates' => s \in invoices',
           l \in {"customer", "item", "invoice"} => s \notin invoices',
           l = "fail" /\ s \notin interrupted' => s \notin invoices',
           l \in {"template", "store", "store_both"} => s \in invoices',
           l \in {"template", "fail"} => s \notin templates',
           l = "store" /\ s \notin interrupted' => s \notin templates',
           l = "store_both" => s \in templates'
    PROVE  ShopInv'
<1>1. ShopTypes /\ StageOK(s) /\ OrderOK(s)
  BY DEF ShopInv
<1>2. /\ l # "new" /\ l # "end" /\ l # "lookup" /\ l \notin Buying /\ l \in ShopLabels
      /\ shopPc[s] \notin C!Finished
  BY DEF Billing, Buying, ShopLabels, C!Finished
<1>3. answer[s] = None /\ answer' = [answer EXCEPT ![s] = None]
  BY <1>1, <1>2 DEF ShopTypes, StageOK, C!Finished
<1>4. order[s].status = "pending" /\ ~order[s].invoice /\ ~order[s].template
  BY <1>1 DEF StageOK
<1>5. shopPc'[s] = l
  BY <1>1 DEF ShopTypes
<1>6. StageOK(s)'
  BY <1>2, <1>3, <1>4, <1>5 DEF StageOK
<1>7. Ordered(s)
  BY <1>4 DEF Ordered
<1>8. QED
  BY <1>2, <1>3, <1>6, <1>7, NoSubmission, ShopGoesOn

LEMMA BillShop ==
    ASSUME ShopInv, NEW s \in Submissions,
           \/ \E ok \in BOOLEAN : C!Prepare(s, ok)
           \/ \E outcome \in C!Outcomes, recurring \in BOOLEAN :
                 C!CreateInvoice(s, outcome, recurring)
           \/ \E outcome \in C!Outcomes : C!CreateTemplate(s, outcome)
    PROVE  ShopInv'
<1>1. StageOK(s) /\ OrderOK(s)
  BY DEF ShopInv
<1>2. ASSUME NEW ok \in BOOLEAN, C!Prepare(s, ok)
      PROVE  ShopInv'
  <2>1. PICK l \in {"fail", "item", "invoice"} : shopPc' = [shopPc EXCEPT ![s] = l]
    BY <1>2 DEF C!Prepare, C!Goto
  <2>2. /\ shopPc[s] \in {"customer", "item"} /\ order' = order /\ invoices' = invoices
        /\ templates' = templates /\ key' = key /\ overlapped' = overlapped
        /\ interrupted' = interrupted /\ answer' = answer
    BY <1>2 DEF C!Prepare
  <2>3. s \notin invoices /\ s \notin templates
    BY <1>1, <2>2 DEF StageOK, OrderOK
  <2>4. l \in Billing /\ shopPc[s] \in Billing
    BY <2>2 DEF Billing
  <2>5. QED
    BY <2>1, <2>2, <2>3, <2>4, BillingGoesOn
<1>3. ASSUME NEW outcome \in C!Outcomes, NEW recurring \in BOOLEAN,
             C!CreateInvoice(s, outcome, recurring)
      PROVE  ShopInv'
  <2> DEFINE l == IF outcome # "done" THEN "fail" ELSE IF recurring THEN "template" ELSE "store"
  <2>1. /\ shopPc[s] = "invoice" /\ order' = order /\ templates' = templates /\ key' = key
        /\ overlapped' = overlapped /\ answer' = answer
        /\ invoices' = IF outcome = "refused" THEN invoices ELSE invoices \cup {s}
        /\ interrupted' = IF outcome = "lost" THEN interrupted \cup {s} ELSE interrupted
        /\ shopPc' = [shopPc EXCEPT ![s] = l]
    BY <1>3 DEF C!CreateInvoice, C!Goto, C!Interrupt
  <2>2. s \notin invoices /\ s \notin templates
    BY <1>1, <2>1 DEF StageOK, OrderOK
  <2>3. l \in Billing /\ shopPc[s] \in Billing
    BY <2>1 DEF Billing
  <2>4. outcome \in {"done", "refused", "lost"}
    BY DEF C!Outcomes
  <2>5. QED
    BY <2>1, <2>2, <2>3, <2>4, BillingGoesOn
<1>4. ASSUME NEW outcome \in C!Outcomes, C!CreateTemplate(s, outcome)
      PROVE  ShopInv'
  <2> DEFINE l == IF outcome = "done" THEN "store_both" ELSE "store"
  <2>1. /\ shopPc[s] = "template" /\ order' = order /\ invoices' = invoices /\ key' = key
        /\ overlapped' = overlapped /\ answer' = answer
        /\ templates' = IF outcome = "refused" THEN templates ELSE templates \cup {s}
        /\ interrupted' = IF outcome = "lost" THEN interrupted \cup {s} ELSE interrupted
        /\ shopPc' = [shopPc EXCEPT ![s] = l]
    BY <1>4 DEF C!CreateTemplate, C!Goto, C!Interrupt
  <2>2. s \in invoices /\ s \notin templates
    BY <1>1, <2>1 DEF StageOK
  <2>3. l \in Billing /\ shopPc[s] \in Billing
    BY <2>1 DEF Billing
  <2>4. outcome \in {"done", "refused", "lost"}
    BY DEF C!Outcomes
  <2>5. QED
    BY <2>1, <2>2, <2>3, <2>4, BillingGoesOn
<1>5. QED
  BY <1>2, <1>3, <1>4

LEMMA CreateShop ==
    ASSUME ShopInv, NEW s \in Submissions, C!CreateOrder(s)
    PROVE  ShopInv'
<1> DEFINE o == [C!NoOrder EXCEPT !.status = "pending", !.key = key[s]]
<1>1. ShopTypes /\ StageOK(s) /\ OrderOK(s) /\ key[s] \in Keys \cup {None}
  BY DEF ShopInv, ShopTypes
<1>2. /\ shopPc[s] = "order" /\ order' = [order EXCEPT ![s] = o]
      /\ shopPc' = [shopPc EXCEPT ![s] = "customer"]
      /\ invoices' = invoices /\ templates' = templates /\ key' = key
      /\ answer' = answer /\ overlapped' = overlapped /\ interrupted' = interrupted
  BY DEF C!CreateOrder, C!Goto
<1>3. /\ o \in OrderRow /\ o.status = "pending" /\ o.key = key[s]
      /\ ~o.invoice /\ ~o.template
  BY <1>1 DEF C!NoOrder, OrderRow
<1> HIDE DEF o
<1>4. ~Ordered(s) /\ s \notin invoices /\ s \notin templates /\ answer[s] = None
  BY <1>1, <1>2 DEF StageOK, OrderOK, Buying
<1>5. /\ key' = [key EXCEPT ![s] = key[s]] /\ answer' = [answer EXCEPT ![s] = None]
      /\ order'[s] = o /\ shopPc'[s] = "customer" /\ answer'[s] = None
  BY <1>1, <1>2, <1>4 DEF ShopTypes
<1>6. StageOK(s)'
  BY <1>2, <1>3, <1>4, <1>5 DEF StageOK, Ordered, Buying
<1>7. "customer" \in ShopLabels /\ "customer" \notin Buying
  BY DEF ShopLabels, Buying
<1>8. shopPc[s] # "end" /\ shopPc[s] # "new" /\ o.status # "none"
  BY <1>2, <1>3
<1>9. overlapped \subseteq overlapped'
  BY <1>2
<1>10. QED
  BY <1>1, <1>2, <1>3, <1>4, <1>5, <1>6, <1>7, <1>8, <1>9, NoSubmission, ShopStep

\* The order is written for the last time.
LEMMA CloseShop ==
    ASSUME ShopInv, NEW s \in Submissions, C!StoreInvoice(s) \/ C!FailOrder(s)
    PROVE  ShopInv'
<1>1. ShopTypes /\ StageOK(s) /\ OrderOK(s) /\ order[s] \in OrderRow
      /\ key[s] \in Keys \cup {None}
  BY DEF ShopInv, ShopTypes
<1>2. /\ invoices' = invoices /\ templates' = templates /\ key' = key
      /\ overlapped' = overlapped /\ interrupted' = interrupted
      /\ shopPc' = [shopPc EXCEPT ![s] = "end"] /\ shopPc[s] \in {"store", "store_both", "fail"}
  BY DEF C!StoreInvoice, C!FailOrder, C!Return, C!Goto
<1>3. shopPc[s] \in Billing
  BY <1>2 DEF Billing
<1>4. PICK o \in OrderRow, a \in {s, "error"} :
         /\ order' = [order EXCEPT ![s] = o] /\ answer' = [answer EXCEPT ![s] = a]
         /\ o.key = order[s].key /\ o.status \in {"payment_pending", "failed"}
         /\ o.status = "payment_pending" => s \in invoices
         /\ s \notin interrupted => /\ (o.invoice <=> s \in invoices)
                                    /\ (o.template <=> s \in templates)
  <2>1. CASE C!StoreInvoice(s)
    <3> DEFINE o == [order[s] EXCEPT !.status = "payment_pending", !.invoice = TRUE,
                                     !.template = (shopPc[s] = "store_both")]
    <3>1. /\ shopPc[s] \in {"store", "store_both"} /\ answer' = [answer EXCEPT ![s] = s]
          /\ order' = [order EXCEPT ![s] = o]
      BY <1>1, <2>1 DEF C!StoreInvoice, C!Return, ShopTypes
    <3>2. o \in OrderRow /\ o.key = order[s].key /\ o.status = "payment_pending"
          /\ o.invoice = TRUE /\ o.template = (shopPc[s] = "store_both")
      BY <1>1 DEF OrderRow
    <3> HIDE DEF o
    <3>3. s \in invoices /\ (shopPc[s] = "store_both" => s \in templates)
          /\ (shopPc[s] = "store" /\ s \notin interrupted => s \notin templates)
      BY <1>1, <3>1 DEF StageOK
    <3>4. s \notin interrupted => /\ (o.invoice <=> s \in invoices)
                                 /\ (o.template <=> s \in templates)
      <4>1. s \notin interrupted => (shopPc[s] = "store_both" <=> s \in templates)
        BY <3>1, <3>3
      <4>2. (o.invoice <=> s \in invoices)
        BY <3>2, <3>3
      <4>3. s \notin interrupted => (o.template <=> s \in templates)
        BY <3>2, <4>1
      <4>4. QED
        BY <4>2, <4>3
    <3>5. QED
      BY <3>1, <3>2, <3>3, <3>4
  <2>2. CASE C!FailOrder(s)
    <3> DEFINE o == [order[s] EXCEPT !.status = "failed"]
    <3>1. /\ shopPc[s] = "fail" /\ answer' = [answer EXCEPT ![s] = "error"]
          /\ order' = [order EXCEPT ![s] = o]
      BY <1>1, <2>2 DEF C!FailOrder, C!Return, ShopTypes
    <3>2. o \in OrderRow /\ o.key = order[s].key /\ o.status = "failed"
          /\ o.invoice = order[s].invoice /\ o.template = order[s].template
      BY <1>1 DEF OrderRow
    <3> HIDE DEF o
    <3>3. /\ ~order[s].invoice /\ ~order[s].template /\ s \notin templates
          /\ s \notin interrupted => s \notin invoices
      BY <1>1, <1>3, <3>1 DEF StageOK
    <3>4. /\ order[s].invoice \in BOOLEAN /\ order[s].template \in BOOLEAN
      BY <1>1 DEF OrderRow
    <3>5. s \notin interrupted => /\ (o.invoice <=> s \in invoices)
                                 /\ (o.template <=> s \in templates)
      BY <3>2, <3>3, <3>4
    <3>6. QED
      BY <3>1, <3>2, <3>5
  <2>3. QED
    BY <2>1, <2>2
<1>5. order'[s] = o /\ shopPc'[s] = "end" /\ key' = [key EXCEPT ![s] = key[s]]
  BY <1>1, <1>2, <1>4 DEF ShopTypes
<1>6. Billed(s)'
  BY <1>2, <1>4, <1>5 DEF Billed
<1>7. StageOK(s)'
  BY <1>5, <1>6 DEF StageOK, Buying, Billing
<1>8. Ordered(s) /\ order[s].key = key[s]
  BY <1>1, <1>3 DEF StageOK, OrderOK, Ordered
<1>9. "end" \in ShopLabels /\ "end" \notin Buying /\ shopPc[s] # "new" /\ shopPc[s] # "end"
  BY <1>2 DEF ShopLabels, Buying
<1>10. o.status # "none" /\ o.key = key[s] /\ overlapped \subseteq overlapped'
  BY <1>2, <1>4, <1>8
<1>4a. s \in templates' => s \in invoices'
  BY <1>1, <1>2 DEF OrderOK
<1>12. a \in Submissions \cup {None, "error"} /\ (a \in Submissions => a = s)
  BY <1>4, NoSubmission
<1>13. QED
  BY <1>1, <1>2, <1>4, <1>5, <1>7, <1>8, <1>9, <1>10, <1>4a, <1>12, ShopStep

LEMMA AbandonShop ==
    ASSUME ShopInv, NEW s \in Submissions, C!Abandon(s)
    PROVE  ShopInv'
<1>1. ShopTypes /\ StageOK(s) /\ OrderOK(s)
  BY DEF ShopInv
<1>2. /\ shopPc[s] \notin C!Finished /\ order' = order /\ invoices' = invoices
      /\ templates' = templates /\ key' = key /\ overlapped' = overlapped
      /\ interrupted' = interrupted \cup {s} /\ shopPc' = [shopPc EXCEPT ![s] = "end"]
      /\ answer' = [answer EXCEPT ![s] = "error"]
  BY DEF C!Abandon, C!Return, C!Goto
<1>3. shopPc'[s] = "end" /\ "end" \in ShopLabels /\ "end" \notin Buying
  BY <1>1, <1>2 DEF ShopTypes, ShopLabels, Buying
<1>4. order[s].status # "payment_pending"
  <2>1. shopPc[s] \in Billing \cup Buying \cup {"lookup"}
    BY <1>1, <1>2 DEF ShopTypes, ShopLabels, Billing, Buying, C!Finished
  <2>2. QED
    BY <1>1, <2>1 DEF StageOK, Ordered
<1>5. StageOK(s)'
  BY <1>2, <1>3, <1>4 DEF StageOK, Billed, Buying, Billing
<1>6. QED
  BY <1>1, <1>2, <1>3, <1>5, NoSubmission, ShopGoesOn DEF OrderOK

LEMMA ShopKeeps == ShopInv /\ (C!Next \/ UNCHANGED shopVars) => ShopInv'
<1> SUFFICES ASSUME ShopInv, C!Next \/ UNCHANGED shopVars PROVE ShopInv'
  OBVIOUS
<1>1. CASE UNCHANGED shopVars
  <2>1. /\ order' = order /\ invoices' = invoices /\ templates' = templates /\ shopPc' = shopPc
        /\ key' = key /\ answer' = answer /\ overlapped' = overlapped /\ interrupted' = interrupted
    BY <1>1 DEF shopVars
  <2>2. C!NoOrder' = C!NoOrder /\ C!Finished' = C!Finished
    BY DEF C!NoOrder, C!Finished
  <2>3. ShopTypes'
    BY <2>1 DEF ShopInv, ShopTypes
  <2>4. \A s \in Submissions : StageOK(s)' /\ OrderOK(s)'
    BY <2>1, <2>2 DEF ShopInv, StageOK, OrderOK, Billed, Ordered
  <2>5. \A s, t \in Submissions : KeyOK(s, t)'
    BY <2>1, <2>2 DEF ShopInv, KeyOK, Ordered
  <2>6. QED
    BY <2>3, <2>4, <2>5 DEF ShopInv
<1>2. CASE C!Next
  <2>1. PICK s \in Submissions :
            \/ \E k \in Keys \cup {None} : C!Submit(s, k)
            \/ C!Lookup(s) \/ C!CreateOrder(s) \/ C!StoreInvoice(s) \/ C!FailOrder(s) \/ C!Abandon(s)
            \/ \E ok \in BOOLEAN : C!ReadPackage(s, ok) \/ C!Prepare(s, ok)
            \/ \E outcome \in C!Outcomes :
                  \/ \E recurring \in BOOLEAN : C!CreateInvoice(s, outcome, recurring)
                  \/ C!CreateTemplate(s, outcome)
    BY <1>2 DEF C!Next
  <2>2. CASE \E k \in Keys \cup {None} : C!Submit(s, k)
    BY <2>2, SubmitShop
  <2>3. CASE C!Lookup(s) \/ C!CreateOrder(s) \/ C!Abandon(s)
    BY <2>3, LookupShop, CreateShop, AbandonShop
  <2>4. CASE C!StoreInvoice(s) \/ C!FailOrder(s)
    BY <2>4, CloseShop
  <2>5. CASE \E ok \in BOOLEAN : C!ReadPackage(s, ok)
    BY <2>5, PackageShop
  <2>6. CASE \/ \E ok \in BOOLEAN : C!Prepare(s, ok)
             \/ \E outcome \in C!Outcomes, recurring \in BOOLEAN :
                   C!CreateInvoice(s, outcome, recurring)
             \/ \E outcome \in C!Outcomes : C!CreateTemplate(s, outcome)
    BY <2>6, BillShop
  <2>7. QED
    BY <2>1, <2>2, <2>3, <2>4, <2>5, <2>6
<1>3. QED
  BY <1>1, <1>2

\* A set of which no two members differ.
LEMMA NoTwo ==
    ASSUME NEW S, \A x, y \in S : x = y
    PROVE  Cardinality(S) <= 1
<1>1. CASE S = {}
  BY <1>1, FS_EmptySet
<1>2. CASE S # {}
  <2>1. PICK x : S = {x}
    BY <1>2
  <2>2. QED
    BY <2>1, FS_Singleton
<1>3. QED
  BY <1>1, <1>2

LEMMA ShopInvMeans == ShopInv => C!CheckoutBillsOnce
<1> SUFFICES ASSUME ShopInv PROVE C!CheckoutBillsOnce
  OBVIOUS
<1>1. ASSUME NEW k \in Keys \ overlapped
      PROVE  LET mine == {s \in Submissions : key[s] = k} IN
             /\ C!Cardinality({s \in mine : order[s] # C!NoOrder}) <= 1
             /\ C!Cardinality(invoices \cap mine) <= 1
             /\ \A s, t \in mine : {answer[s], answer[t]} \subseteq Submissions =>
                                      answer[s] = answer[t]
  <2> DEFINE mine == {s \in Submissions : key[s] = k}
  <2>1. \A s, t \in mine : Ordered(s) /\ Ordered(t) => s = t
    BY <1>1 DEF ShopInv, KeyOK
  <2>2. \A s \in mine : (order[s] # C!NoOrder => Ordered(s)) /\ (s \in invoices => Ordered(s))
    BY DEF ShopInv, OrderOK
  <2>3. \A s \in mine : answer[s] \in Submissions =>
            Ordered(answer[s]) /\ answer[s] \in mine
    BY DEF ShopInv, OrderOK
  <2>4. Cardinality({s \in mine : order[s] # C!NoOrder}) <= 1
    BY <2>1, <2>2, NoTwo
  <2>5. Cardinality(invoices \cap mine) <= 1
    BY <2>1, <2>2, NoTwo
  <2>6. \A s, t \in mine : {answer[s], answer[t]} \subseteq Submissions => answer[s] = answer[t]
    BY <2>1, <2>3
  <2>7. QED
    BY <2>4, <2>5, <2>6, OneCardinality
<1>2. \A s \in Submissions : shopPc[s] = "end" => Billed(s)
  BY DEF ShopInv, StageOK
<1>3. ASSUME NEW s \in Submissions, Billed(s), s \notin interrupted
      PROVE  order[s].invoice = (s \in invoices) /\ order[s].template = (s \in templates)
  <2>1. order[s].invoice \in BOOLEAN /\ order[s].template \in BOOLEAN
    BY DEF ShopInv, ShopTypes, OrderRow
  <2>2. (order[s].invoice <=> s \in invoices) /\ (order[s].template <=> s \in templates)
    BY <1>3 DEF Billed
  <2>3. QED
    BY <2>1, <2>2
<1>4. QED
  BY <1>1, <1>2, <1>3 DEF C!CheckoutBillsOnce, Billed

\* Submissions under one key, one after the other, lead to one order and one
\* invoice; an ended submission that did not die and lost no answer has its
\* invoice and template on its order, and whatever happened to it, it has an
\* invoice if it awaits payment.  For any number of submissions and keys.
THEOREM OneOrderPerKey == Spec => []CheckoutBillsOnce
<1>1. Init => ShopInv
  BY InitShop DEF Init
<1>2. ShopInv /\ [Next]_vars => ShopInv'
  BY ShopKeeps, OneMoves
<1>3. ShopInv => CheckoutBillsOnce
  BY ShopInvMeans DEF CheckoutBillsOnce
<1>4. QED
  BY <1>1, <1>2, <1>3, PTL DEF Spec


-----------------------------------------------------------------------------
(***************************************************************************)
(* QuickbooksConnection.  A request that is alone has the newest token of  *)
(* its company; while nothing disturbed the connection, whoever is at work *)
(* is alone and works on the one active company.                           *)
(***************************************************************************)
QboRow == [stored : BOOLEAN, active : BOOLEAN, token : Nat, error : BOOLEAN]
QboFrame == [op : {"none", "connect", "refresh", "disconnect"}, realm : Realms \cup {"none"},
             token : Nat, alone : BOOLEAN]
QboLabels == {"idle", "deactivate", "upsert", "refresh", "record", "revoke", "off"}

QboTypes ==
    /\ row \in [Realms -> QboRow]
    /\ issued \in [Realms -> Nat]
    /\ qboPc \in [Calls -> QboLabels] /\ qboFrame \in [Calls -> QboFrame]
    /\ wanted \in Realms \cup {"none"} /\ qboDisturbed \in BOOLEAN

\* The active companies are those of a set, and their tokens are good.
GoodFor(S) ==
    \A r \in Realms : /\ row[r].active <=> r \in S
                      /\ row[r].active => row[r].token = issued[r] /\ r \notin revoked

AtWorkOK(c) ==
    LET f == qboFrame[c] IN
    qboPc[c] # "idle" =>
    /\ f.realm \in Realms
    /\ qboPc[c] \in {"refresh", "record"} => f.op = "refresh"
    /\ qboPc[c] \in {"revoke", "off"} => f.op = "disconnect"
    /\ qboPc[c] \in {"deactivate", "upsert"} => f.op \in {"connect", "refresh"}
    /\ f.alone => \A d \in Calls \ {c} : qboPc[d] = "idle"
    /\ ~qboDisturbed => f.alone
    \* a new connection, all by itself
    /\ f.alone /\ f.op = "connect" =>
          /\ qboPc[c] \in {"deactivate", "upsert"}
          /\ f.token = issued[f.realm] /\ f.realm \notin revoked
          /\ qboPc[c] = "upsert" => \A r \in Realms : row[r].active => r = f.realm
    \* a refresh or the end of a connection that was good
    /\ ~qboDisturbed /\ f.op # "connect" =>
          /\ wanted = f.realm
          /\ \A r \in Realms : row[r].active <=> r = f.realm
    /\ ~qboDisturbed /\ f.op = "refresh" =>
          /\ f.realm \notin revoked
          /\ f.token = issued[f.realm] \/ qboPc[c] = "record"
          /\ qboPc[c] \in {"refresh", "record"} => row[f.realm].token = issued[f.realm]

QboInv ==
    /\ QboTypes
    /\ \A c \in Calls : AtWorkOK(c)
    /\ (\A c \in Calls : qboPc[c] = "idle") /\ ~qboDisturbed => GoodFor({wanted})

LEMMA NoneIsNoRealm == "none" \notin Realms
  BY ServicesAssumption DEF Q!TokenAssumption

LEMMA NoQboRow ==
    /\ Q!NoRow \in QboRow /\ ~Q!NoRow.active
    /\ Q!NoFrame \in QboFrame
  BY DEF Q!NoRow, QboRow, Q!NoFrame, QboFrame

LEMMA InitQbo == Q!Init => QboInv
<1> SUFFICES ASSUME Q!Init PROVE QboInv
  OBVIOUS
<1>1. QboTypes
  BY NoQboRow DEF Q!Init, QboTypes, QboLabels
<1>2. \A c \in Calls : AtWorkOK(c)
  BY DEF Q!Init, AtWorkOK
<1>3. \A r \in Realms : ~row[r].active
  BY NoQboRow DEF Q!Init
<1>4. wanted = "none"
  BY DEF Q!Init
<1>5. QED
  BY <1>1, <1>2, <1>3, <1>4, NoneIsNoRealm DEF QboInv, GoodFor

\* A request begins: all others run no longer alone.
LEMMA QboBegins ==
    ASSUME QboInv, NEW c \in Calls, NEW l \in QboLabels, l # "idle", NEW f \in QboFrame,
           Q!Begin(c, l, f), UNCHANGED <<row, wanted>>, issued' \in [Realms -> Nat],
           f.realm \in Realms,
           l \in {"refresh", "record"} => f.op = "refresh",
           l \in {"revoke", "off"} => f.op = "disconnect",
           l \in {"deactivate", "upsert"} => f.op \in {"connect", "refresh"},
           f.op = "connect" => /\ l = "deactivate" /\ f.token = issued'[f.realm]
                               /\ f.realm \notin revoked',
           f.op # "connect" => /\ row[f.realm].active /\ f.token = row[f.realm].token
                               /\ l \in {"refresh", "revoke"}
                               /\ UNCHANGED <<issued, revoked>>
    PROVE  QboInv'
<1> DEFINE g == [f EXCEPT !.alone = (Q!Busy = {})]
<1>1. QboTypes
  BY DEF QboInv
<1>2. /\ qboPc[c] = "idle" /\ qboPc' = [qboPc EXCEPT ![c] = l]
      /\ qboFrame' = [x \in Calls |-> IF x = c THEN g ELSE [qboFrame[x] EXCEPT !.alone = FALSE]]
      /\ qboDisturbed' = (qboDisturbed \/ Q!Busy # {})
  BY DEF Q!Begin, Q!Goto
<1>3. g \in QboFrame /\ g.op = f.op /\ g.realm = f.realm /\ g.token = f.token
      /\ (g.alone <=> Q!Busy = {})
  BY DEF QboFrame
<1> HIDE DEF g
<1>4. /\ qboPc'[c] = l /\ qboFrame'[c] = g
      /\ \A d \in Calls : d # c =>
            /\ qboPc'[d] = qboPc[d] /\ qboFrame'[d].alone = FALSE
            /\ qboFrame'[d].op = qboFrame[d].op /\ qboFrame'[d].realm = qboFrame[d].realm
            /\ qboFrame'[d] \in QboFrame
  BY <1>1, <1>2 DEF QboTypes, QboFrame
<1>5. QboTypes'
  <2>1. qboFrame' \in [Calls -> QboFrame]
    BY <1>2, <1>3, <1>4
  <2>2. qboDisturbed' \in BOOLEAN
    BY <1>2
  <2>3. QED
    BY <1>1, <1>2, <2>1, <2>2 DEF QboTypes
<1>6. AtWorkOK(c)'
  <2>1. g.alone => \A d \in Calls \ {c} : qboPc'[d] = "idle"
    BY <1>3, <1>4 DEF Q!Busy
  <2>2. ~qboDisturbed' => g.alone
    BY <1>2, <1>3
  <2>3. ASSUME ~qboDisturbed', f.op # "connect"
        PROVE  /\ wanted' = f.realm /\ \A r \in Realms : row'[r].active <=> r = f.realm
               /\ f.realm \notin revoked' /\ f.token = issued'[f.realm]
               /\ row'[f.realm].token = issued'[f.realm]
    <3>1. \A d \in Calls : qboPc[d] = "idle"
      BY <1>2, <2>3 DEF Q!Busy
    <3>2. GoodFor({wanted})
      BY <1>2, <2>3, <3>1 DEF QboInv
    <3>3. QED
      BY <2>3, <3>2 DEF GoodFor
  <2>4. QED
    BY <1>3, <1>4, <2>1, <2>2, <2>3 DEF AtWorkOK
<1>7. ASSUME NEW d \in Calls, d # c PROVE AtWorkOK(d)'
  <2>1. CASE qboPc[d] = "idle"
    BY <1>4, <1>7, <2>1 DEF AtWorkOK
  <2>2. CASE qboPc[d] # "idle"
    <3>1. qboDisturbed'
      BY <1>2, <2>2 DEF Q!Busy
    <3>2. AtWorkOK(d)
      BY DEF QboInv
    <3>3. QED
      BY <1>4, <1>7, <2>2, <3>1, <3>2 DEF AtWorkOK
  <2>3. QED
    BY <2>1, <2>2
<1>8. ~(\A d \in Calls : qboPc'[d] = "idle")
  BY <1>4
<1>9. QED
  BY <1>5, <1>6, <1>7, <1>8 DEF QboInv

\* A request that is at work goes on or ends.
LEMMA QboGoesOn ==
    ASSUME QboInv, NEW c \in Calls, NEW l \in QboLabels, NEW f \in QboFrame,
           qboPc[c] # "idle",
           qboPc' = [qboPc EXCEPT ![c] = l], qboFrame' = [qboFrame EXCEPT ![c] = f],
           row' \in [Realms -> QboRow], issued' \in [Realms -> Nat],
           wanted' \in Realms \cup {"none"}, qboDisturbed' \in BOOLEAN,
           ~qboDisturbed' => ~qboDisturbed \/ qboFrame[c].alone,
           AtWorkOK(c)',
           l = "idle" /\ ~qboDisturbed' => GoodFor({wanted})'
    PROVE  QboInv'
<1>1. QboTypes /\ AtWorkOK(c)
  BY DEF QboInv
<1>2. /\ qboPc'[c] = l /\ qboFrame'[c] = f
      /\ \A d \in Calls : d # c => qboPc'[d] = qboPc[d] /\ qboFrame'[d] = qboFrame[d]
  BY <1>1 DEF QboTypes
<1>3. QboTypes'
  BY <1>1 DEF QboTypes
<1>4. ASSUME NEW d \in Calls, d # c PROVE AtWorkOK(d)'
  <2>1. CASE qboPc[d] = "idle"
    BY <1>2, <1>4, <2>1 DEF AtWorkOK
  <2>2. CASE qboPc[d] # "idle"
    <3>1. AtWorkOK(d)
      BY DEF QboInv
    <3>2. ~qboFrame[c].alone /\ ~qboFrame[d].alone
      BY <1>1, <1>4, <2>2, <3>1 DEF AtWorkOK
    <3>3. qboDisturbed'
      BY <1>1, <3>2 DEF AtWorkOK
    <3>4. QED
      BY <1>2, <1>4, <2>2, <3>1, <3>2, <3>3 DEF AtWorkOK
  <2>3. QED
    BY <2>1, <2>2
<1>5. QED
  BY <1>2, <1>3, <1>4 DEF QboInv

LEMMA ConnectQbo ==
    ASSUME QboInv, NEW c \in Calls, NEW r \in Realms, Q!Connect(c, r, TRUE)
    PROVE  QboInv'
<1> DEFINE t == issued[r] + 1
           f == [Q!NoFrame EXCEPT !.op = "connect", !.realm = r, !.token = t]
<1>1. QboTypes /\ issued[r] \in Nat /\ t \in Nat
  BY DEF QboInv, QboTypes
<1>2. /\ issued' = [issued EXCEPT ![r] = @ + 1] /\ revoked' = revoked \ {r}
      /\ Q!Begin(c, "deactivate", f) /\ row' = row /\ wanted' = wanted
  BY DEF Q!Connect
<1> HIDE DEF t
<1>3. f \in QboFrame /\ f.op = "connect" /\ f.realm = r /\ f.token = t
  BY <1>1 DEF Q!NoFrame, QboFrame
<1> HIDE DEF f
<1>4. issued' \in [Realms -> Nat] /\ issued'[r] = t
  BY <1>1, <1>2 DEF QboTypes, t
<1>5. "deactivate" \in QboLabels
  BY DEF QboLabels
<1>6. QED
  BY <1>2, <1>3, <1>4, <1>5, QboBegins

LEMMA WorkBegins ==
    ASSUME QboInv, NEW c \in Calls, Q!NeedRefresh(c) \/ Q!Disconnect(c)
    PROVE  QboInv'
<1>1. PICK r \in Q!Latest, l \in {"refresh", "revoke"} :
          Q!Begin(c, l, [Q!NoFrame EXCEPT !.op = IF l = "refresh" THEN "refresh" ELSE "disconnect",
                                          !.realm = r, !.token = row[r].token])
  BY DEF Q!NeedRefresh, Q!Disconnect
<1> DEFINE op == IF l = "refresh" THEN "refresh" ELSE "disconnect"
           f == [Q!NoFrame EXCEPT !.op = op, !.realm = r, !.token = row[r].token]
<1>2. row' = row /\ issued' = issued /\ revoked' = revoked /\ wanted' = wanted
  BY DEF Q!NeedRefresh, Q!Disconnect
<1>3. r \in Realms /\ row[r].active
  BY DEF Q!Latest, Q!Active
<1>4. QboTypes /\ row[r].token \in Nat /\ issued' \in [Realms -> Nat]
  BY <1>2, <1>3 DEF QboInv, QboTypes, QboRow
<1>5. op \in {"refresh", "disconnect"} /\ (l = "refresh" => op = "refresh")
      /\ (l = "revoke" => op = "disconnect")
  OBVIOUS
<1>6. Q!Begin(c, l, f)
  BY <1>1
<1> HIDE DEF op
<1>7. f \in QboFrame /\ f.op = op /\ f.realm = r /\ f.token = row[r].token
  BY <1>3, <1>4, <1>5 DEF Q!NoFrame, QboFrame
<1> HIDE DEF f
<1>8. l \in QboLabels /\ l # "idle" /\ l \notin {"record", "off", "deactivate", "upsert"}
  BY DEF QboLabels
<1>9. QED
  BY <1>2, <1>3, <1>4, <1>5, <1>6, <1>7, <1>8, QboBegins

LEMMA RefreshQbo ==
    ASSUME QboInv, NEW c \in Calls, NEW outcome \in {"done", "refused", "lost"},
           Q!Refresh(c, outcome)
    PROVE  QboInv'
<1> DEFINE r == qboFrame[c].realm
<1>1. QboTypes /\ AtWorkOK(c) /\ qboFrame[c] \in QboFrame
  BY DEF QboInv, QboTypes
<1>2. /\ qboPc[c] = "refresh" /\ row' = row /\ revoked' = revoked /\ wanted' = wanted
      /\ issued' = IF outcome = "refused" THEN issued ELSE [issued EXCEPT ![r] = @ + 1]
      /\ qboFrame' = IF outcome = "done" THEN [qboFrame EXCEPT ![c].token = issued[r] + 1]
                     ELSE qboFrame
      /\ qboDisturbed' = (qboDisturbed \/ outcome = "lost")
      /\ qboPc' = [qboPc EXCEPT ![c] = IF outcome = "done" THEN "deactivate" ELSE "record"]
  BY DEF Q!Refresh, Q!Goto
<1>3. r \in Realms /\ issued[r] \in Nat /\ qboFrame[c].op = "refresh"
  BY <1>1, <1>2 DEF AtWorkOK, QboTypes
<1>4. issued' \in [Realms -> Nat] /\ row' \in [Realms -> QboRow]
      /\ wanted' \in Realms \cup {"none"} /\ qboDisturbed' \in BOOLEAN
  BY <1>1, <1>2, <1>3 DEF QboTypes
<1>5. CASE outcome = "done"
  <2> DEFINE f == [qboFrame[c] EXCEPT !.token = issued[r] + 1]
  <2>1. qboFrame' = [qboFrame EXCEPT ![c] = f] /\ qboPc' = [qboPc EXCEPT ![c] = "deactivate"]
        /\ qboDisturbed' = qboDisturbed /\ issued' = [issued EXCEPT ![r] = @ + 1]
    BY <1>1, <1>2, <1>5 DEF QboTypes
  <2>2. /\ f \in QboFrame /\ f.op = "refresh" /\ f.realm = r /\ f.token = issued[r] + 1
        /\ f.alone = qboFrame[c].alone
    BY <1>1, <1>3 DEF QboFrame
  <2> HIDE DEF f
  <2>3. /\ qboPc'[c] = "deactivate" /\ qboFrame'[c] = f /\ issued'[r] = issued[r] + 1
        /\ \A d \in Calls \ {c} : qboPc'[d] = qboPc[d]
    BY <1>1, <1>3, <2>1 DEF QboTypes
  <2>4. AtWorkOK(c)'
    BY <1>1, <1>2, <1>3, <2>1, <2>2, <2>3 DEF AtWorkOK
  <2>5. "deactivate" \in QboLabels
    BY DEF QboLabels
  <2>6. QED
    BY <1>2, <1>4, <2>1, <2>2, <2>4, <2>5, QboGoesOn
<1>6. CASE outcome # "done"
  <2>1. qboFrame' = [qboFrame EXCEPT ![c] = qboFrame[c]] /\ qboPc' = [qboPc EXCEPT ![c] = "record"]
        /\ qboFrame' = qboFrame
    BY <1>1, <1>2, <1>6 DEF QboTypes
  <2>2. /\ qboPc'[c] = "record" /\ \A d \in Calls \ {c} : qboPc'[d] = qboPc[d]
    BY <1>1, <2>1 DEF QboTypes
  <2>3. outcome = "refused" \/ qboDisturbed'
    BY <1>2, <1>6
  <2>4. AtWorkOK(c)'
    <3>1. CASE qboDisturbed'
      BY <1>1, <1>2, <1>3, <2>1, <2>2, <3>1 DEF AtWorkOK
    <3>2. CASE outcome = "refused"
      <4>1. issued' = issued /\ qboDisturbed' = qboDisturbed
        BY <1>1, <1>2, <3>2 DEF QboTypes
      <4>2. QED
        BY <1>1, <1>2, <1>3, <2>1, <2>2, <4>1 DEF AtWorkOK
    <3>3. QED
      BY <2>3, <3>1, <3>2
  <2>5. "record" \in QboLabels
    BY DEF QboLabels
  <2>6. QED
    BY <1>1, <1>2, <1>4, <2>1, <2>4, <2>5, QboGoesOn
<1>7. QED
  BY <1>5, <1>6

LEMMA DeactivateQbo ==
    ASSUME QboInv, NEW c \in Calls, Q!Deactivate(c)
    PROVE  QboInv'
<1> DEFINE k == qboFrame[c].realm
<1>1. QboTypes /\ AtWorkOK(c) /\ qboFrame[c] \in QboFrame
  BY DEF QboInv, QboTypes
<1>2. /\ qboPc[c] = "deactivate" /\ issued' = issued /\ revoked' = revoked
      /\ qboFrame' = [qboFrame EXCEPT ![c] = qboFrame[c]] /\ qboFrame' = qboFrame
      /\ wanted' = wanted /\ qboDisturbed' = qboDisturbed
      /\ qboPc' = [qboPc EXCEPT ![c] = "upsert"]
      /\ row' = [r \in Realms |-> IF r \in {s \in Realms \ {k} : row[s].active}
                                  THEN [row[r] EXCEPT !.active = FALSE] ELSE row[r]]
  BY <1>1 DEF Q!Deactivate, Q!Goto, QboTypes
<1>3. \A r \in Realms : /\ row'[r] \in QboRow
                        /\ row'[r].active <=> row[r].active /\ r = k
                        /\ row'[r].token = row[r].token
  BY <1>1, <1>2 DEF QboTypes, QboRow
<1>4. row' \in [Realms -> QboRow]
  BY <1>2, <1>3
<1>5. qboPc'[c] = "upsert" /\ \A d \in Calls \ {c} : qboPc'[d] = qboPc[d]
  BY <1>1, <1>2 DEF QboTypes
<1>6. AtWorkOK(c)'
  BY <1>1, <1>2, <1>3, <1>5 DEF AtWorkOK
<1>7. "upsert" \in QboLabels
  BY DEF QboLabels
<1>8. QED
  BY <1>1, <1>2, <1>4, <1>6, <1>7, QboGoesOn DEF QboTypes

\* A request ends.
LEMMA QboEnds ==
    ASSUME QboInv, NEW c \in Calls, qboPc[c] # "idle", Q!Return(c),
           row' \in [Realms -> QboRow], issued' = issued,
           wanted' \in Realms \cup {"none"}, qboDisturbed' \in BOOLEAN,
           ~qboDisturbed' => ~qboDisturbed \/ qboFrame[c].alone,
           ~qboDisturbed' => GoodFor({wanted})'
    PROVE  QboInv'
<1>1. /\ qboPc' = [qboPc EXCEPT ![c] = "idle"]
      /\ qboFrame' = [qboFrame EXCEPT ![c] = Q!NoFrame]
  BY DEF Q!Return, Q!Goto
<1>2. qboPc'[c] = "idle" /\ "idle" \in QboLabels /\ issued' \in [Realms -> Nat]
  BY <1>1 DEF QboInv, QboTypes, QboLabels
<1>3. AtWorkOK(c)'
  BY <1>2 DEF AtWorkOK
<1>4. QED
  BY <1>1, <1>2, <1>3, NoQboRow, QboGoesOn

LEMMA UpsertQbo ==
    ASSUME QboInv, NEW c \in Calls, Q!Upsert(c)
    PROVE  QboInv'
<1> DEFINE k == qboFrame[c].realm
           new == [stored |-> TRUE, active |-> TRUE, token |-> qboFrame[c].token, error |-> FALSE]
<1>1. QboTypes /\ AtWorkOK(c) /\ qboFrame[c] \in QboFrame
  BY DEF QboInv, QboTypes
<1>2. /\ qboPc[c] = "upsert" /\ issued' = issued /\ revoked' = revoked /\ Q!Return(c)
      /\ row' = [row EXCEPT ![k] = new]
      /\ wanted' = IF qboFrame[c].op = "connect" THEN k ELSE wanted
      /\ qboDisturbed' = (qboDisturbed /\ ~(qboFrame[c].op = "connect" /\ qboFrame[c].alone))
  BY DEF Q!Upsert
<1>3. k \in Realms
  BY <1>1, <1>2 DEF AtWorkOK
<1>4. new \in QboRow /\ new.active /\ new.token = qboFrame[c].token
  BY <1>1 DEF QboRow, QboFrame
<1> HIDE DEF new
<1>5. /\ row'[k] = new /\ \A r \in Realms : r # k => row'[r] = row[r]
      /\ row' \in [Realms -> QboRow]
  BY <1>1, <1>2, <1>3, <1>4 DEF QboTypes
<1>6. wanted' \in Realms \cup {"none"} /\ qboDisturbed' \in BOOLEAN
  BY <1>1, <1>2, <1>3 DEF QboTypes
<1>7. ASSUME ~qboDisturbed'
      PROVE  /\ wanted' = k /\ qboFrame[c].token = issued[k] /\ k \notin revoked
             /\ \A r \in Realms : row[r].active => r = k
             /\ ~qboDisturbed \/ qboFrame[c].alone
  <2>1. CASE qboFrame[c].op = "connect"
    <3>1. qboFrame[c].alone
      BY <1>1, <1>2, <1>7, <2>1 DEF AtWorkOK
    <3>2. QED
      BY <1>1, <1>2, <2>1, <3>1 DEF AtWorkOK
  <2>2. CASE qboFrame[c].op = "refresh"
    <3>1. ~qboDisturbed
      BY <1>2, <1>7, <2>2
    <3>2. QED
      BY <1>1, <1>2, <2>2, <3>1 DEF AtWorkOK
  <2>3. QED
    BY <1>1, <1>2, <2>1, <2>2 DEF AtWorkOK
<1>8. ~qboDisturbed' => GoodFor({wanted})'
  BY <1>2, <1>4, <1>5, <1>7 DEF GoodFor
<1>9. QED
  BY <1>2, <1>5, <1>6, <1>7, <1>8, QboEnds

LEMMA RecordQbo ==
    ASSUME QboInv, NEW c \in Calls, Q!RecordRefreshError(c)
    PROVE  QboInv'
<1> DEFINE k == qboFrame[c].realm
<1>1. QboTypes /\ AtWorkOK(c) /\ qboFrame[c] \in QboFrame
  BY DEF QboInv, QboTypes
<1>2. /\ qboPc[c] = "record" /\ issued' = issued /\ revoked' = revoked /\ Q!Return(c)
      /\ row' = [row EXCEPT ![k].error = TRUE]
      /\ wanted' = wanted /\ qboDisturbed' = qboDisturbed
  BY DEF Q!RecordRefreshError
<1>3. k \in Realms /\ qboFrame[c].op = "refresh"
  BY <1>1, <1>2 DEF AtWorkOK
<1>4. \A r \in Realms : /\ row'[r] \in QboRow /\ row'[r].active = row[r].active
                        /\ row'[r].token = row[r].token
  BY <1>1, <1>2, <1>3 DEF QboTypes, QboRow
<1>5. row' \in [Realms -> QboRow]
  BY <1>1, <1>2, <1>3, <1>4 DEF QboTypes
<1>6. ASSUME ~qboDisturbed'
      PROVE  GoodFor({wanted})'
  <2>1. /\ wanted = k /\ k \notin revoked /\ row[k].token = issued[k]
        /\ \A r \in Realms : row[r].active <=> r = k
    BY <1>1, <1>2, <1>3, <1>6 DEF AtWorkOK
  <2>2. QED
    BY <1>2, <1>4, <2>1 DEF GoodFor
<1>7. QED
  BY <1>1, <1>2, <1>5, <1>6, QboEnds DEF QboTypes

LEMMA RevokeQbo ==
    ASSUME QboInv, NEW c \in Calls, NEW ok \in BOOLEAN, Q!Revoke(c, ok)
    PROVE  QboInv'
<1>1. QboTypes /\ AtWorkOK(c) /\ qboFrame[c] \in QboFrame
  BY DEF QboInv, QboTypes
<1>2. /\ qboPc[c] = "revoke" /\ row' = row /\ issued' = issued /\ wanted' = wanted
      /\ qboDisturbed' = qboDisturbed /\ qboFrame' = qboFrame
      /\ qboPc' = [qboPc EXCEPT ![c] = "off"]
  BY DEF Q!Revoke, Q!Goto
<1>3. qboFrame' = [qboFrame EXCEPT ![c] = qboFrame[c]]
  BY <1>1, <1>2 DEF QboTypes
<1>4. qboPc'[c] = "off" /\ \A d \in Calls \ {c} : qboPc'[d] = qboPc[d]
  BY <1>1, <1>2 DEF QboTypes
<1>5. AtWorkOK(c)'
  BY <1>1, <1>2, <1>4 DEF AtWorkOK
<1>6. "off" \in QboLabels
  BY DEF QboLabels
<1>7. QED
  BY <1>1, <1>2, <1>3, <1>5, <1>6, QboGoesOn DEF QboTypes

LEMMA OffQbo ==
    ASSUME QboInv, NEW c \in Calls, Q!DeactivateConnection(c)
    PROVE  QboInv'
<1> DEFINE k == qboFrame[c].realm
<1>1. QboTypes /\ AtWorkOK(c) /\ qboFrame[c] \in QboFrame
  BY DEF QboInv, QboTypes
<1>2. /\ qboPc[c] = "off" /\ issued' = issued /\ revoked' = revoked /\ Q!Return(c)
      /\ row' = [row EXCEPT ![k].active = FALSE]
      /\ wanted' = "none" /\ qboDisturbed' = qboDisturbed
  BY DEF Q!DeactivateConnection
<1>3. k \in Realms /\ qboFrame[c].op = "disconnect"
  BY <1>1, <1>2 DEF AtWorkOK
<1>4. \A r \in Realms : /\ row'[r] \in QboRow
                        /\ row'[r].active <=> row[r].active /\ r # k
  BY <1>1, <1>2, <1>3 DEF QboTypes, QboRow
<1>5. row' \in [Realms -> QboRow]
  BY <1>1, <1>2, <1>3, <1>4 DEF QboTypes
<1>6. ASSUME ~qboDisturbed'
      PROVE  GoodFor({wanted})'
  <2>1. \A r \in Realms : row[r].active <=> r = k
    BY <1>1, <1>2, <1>3, <1>6 DEF AtWorkOK
  <2>2. QED
    BY <1>2, <1>4, <2>1, NoneIsNoRealm DEF GoodFor
<1>7. QED
  BY <1>1, <1>2, <1>5, <1>6, QboEnds DEF QboTypes

LEMMA AbandonQbo ==
    ASSUME QboInv, NEW c \in Calls, Q!Abandon(c)
    PROVE  QboInv'
<1>1. /\ qboPc[c] # "idle" /\ Q!Return(c) /\ qboDisturbed' = TRUE
      /\ row' = row /\ issued' = issued /\ wanted' = wanted
  BY DEF Q!Abandon
<1>2. row' \in [Realms -> QboRow] /\ wanted' \in Realms \cup {"none"}
  BY <1>1 DEF QboInv, QboTypes
<1>3. QED
  BY <1>1, <1>2, QboEnds

LEMMA QboRests ==
    ASSUME QboInv,
           UNCHANGED <<row, issued, revoked, qboPc, qboFrame, wanted, qboDisturbed>>
    PROVE  QboInv'
  BY DEF QboInv, QboTypes, AtWorkOK, GoodFor

LEMMA QboKeeps == QboInv /\ Q!Next => QboInv'
<1> SUFFICES ASSUME QboInv, Q!Next PROVE QboInv'
  OBVIOUS
<1>1. PICK c \in Calls :
        \/ \E r \in Realms, ok \in BOOLEAN : Q!Connect(c, r, ok)
        \/ Q!NeedRefresh(c) \/ Q!Disconnect(c)
        \/ \E outcome \in {"done", "refused", "lost"} : Q!Refresh(c, outcome)
        \/ Q!Deactivate(c) \/ Q!Upsert(c) \/ Q!RecordRefreshError(c)
        \/ \E ok \in BOOLEAN : Q!Revoke(c, ok)
        \/ Q!DeactivateConnection(c) \/ Q!Abandon(c)
  BY DEF Q!Next
<1>2. ASSUME NEW r \in Realms, NEW ok \in BOOLEAN, Q!Connect(c, r, ok) PROVE QboInv'
  <2>1. CASE ok
    <3>1. Q!Connect(c, r, TRUE)
      BY <1>2, <2>1
    <3>2. QED
      BY <3>1, ConnectQbo
  <2>2. CASE ~ok
    BY <1>2, <2>2, QboRests DEF Q!Connect
  <2>3. QED
    BY <2>1, <2>2
<1>3. QED
  BY <1>1, <1>2, WorkBegins, RefreshQbo, DeactivateQbo, UpsertQbo, RecordQbo, RevokeQbo,
     OffQbo, AbandonQbo

LEMMA QboIsGood == QboInv => Q!ConnectionIsGood
<1> SUFFICES ASSUME QboInv, Q!Busy = {}, ~qboDisturbed
             PROVE  /\ Q!Active = {wanted} \ {"none"}
                    /\ \A r \in Q!Active : row[r].token = issued[r] /\ r \notin revoked
  BY DEF Q!ConnectionIsGood
<1>1. \A c \in Calls : qboPc[c] = "idle"
  BY DEF Q!Busy
<1>2. GoodFor({wanted}) /\ wanted \in Realms \cup {"none"}
  BY <1>1 DEF QboInv, QboTypes
<1>3. QED
  BY <1>2, NoneIsNoRealm DEF GoodFor, Q!Active

(***************************************************************************)
(* The connection the books rest on is good: with nobody at work, and      *)
(* nothing having disturbed the last connection, the company connected     *)
(* last is the only active one, and its row has the newest refresh token,  *)
(* not revoked (connection-service.ts).                                    *)
(***************************************************************************)
THEOREM TheConnectionIsGood == Spec => []ConnectionIsGood
<1>1. Init => QboInv
  BY InitQbo DEF Init
<1>2. QboInv /\ [Next]_vars => QboInv'
  <2> SUFFICES ASSUME QboInv, [Next]_vars PROVE QboInv'
    OBVIOUS
  <2>1. Q!Next \/ UNCHANGED qboVars
    BY OneMoves DEF Quickbooks, vars
  <2>2. CASE UNCHANGED qboVars
    BY <2>2, QboRests DEF qboVars
  <2>3. QED
    BY <2>1, <2>2, QboKeeps
<1>3. QboInv => ConnectionIsGood
  BY QboIsGood DEF ConnectionIsGood
<1>4. QED
  BY <1>1, <1>2, <1>3, PTL DEF Spec


-----------------------------------------------------------------------------
(***************************************************************************)
(* OrgMetadata.  A request that is alone has the organization as it is and *)
(* pushes the enabled apps as they are; while nothing disturbed the copy,  *)
(* whoever is at work is alone.                                            *)
(***************************************************************************)
OrgRow == [status : Statuses \cup {"none"}, linked : BOOLEAN]
MetaFrame == [org : OrgRow, todo : SUBSET Apps, on : BOOLEAN, apps : SUBSET Apps,
              paid : BOOLEAN, training : BOOLEAN, alone : BOOLEAN]
Changing == {"grant", "list", "push", "upsert", "skip"}
MetaLabels == Changing \cup {"idle", "clerk", "row"}

MetaTypes ==
    /\ org \in OrgRow /\ enabled \in SUBSET Apps
    /\ metaPc \in [Calls -> MetaLabels] /\ metaFrame \in [Calls -> MetaFrame]
    /\ bought \in BOOLEAN /\ metaDisturbed \in BOOLEAN

Truth ==
    /\ meta.status = org.status
    /\ meta.apps = enabled
    /\ enabled # {} => meta.id = "real"

RequestOK(c) ==
    LET f == metaFrame[c] IN
    /\ metaPc[c] \in {"clerk", "row"} => org = M!NoOrg /\ \A d \in Calls \ {c} : metaPc[d] = "idle"
    /\ metaPc[c] = "row" =>
          /\ f.org.status = "onboarding"
          /\ f.org.linked => meta.status = "onboarding" /\ meta.apps = {}
    /\ metaPc[c] \in Changing =>
          /\ org # M!NoOrg /\ (f.org.linked <=> org.linked)
          /\ f.alone /\ org.linked => f.org = org
    /\ metaPc[c] = "skip" => ~org.linked
    /\ metaPc[c] = "push" /\ f.alone => f.apps = enabled
    /\ metaPc[c] # "idle" /\ f.alone => \A d \in Calls \ {c} : metaPc[d] = "idle"
    /\ metaPc[c] # "idle" /\ ~metaDisturbed => f.alone

MetaInv ==
    /\ MetaTypes
    /\ org = M!NoOrg => enabled = {} /\ \A c \in Calls : metaPc[c] \in {"idle", "clerk", "row"}
    /\ \A c \in Calls : RequestOK(c)
    /\ (\A c \in Calls : metaPc[c] = "idle") /\ org.linked /\ ~metaDisturbed => Truth

LEMMA NoOrgRow ==
    /\ M!NoOrg \in OrgRow /\ M!NoOrg.status = "none" /\ M!NoOrg.linked = FALSE
    /\ M!NoFrame \in MetaFrame /\ M!NoFrame.alone = FALSE /\ "onboarding" \in Statuses
    /\ "none" \notin Statuses /\ Training \subseteq BOOLEAN
  BY ServicesAssumption DEF M!NoOrg, OrgRow, M!NoFrame, MetaFrame, M!MetadataAssumption

LEMMA InitMeta == M!Init => MetaInv
<1> SUFFICES ASSUME M!Init PROVE MetaInv
  OBVIOUS
<1>1. MetaTypes
  BY NoOrgRow DEF M!Init, MetaTypes, MetaLabels
<1>2. \A c \in Calls : metaPc[c] = "idle"
  BY DEF M!Init
<1>3. \A c \in Calls : RequestOK(c)
  BY <1>2 DEF RequestOK, Changing
<1>4. ~org.linked /\ enabled = {}
  BY NoOrgRow DEF M!Init
<1>5. QED
  BY <1>1, <1>2, <1>3, <1>4 DEF MetaInv

\* A request goes on or ends.
LEMMA RequestGoesOn ==
    ASSUME MetaInv, NEW c \in Calls, NEW l \in MetaLabels, NEW f \in MetaFrame,
           metaPc[c] # "idle",
           metaPc' = [metaPc EXCEPT ![c] = l], metaFrame' = [metaFrame EXCEPT ![c] = f],
           org' = org \/ (metaPc[c] = "row" /\ org' \in OrgRow /\ org' # M!NoOrg),
           enabled' \in SUBSET Apps, bought' \in BOOLEAN, metaDisturbed' \in BOOLEAN,
           ~metaDisturbed' => ~metaDisturbed \/ metaFrame[c].alone,
           RequestOK(c)',
           org' = M!NoOrg => enabled' = {} /\ l \in {"idle", "clerk", "row"},
           l = "idle" /\ org'.linked /\ ~metaDisturbed' => Truth'
    PROVE  MetaInv'
<1>1. MetaTypes /\ RequestOK(c)
  BY DEF MetaInv
<1>2. /\ metaPc'[c] = l /\ metaFrame'[c] = f
      /\ \A d \in Calls : d # c => metaPc'[d] = metaPc[d] /\ metaFrame'[d] = metaFrame[d]
  BY <1>1 DEF MetaTypes
<1>3. MetaTypes'
  <2>1. org' \in OrgRow
    BY <1>1 DEF MetaTypes
  <2>2. QED
    BY <1>1, <2>1 DEF MetaTypes
<1>4. ASSUME NEW d \in Calls, d # c, metaPc[d] # "idle"
      PROVE  /\ metaPc[d] \in Changing /\ ~metaFrame[d].alone /\ org' = org /\ org # M!NoOrg
             /\ ~metaFrame[c].alone /\ metaDisturbed'
  <2>1. RequestOK(d) /\ metaPc[d] \in MetaLabels
    BY <1>1 DEF MetaInv, MetaTypes
  <2>2. metaPc[d] \notin {"clerk", "row"} /\ metaPc[c] \notin {"clerk", "row"}
    BY <1>1, <1>4, <2>1 DEF RequestOK
  <2>3. ~metaFrame[c].alone /\ ~metaFrame[d].alone
    BY <1>1, <1>4, <2>1 DEF RequestOK
  <2>4. metaDisturbed
    BY <1>1, <2>3 DEF RequestOK
  <2>5. metaPc[d] \in Changing
    BY <1>4, <2>1, <2>2 DEF MetaLabels
  <2>6. QED
    BY <2>1, <2>2, <2>3, <2>4, <2>5 DEF RequestOK
<1>5. M!NoOrg' = M!NoOrg
  BY DEF M!NoOrg
<1>6. ASSUME NEW d \in Calls PROVE RequestOK(d)'
  <2>1. CASE d = c
    BY <2>1
  <2>2. CASE d # c /\ metaPc[d] = "idle"
    BY <1>2, <2>2 DEF RequestOK, Changing
  <2>3. CASE d # c /\ metaPc[d] # "idle"
    <3>1. RequestOK(d)
      BY DEF MetaInv
    <3>2. metaPc[d] \notin {"clerk", "row", "idle"}
      BY <1>4, <2>3 DEF Changing
    <3>3. QED
      BY <1>2, <1>4, <1>5, <2>3, <3>1, <3>2 DEF RequestOK
  <2>4. QED
    BY <2>1, <2>2, <2>3
<1>7. ASSUME org' = M!NoOrg, NEW d \in Calls PROVE metaPc'[d] \in {"idle", "clerk", "row"}
  <2>1. CASE d = c
    BY <1>2, <1>7, <2>1
  <2>2. CASE d # c
    BY <1>2, <1>4, <1>7, <2>2
  <2>3. QED
    BY <2>1, <2>2
<1>8. (\A d \in Calls : metaPc'[d] = "idle") /\ org'.linked /\ ~metaDisturbed' => Truth'
  BY <1>2
<1>9. QED
  BY <1>3, <1>5, <1>6, <1>7, <1>8 DEF MetaInv

\* A request begins with the organization as it leaves it.
LEMMA RequestBegins ==
    ASSUME MetaInv, NEW c \in Calls, NEW l \in {"list", "upsert", "grant"}, NEW f \in MetaFrame,
           M!Begin(c, l, f), org # M!NoOrg, org' \in OrgRow, org' # M!NoOrg,
           org'.linked <=> org.linked, org' = org \/ org.linked,
           f.org = org', UNCHANGED <<enabled, meta, bought>>
    PROVE  MetaInv'
<1> DEFINE g == [f EXCEPT !.alone = (M!Active = {})]
<1>1. MetaTypes
  BY DEF MetaInv
<1>2. /\ metaPc[c] = "idle" /\ metaPc' = [metaPc EXCEPT ![c] = l]
      /\ metaFrame' = [x \in Calls |-> IF x = c THEN g ELSE [metaFrame[x] EXCEPT !.alone = FALSE]]
      /\ metaDisturbed' = (metaDisturbed \/ M!Active # {})
  BY DEF M!Begin, M!Goto
<1>3. g \in MetaFrame /\ g.org = org' /\ (g.alone <=> M!Active = {})
  BY DEF MetaFrame
<1> HIDE DEF g
<1>4. /\ metaPc'[c] = l /\ metaFrame'[c] = g
      /\ \A d \in Calls : d # c =>
            /\ metaPc'[d] = metaPc[d] /\ metaFrame'[d].alone = FALSE
            /\ metaFrame'[d].org = metaFrame[d].org /\ metaFrame'[d] \in MetaFrame
  BY <1>1, <1>2 DEF MetaTypes, MetaFrame
<1>5. l \in Changing /\ l \in MetaLabels /\ l \notin {"idle", "clerk", "row", "push", "skip"}
  BY DEF Changing, MetaLabels
<1>6. metaFrame' \in [Calls -> MetaFrame]
  BY <1>2, <1>3, <1>4
<1>7. MetaTypes'
  BY <1>1, <1>2, <1>5, <1>6 DEF MetaTypes
<1>8. M!NoOrg' = M!NoOrg
  BY DEF M!NoOrg
<1>9. ASSUME NEW d \in Calls PROVE RequestOK(d)'
  <2>1. CASE d = c
    <3>1. g.alone => \A x \in Calls \ {c} : metaPc[x] = "idle"
      BY <1>3 DEF M!Active
    <3>2. ~metaDisturbed' => g.alone
      BY <1>2, <1>3
    <3>3. QED
      BY <1>3, <1>4, <1>5, <1>8, <2>1, <3>1, <3>2 DEF RequestOK
  <2>2. CASE d # c /\ metaPc[d] = "idle"
    BY <1>4, <2>2 DEF RequestOK, Changing
  <2>3. CASE d # c /\ metaPc[d] # "idle"
    <3>1. RequestOK(d) /\ metaPc[d] \in MetaLabels
      BY <1>1 DEF MetaInv, MetaTypes
    <3>2. metaDisturbed'
      BY <1>2, <2>3 DEF M!Active
    <3>3. metaPc[d] \in Changing
      BY <2>3, <3>1 DEF RequestOK, MetaLabels
    <3>4. metaPc[d] \notin {"clerk", "row"}
      BY <3>3 DEF Changing
    <3>5. QED
      BY <1>4, <1>8, <2>3, <3>1, <3>2, <3>3, <3>4 DEF RequestOK
  <2>4. QED
    BY <2>1, <2>2, <2>3
<1>10. metaPc'[c] # "idle"
  BY <1>4, <1>5
<1>4a. QED
  BY <1>7, <1>8, <1>9, <1>10 DEF MetaInv

LEMMA CreateMeta ==
    ASSUME MetaInv, NEW c \in Calls, NEW initial \in SUBSET Apps, M!Create(c, initial)
    PROVE  MetaInv'
<1> DEFINE g == [M!NoFrame EXCEPT !.todo = initial, !.alone = (M!Active = {})]
<1>1. MetaTypes
  BY DEF MetaInv
<1>2. org = M!NoOrg /\ \A d \in Calls : metaPc[d] = "idle"
  BY DEF MetaInv, M!Create
<1>3. M!Active = {}
  BY <1>2 DEF M!Active
<1>4. /\ org' = org /\ enabled' = enabled /\ bought' = bought
      /\ metaPc' = [metaPc EXCEPT ![c] = "clerk"]
      /\ metaFrame' = [x \in Calls |-> IF x = c THEN [[M!NoFrame EXCEPT !.todo = initial]
                                                         EXCEPT !.alone = (M!Active = {})]
                                      ELSE [metaFrame[x] EXCEPT !.alone = FALSE]]
      /\ metaDisturbed' = (metaDisturbed \/ M!Active # {})
  BY DEF M!Create, M!Begin, M!Goto
<1>5. [[M!NoFrame EXCEPT !.todo = initial] EXCEPT !.alone = (M!Active = {})] = g
  BY DEF M!NoFrame
<1>6. g \in MetaFrame /\ g.alone
  BY <1>3 DEF MetaFrame, M!NoFrame, OrgRow, M!NoOrg
<1> HIDE DEF g
<1>7. /\ metaPc'[c] = "clerk" /\ metaFrame'[c] = g
      /\ \A d \in Calls : d # c => metaPc'[d] = "idle" /\ metaFrame'[d] \in MetaFrame
  BY <1>1, <1>2, <1>4, <1>5 DEF MetaTypes, MetaFrame
<1>8. MetaTypes'
  <2>1. metaFrame' \in [Calls -> MetaFrame]
    BY <1>4, <1>6, <1>7
  <2>2. "clerk" \in MetaLabels
    BY DEF MetaLabels
  <2>3. QED
    BY <1>1, <1>4, <2>1, <2>2 DEF MetaTypes
<1>9. M!NoOrg' = M!NoOrg /\ "clerk" \notin Changing /\ "idle" \notin Changing
  BY DEF M!NoOrg, Changing
<1>10. ASSUME NEW d \in Calls PROVE RequestOK(d)'
  BY <1>2, <1>4, <1>6, <1>7, <1>9 DEF RequestOK, Changing
<1>4a. QED
  BY <1>2, <1>4, <1>7, <1>8, <1>9, <1>10 DEF MetaInv

\* A request ends.
LEMMA RequestEnds ==
    ASSUME MetaInv, NEW c \in Calls, metaPc[c] # "idle", M!Return(c),
           org' = org \/ (metaPc[c] = "row" /\ org' \in OrgRow /\ org' # M!NoOrg),
           enabled' \in SUBSET Apps, bought' \in BOOLEAN, metaDisturbed' \in BOOLEAN,
           ~metaDisturbed' => ~metaDisturbed \/ metaFrame[c].alone,
           org' = M!NoOrg => enabled' = {},
           org'.linked /\ ~metaDisturbed' => Truth'
    PROVE  MetaInv'
<1>1. /\ metaPc' = [metaPc EXCEPT ![c] = "idle"]
      /\ metaFrame' = [metaFrame EXCEPT ![c] = M!NoFrame]
  BY DEF M!Return, M!Goto
<1>2. metaPc'[c] = "idle" /\ "idle" \in MetaLabels
  BY <1>1 DEF MetaInv, MetaTypes, MetaLabels
<1>3. RequestOK(c)'
  BY <1>2 DEF RequestOK, Changing
<1>4. QED
  BY <1>1, <1>2, <1>3, NoOrgRow, RequestGoesOn

LEMMA ClerkMeta ==
    ASSUME MetaInv, NEW c \in Calls, NEW ok \in BOOLEAN, M!CreateInClerk(c, ok)
    PROVE  MetaInv'
<1> DEFINE o == [status |-> "onboarding", linked |-> ok]
           f == [metaFrame[c] EXCEPT !.org = o]
<1>1. MetaTypes /\ RequestOK(c) /\ metaFrame[c] \in MetaFrame
  BY DEF MetaInv, MetaTypes
<1>2. /\ metaPc[c] = "clerk" /\ metaPc' = [metaPc EXCEPT ![c] = "row"]
      /\ metaFrame' = [metaFrame EXCEPT ![c].org = o]
      /\ org' = org /\ enabled' = enabled /\ bought' = bought /\ metaDisturbed' = metaDisturbed
      /\ ok => meta' = [id |-> "pending", status |-> "onboarding", apps |-> {},
                        training |-> FALSE]
  BY DEF M!CreateInClerk, M!Goto
<1>3. metaFrame' = [metaFrame EXCEPT ![c] = f]
  BY <1>1, <1>2 DEF MetaTypes
<1>4. f \in MetaFrame /\ f.org.status = "onboarding" /\ (f.org.linked <=> ok)
      /\ f.alone = metaFrame[c].alone
  BY <1>1, NoOrgRow DEF MetaFrame, OrgRow
<1> HIDE DEF f
<1>5. /\ metaPc'[c] = "row" /\ metaFrame'[c] = f
      /\ \A d \in Calls \ {c} : metaPc'[d] = metaPc[d]
  BY <1>1, <1>2, <1>3 DEF MetaTypes
<1>6. org = M!NoOrg /\ (\A d \in Calls \ {c} : metaPc[d] = "idle")
      /\ (~metaDisturbed => metaFrame[c].alone) /\ enabled = {}
  BY <1>1, <1>2 DEF RequestOK, MetaInv
<1>7. "row" \in MetaLabels /\ "row" \notin Changing /\ M!NoOrg' = M!NoOrg
  BY DEF MetaLabels, Changing, M!NoOrg
<1>8. RequestOK(c)'
  BY <1>2, <1>4, <1>5, <1>6, <1>7 DEF RequestOK
<1>9. QED
  BY <1>1, <1>2, <1>3, <1>4, <1>6, <1>7, <1>8, RequestGoesOn DEF MetaTypes

LEMMA StoreMeta ==
    ASSUME MetaInv, NEW c \in Calls, M!StoreOrg(c)
    PROVE  MetaInv'
<1>1. MetaTypes /\ RequestOK(c) /\ metaFrame[c] \in MetaFrame /\ metaFrame[c].org \in OrgRow
  BY DEF MetaInv, MetaTypes, MetaFrame
<1>2. /\ metaPc[c] = "row" /\ org' = metaFrame[c].org /\ enabled' = enabled /\ bought' = bought
      /\ metaDisturbed' = metaDisturbed /\ meta' = meta
  BY DEF M!StoreOrg
<1>3. /\ org = M!NoOrg /\ enabled = {} /\ metaFrame[c].org.status = "onboarding"
      /\ metaFrame[c].org.linked => meta.status = "onboarding" /\ meta.apps = {}
      /\ \A d \in Calls \ {c} : metaPc[d] = "idle"
      /\ ~metaDisturbed => metaFrame[c].alone
  BY <1>1, <1>2 DEF RequestOK, MetaInv
<1>4. org' \in OrgRow /\ org' # M!NoOrg
  BY <1>1, <1>2, <1>3, NoOrgRow
<1>5. CASE metaFrame[c].todo = {}
  <2>1. M!Return(c)
    BY <1>5 DEF M!StoreOrg
  <2>2. org'.linked => Truth'
    BY <1>2, <1>3 DEF Truth
  <2>3. QED
    BY <1>1, <1>2, <1>4, <2>1, <2>2, RequestEnds DEF MetaTypes
<1>6. CASE metaFrame[c].todo # {}
  <2>1. metaPc' = [metaPc EXCEPT ![c] = "grant"] /\ metaFrame' = [metaFrame EXCEPT ![c] = metaFrame[c]]
    BY <1>1, <1>6 DEF M!StoreOrg, M!Goto, MetaTypes
  <2>2. /\ metaPc'[c] = "grant" /\ metaFrame'[c] = metaFrame[c]
        /\ \A d \in Calls \ {c} : metaPc'[d] = metaPc[d]
    BY <1>1, <2>1 DEF MetaTypes
  <2>3. "grant" \in MetaLabels /\ "grant" \in Changing /\ M!NoOrg' = M!NoOrg
    BY DEF MetaLabels, Changing, M!NoOrg
  <2>4. RequestOK(c)'
    BY <1>2, <1>3, <1>4, <2>2, <2>3 DEF RequestOK
  <2>5. QED
    BY <1>1, <1>2, <1>4, <2>1, <2>3, <2>4, RequestGoesOn DEF MetaTypes
<1>7. QED
  BY <1>5, <1>6

\* A request that has begun goes on with the organization it has.
LEMMA ChangeGoesOn ==
    ASSUME MetaInv, NEW c \in Calls, metaPc[c] \in Changing,
           NEW l \in {"grant", "list", "push", "upsert", "skip"}, NEW f \in MetaFrame,
           metaPc' = [metaPc EXCEPT ![c] = l], metaFrame' = [metaFrame EXCEPT ![c] = f],
           org' = org, enabled' \in SUBSET Apps, bought' \in BOOLEAN, metaDisturbed' \in BOOLEAN,
           ~metaDisturbed' => ~metaDisturbed \/ metaFrame[c].alone,
           f.alone = metaFrame[c].alone,
           f.org = metaFrame[c].org \/ f.org = org,
           l = "skip" => ~org.linked,
           l = "push" /\ f.alone => f.apps = enabled'
    PROVE  MetaInv'
<1>1. MetaTypes /\ RequestOK(c)
  BY DEF MetaInv
<1>2. l \in Changing /\ l \in MetaLabels /\ l \notin {"clerk", "row", "idle"}
  BY DEF Changing, MetaLabels
<1>3. /\ metaPc'[c] = l /\ metaFrame'[c] = f
      /\ \A d \in Calls \ {c} : metaPc'[d] = metaPc[d]
  BY <1>1 DEF MetaTypes
<1>4. metaPc[c] # "idle" /\ org # M!NoOrg
  BY <1>1 DEF RequestOK, Changing
<1>5. /\ f.org.linked <=> org.linked
      /\ f.alone /\ org.linked => f.org = org
  BY <1>1 DEF RequestOK
<1>6. ~metaDisturbed' => f.alone
  BY <1>1, <1>4 DEF RequestOK
<1>7. f.alone => \A d \in Calls \ {c} : metaPc[d] = "idle"
  BY <1>1, <1>4 DEF RequestOK
<1>8. M!NoOrg' = M!NoOrg
  BY DEF M!NoOrg
<1>9. RequestOK(c)'
  BY <1>2, <1>3, <1>4, <1>5, <1>6, <1>7, <1>8 DEF RequestOK
<1>10. QED
  BY <1>2, <1>4, <1>9, RequestGoesOn

LEMMA GrantMeta ==
    ASSUME MetaInv, NEW c \in Calls, NEW a \in Apps, M!Grant(c, a)
    PROVE  MetaInv'
<1>1. MetaTypes /\ RequestOK(c) /\ metaFrame[c] \in MetaFrame
  BY DEF MetaInv, MetaTypes
<1>2. /\ metaPc[c] = "grant" /\ org' = org /\ metaDisturbed' = metaDisturbed
      /\ enabled' = enabled \cup {a}
  BY DEF M!Grant
<1>3. metaPc[c] \in Changing /\ metaPc[c] # "idle" /\ enabled' \in SUBSET Apps
  BY <1>1, <1>2 DEF Changing, MetaTypes
<1>4. org # M!NoOrg /\ (metaFrame[c].org.linked <=> org.linked)
  BY <1>1, <1>3 DEF RequestOK
<1>5. CASE metaFrame[c].todo = {a} /\ ~metaFrame[c].org.linked
  <2>1. M!Return(c) /\ bought' = (bought \/ metaFrame[c].training)
    BY <1>5 DEF M!Grant, M!Link
  <2>2. bought' \in BOOLEAN
    BY <2>1
  <2>3. QED
    BY <1>1, <1>2, <1>3, <1>4, <1>5, <2>1, <2>2, RequestEnds DEF MetaTypes
<1>6. CASE ~(metaFrame[c].todo = {a} /\ ~metaFrame[c].org.linked)
  <2> DEFINE f == [metaFrame[c] EXCEPT !.todo = @ \ {a}]
             l == IF metaFrame[c].todo = {a} THEN "list" ELSE "grant"
  <2>1. /\ metaFrame' = [metaFrame EXCEPT ![c].todo = @ \ {a}]
        /\ metaPc' = [metaPc EXCEPT ![c] = l] /\ bought' = bought
    BY <1>6 DEF M!Grant, M!Goto
  <2>2. metaFrame' = [metaFrame EXCEPT ![c] = f]
    BY <1>1, <2>1 DEF MetaTypes
  <2>3. f \in MetaFrame /\ f.alone = metaFrame[c].alone /\ f.org = metaFrame[c].org
    BY <1>1 DEF MetaFrame
  <2> HIDE DEF f
  <2>4. l \in {"grant", "list"}
    OBVIOUS
  <2>5. bought' \in BOOLEAN /\ metaDisturbed' \in BOOLEAN
    BY <1>1, <1>2, <2>1 DEF MetaTypes
  <2> HIDE DEF l
  <2>6. QED
    BY <1>2, <1>3, <2>1, <2>2, <2>3, <2>4, <2>5, ChangeGoesOn
<1>7. QED
  BY <1>5, <1>6

LEMMA EntitleMeta ==
    ASSUME MetaInv, NEW c \in Calls, NEW a \in Apps, M!StoreEntitlement(c, a)
    PROVE  MetaInv'
<1> DEFINE f == [metaFrame[c] EXCEPT !.todo = @ \ {a}]
           l == IF metaFrame[c].org.linked THEN "list" ELSE "skip"
<1>1. MetaTypes /\ RequestOK(c) /\ metaFrame[c] \in MetaFrame
  BY DEF MetaInv, MetaTypes
<1>2. /\ metaPc[c] = "upsert" /\ org' = org /\ metaDisturbed' = metaDisturbed /\ bought' = bought
      /\ enabled' = IF metaFrame[c].on THEN enabled \cup {a} ELSE enabled \ {a}
      /\ metaFrame' = [metaFrame EXCEPT ![c].todo = @ \ {a}]
      /\ metaPc' = [metaPc EXCEPT ![c] = l]
  BY DEF M!StoreEntitlement, M!Goto
<1>3. metaPc[c] \in Changing /\ enabled' \in SUBSET Apps
  BY <1>1, <1>2 DEF Changing, MetaTypes
<1>4. metaFrame[c].org.linked <=> org.linked
  BY <1>1, <1>3 DEF RequestOK
<1>5. metaFrame' = [metaFrame EXCEPT ![c] = f]
  BY <1>1, <1>2 DEF MetaTypes
<1>6. f \in MetaFrame /\ f.alone = metaFrame[c].alone /\ f.org = metaFrame[c].org
  BY <1>1 DEF MetaFrame
<1> HIDE DEF f
<1>7. l \in {"list", "skip"} /\ (l = "skip" => ~org.linked)
  BY <1>4
<1>8. bought' \in BOOLEAN /\ metaDisturbed' \in BOOLEAN
  BY <1>1, <1>2 DEF MetaTypes
<1> HIDE DEF l
<1>9. QED
  BY <1>2, <1>3, <1>5, <1>6, <1>7, <1>8, ChangeGoesOn

\* The next app of a bulk change, or the end.
LEMMA FollowingMeta ==
    ASSUME MetaInv, NEW c \in Calls, metaPc[c] \in Changing, M!Following(c),
           org' = org, enabled' = enabled, bought' \in BOOLEAN, metaDisturbed' \in BOOLEAN,
           ~metaDisturbed' => ~metaDisturbed \/ metaFrame[c].alone,
           org.linked /\ ~metaDisturbed' => Truth'
    PROVE  MetaInv'
<1>1. MetaTypes /\ RequestOK(c) /\ metaFrame[c] \in MetaFrame
  BY DEF MetaInv, MetaTypes
<1>2. org # M!NoOrg /\ metaPc[c] # "idle"
  BY <1>1 DEF RequestOK, Changing
<1>3. CASE metaFrame[c].todo # {}
  <2> DEFINE f == [metaFrame[c] EXCEPT !.org = org]
  <2>1. metaFrame' = [metaFrame EXCEPT ![c].org = org] /\ metaPc' = [metaPc EXCEPT ![c] = "upsert"]
    BY <1>3 DEF M!Following, M!Goto
  <2>2. metaFrame' = [metaFrame EXCEPT ![c] = f]
    BY <1>1, <2>1 DEF MetaTypes
  <2>3. f \in MetaFrame /\ f.alone = metaFrame[c].alone /\ f.org = org
    BY <1>1 DEF MetaFrame, MetaTypes
  <2> HIDE DEF f
  <2>4. QED
    BY <1>1, <2>1, <2>2, <2>3, ChangeGoesOn DEF MetaTypes
<1>4. CASE metaFrame[c].todo = {}
  <2>1. M!Return(c)
    BY <1>4 DEF M!Following
  <2>2. QED
    BY <1>1, <1>2, <2>1, RequestEnds DEF MetaTypes
<1>5. QED
  BY <1>3, <1>4

LEMMA ListMeta ==
    ASSUME MetaInv, NEW c \in Calls, M!ListEnabled(c)
    PROVE  MetaInv'
<1> DEFINE t == metaFrame[c].training \/ (metaFrame[c].paid /\ bought)
           f == [metaFrame[c] EXCEPT !.apps = enabled, !.training = t]
<1>1. MetaTypes /\ RequestOK(c) /\ metaFrame[c] \in MetaFrame
  BY DEF MetaInv, MetaTypes
<1>2. /\ metaPc[c] = "list" /\ org' = org /\ metaDisturbed' = metaDisturbed /\ bought' = bought
      /\ enabled' = enabled /\ metaPc' = [metaPc EXCEPT ![c] = "push"]
      /\ metaFrame' = [metaFrame EXCEPT ![c].apps = enabled,
                                        ![c].training = @ \/ (metaFrame[c].paid /\ bought)]
  BY DEF M!ListEnabled, M!Goto
<1>3. metaPc[c] \in Changing
  BY <1>2 DEF Changing
<1>4. t \in BOOLEAN
  OBVIOUS
<1> HIDE DEF t
<1>5. f \in MetaFrame /\ f.alone = metaFrame[c].alone /\ f.org = metaFrame[c].org
      /\ f.apps = enabled
  BY <1>1, <1>4 DEF MetaFrame, MetaTypes
<1>6. metaFrame' = [metaFrame EXCEPT ![c] = f]
  BY <1>1, <1>2 DEF MetaTypes, t
<1> HIDE DEF f
<1>7. QED
  BY <1>1, <1>2, <1>3, <1>5, <1>6, ChangeGoesOn DEF MetaTypes

LEMMA PushMeta ==
    ASSUME MetaInv, NEW c \in Calls, NEW ok \in BOOLEAN, M!Push(c, ok)
    PROVE  MetaInv'
<1>1. MetaTypes /\ RequestOK(c) /\ metaFrame[c] \in MetaFrame
  BY DEF MetaInv, MetaTypes
<1>2. /\ metaPc[c] = "push" /\ org' = org /\ enabled' = enabled /\ M!Following(c)
      /\ bought' = (bought \/ metaFrame[c].training)
      /\ metaDisturbed' = IF ok THEN metaDisturbed /\ ~metaFrame[c].alone ELSE TRUE
      /\ ok => meta' = [id |-> "real", status |-> metaFrame[c].org.status,
                        apps |-> metaFrame[c].apps, training |-> metaFrame[c].training]
  BY DEF M!Push, M!Link
<1>3. metaPc[c] \in Changing /\ metaPc[c] # "idle"
  BY <1>2 DEF Changing
<1>4. bought' \in BOOLEAN /\ metaDisturbed' \in BOOLEAN
  BY <1>2
<1>5. ~metaDisturbed' => ok /\ metaFrame[c].alone
  BY <1>1, <1>2, <1>3 DEF RequestOK
<1>6. org.linked /\ ~metaDisturbed' => Truth'
  <2> SUFFICES ASSUME org.linked, ~metaDisturbed' PROVE Truth'
    OBVIOUS
  <2>1. metaFrame[c].org = org /\ metaFrame[c].apps = enabled
    BY <1>1, <1>2, <1>3, <1>5 DEF RequestOK
  <2>2. QED
    BY <1>2, <1>5, <2>1 DEF Truth
<1>7. QED
  BY <1>2, <1>3, <1>4, <1>5, <1>6, FollowingMeta

LEMMA SkipMeta ==
    ASSUME MetaInv, NEW c \in Calls, NEW a \in Apps, M!Skip(c, a)
    PROVE  MetaInv'
<1> DEFINE rest == IF metaPc[c] = "upsert" THEN metaFrame[c].todo \ {a} ELSE metaFrame[c].todo
           f == [metaFrame[c] EXCEPT !.todo = rest, !.org = org]
<1>1. MetaTypes /\ metaFrame[c] \in MetaFrame
  BY DEF MetaInv, MetaTypes
<1>2. /\ metaPc[c] \in {"upsert", "list"} /\ org' = org /\ enabled' = enabled /\ bought' = bought
      /\ metaDisturbed' = TRUE /\ metaPc' = [metaPc EXCEPT ![c] = "upsert"]
      /\ metaFrame' = [metaFrame EXCEPT ![c].todo = rest, ![c].org = org]
  BY DEF M!Skip, M!Goto
<1>3. metaFrame' = [metaFrame EXCEPT ![c] = f]
  BY <1>1, <1>2 DEF MetaTypes
<1>4. rest \in SUBSET Apps
  BY <1>1 DEF MetaFrame
<1>5. f \in MetaFrame /\ f.alone = metaFrame[c].alone /\ f.org = org
  BY <1>1, <1>4 DEF MetaFrame, MetaTypes
<1> HIDE DEF f
<1>6. metaPc[c] \in Changing
  BY <1>2 DEF Changing
<1>7. QED
  BY <1>1, <1>2, <1>3, <1>5, <1>6, ChangeGoesOn DEF MetaTypes

LEMMA AbandonMeta ==
    ASSUME MetaInv, NEW c \in Calls, M!Abandon(c)
    PROVE  MetaInv'
<1>1. MetaTypes
  BY DEF MetaInv
<1>2. /\ metaPc[c] # "idle" /\ org' = org /\ enabled' = enabled /\ bought' = bought
      /\ metaDisturbed' = TRUE /\ M!Return(c)
  BY DEF M!Abandon
<1>3. QED
  BY <1>1, <1>2, RequestEnds DEF MetaTypes, MetaInv

LEMMA StatusMeta ==
    ASSUME MetaInv, NEW c \in Calls, NEW s \in Statuses, M!WriteStatus(c, s)
    PROVE  MetaInv'
<1> DEFINE o == [org EXCEPT !.status = s]
<1>1. MetaTypes
  BY DEF MetaInv
<1>2. org # M!NoOrg /\ org' = o /\ enabled' = enabled /\ meta' = meta /\ bought' = bought
  BY DEF M!WriteStatus
<1>3. o \in OrgRow /\ o.linked = org.linked /\ o.status = s
  BY <1>1 DEF MetaTypes, OrgRow
<1> HIDE DEF o
<1>4. o # M!NoOrg
  BY <1>3, NoOrgRow
<1>5. CASE org.linked
  <2> DEFINE f == [M!NoFrame EXCEPT !.org = o]
  <2>1. M!Begin(c, "list", [M!NoFrame EXCEPT !.org = [org EXCEPT !.status = s]])
    BY <1>5 DEF M!WriteStatus
  <2>2. M!Begin(c, "list", f)
    BY <2>1 DEF o
  <2>3. f \in MetaFrame /\ f.org = o
    BY <1>3, NoOrgRow DEF MetaFrame, M!NoFrame
  <2> HIDE DEF f
  <2>4. QED
    BY <1>2, <1>3, <1>4, <1>5, <2>2, <2>3, RequestBegins
<1>6. CASE ~org.linked
  <2>1. metaPc' = metaPc /\ metaFrame' = metaFrame /\ metaDisturbed' = metaDisturbed
    BY <1>6 DEF M!WriteStatus
  <2>2. MetaTypes'
    BY <1>1, <1>2, <1>3, <2>1 DEF MetaTypes
  <2>3. M!NoOrg' = M!NoOrg
    BY DEF M!NoOrg
  <2>4. ASSUME NEW d \in Calls PROVE RequestOK(d)'
    <3>1. RequestOK(d)
      BY DEF MetaInv
    <3>2. QED
      BY <1>2, <1>3, <1>4, <1>6, <2>1, <2>3, <3>1 DEF RequestOK
  <2>5. QED
    BY <1>2, <1>3, <1>4, <1>6, <2>2, <2>3, <2>4 DEF MetaInv
<1>7. QED
  BY <1>5, <1>6

\* Entitlements begin to change: by hand or with a package.
LEMMA ChangeBegins ==
    ASSUME MetaInv, NEW c \in Calls, NEW apps \in SUBSET Apps,
           \/ \E on \in BOOLEAN : M!Upsert(c, apps, on)
           \/ \E training \in Training : M!Provision(c, apps, training)
    PROVE  MetaInv'
<1>1. org \in OrgRow
  BY DEF MetaInv, MetaTypes
<1>2. ASSUME NEW on \in BOOLEAN, M!Upsert(c, apps, on) PROVE MetaInv'
  <2> DEFINE f == [M!NoFrame EXCEPT !.todo = apps, !.on = on, !.org = org]
  <2>1. M!Begin(c, "upsert", f) /\ org # M!NoOrg /\ UNCHANGED <<org, enabled, meta, bought>>
    BY <1>2 DEF M!Upsert
  <2>2. f \in MetaFrame /\ f.org = org
    BY <1>1, NoOrgRow DEF MetaFrame, M!NoFrame
  <2> HIDE DEF f
  <2>3. QED
    BY <1>1, <2>1, <2>2, RequestBegins
<1>3. ASSUME NEW training \in Training, M!Provision(c, apps, training) PROVE MetaInv'
  <2> DEFINE f == [M!NoFrame EXCEPT !.todo = apps, !.org = org, !.paid = TRUE,
                                    !.training = training]
  <2>1. M!Begin(c, "grant", f) /\ org # M!NoOrg /\ UNCHANGED <<org, enabled, meta, bought>>
    BY <1>3 DEF M!Provision
  <2>2. training \in BOOLEAN
    BY NoOrgRow
  <2>3. f \in MetaFrame /\ f.org = org
    BY <1>1, <2>2, NoOrgRow DEF MetaFrame, M!NoFrame
  <2> HIDE DEF f
  <2>4. QED
    BY <1>1, <2>1, <2>3, RequestBegins
<1>4. QED
  BY <1>2, <1>3

LEMMA SkipPushMeta ==
    ASSUME MetaInv, NEW c \in Calls, M!SkipPush(c)
    PROVE  MetaInv'
<1>1. /\ metaPc[c] = "skip" /\ M!Following(c) /\ org' = org /\ enabled' = enabled
      /\ bought' = bought /\ metaDisturbed' = metaDisturbed
  BY DEF M!SkipPush
<1>2. ~org.linked /\ bought \in BOOLEAN /\ metaDisturbed \in BOOLEAN
  BY <1>1 DEF MetaInv, MetaTypes, RequestOK
<1>3. metaPc[c] \in Changing
  BY <1>1 DEF Changing
<1>4. QED
  BY <1>1, <1>2, <1>3, FollowingMeta

LEMMA MetaKeeps == MetaInv /\ (M!Next \/ UNCHANGED metaVars) => MetaInv'
<1> SUFFICES ASSUME MetaInv, M!Next \/ UNCHANGED metaVars PROVE MetaInv'
  OBVIOUS
<1>1. CASE UNCHANGED metaVars
  <2>1. /\ org' = org /\ enabled' = enabled /\ meta' = meta /\ metaPc' = metaPc
        /\ metaFrame' = metaFrame /\ bought' = bought /\ metaDisturbed' = metaDisturbed
        /\ M!NoOrg' = M!NoOrg
    BY <1>1 DEF metaVars, M!NoOrg
  <2>2. QED
    BY <2>1 DEF MetaInv, MetaTypes, RequestOK, Truth
<1>2. CASE M!Next
  <2>1. PICK c \in Calls :
            \/ \E apps \in SUBSET Apps : M!Create(c, apps)
            \/ \E ok \in BOOLEAN : M!CreateInClerk(c, ok) \/ M!Push(c, ok)
            \/ M!StoreOrg(c) \/ M!SkipPush(c) \/ M!ListEnabled(c) \/ M!Abandon(c)
            \/ \E a \in Apps : M!Grant(c, a) \/ M!StoreEntitlement(c, a) \/ M!Skip(c, a)
            \/ \E s \in Statuses : M!WriteStatus(c, s)
            \/ \E apps \in (SUBSET Apps) \ {{}} :
                  \/ \E on \in BOOLEAN : M!Upsert(c, apps, on)
                  \/ \E training \in Training : M!Provision(c, apps, training)
    BY <1>2 DEF M!Next
  <2>2. CASE \E apps \in SUBSET Apps : M!Create(c, apps)
    BY <2>2, CreateMeta
  <2>3. CASE \E ok \in BOOLEAN : M!CreateInClerk(c, ok) \/ M!Push(c, ok)
    BY <2>3, ClerkMeta, PushMeta
  <2>4. CASE M!StoreOrg(c) \/ M!SkipPush(c) \/ M!ListEnabled(c) \/ M!Abandon(c)
    BY <2>4, StoreMeta, SkipPushMeta, ListMeta, AbandonMeta
  <2>5. CASE \E a \in Apps : M!Grant(c, a) \/ M!StoreEntitlement(c, a) \/ M!Skip(c, a)
    BY <2>5, GrantMeta, EntitleMeta, SkipMeta
  <2>6. CASE \E s \in Statuses : M!WriteStatus(c, s)
    BY <2>6, StatusMeta
  <2>7. ASSUME NEW apps \in SUBSET Apps,
               \/ \E on \in BOOLEAN : M!Upsert(c, apps, on)
               \/ \E training \in Training : M!Provision(c, apps, training)
        PROVE  MetaInv'
    BY <2>7, ChangeBegins
  <2>8. QED
    BY <2>1, <2>2, <2>3, <2>4, <2>5, <2>6, <2>7
<1>3. QED
  BY <1>1, <1>2

\* Clerk's copy of an organization has its status and its enabled apps whenever
\* nobody is at work and a request pushed all by itself since the last overlap,
\* death or failed push, for any number of requests, apps and statuses.
THEOREM MetadataIsTrue == Spec => []MetadataTellsTruth
<1>1. Init => MetaInv
  BY InitMeta DEF Init
<1>2. MetaInv /\ [Next]_vars => MetaInv'
  BY MetaKeeps, OneMoves
<1>3. MetaInv => MetadataTellsTruth
  BY DEF MetaInv, MetadataTellsTruth, M!MetadataTellsTruth, M!Active, Truth
<1>4. QED
  BY <1>1, <1>2, <1>3, PTL DEF Spec

-----------------------------------------------------------------------------
(***************************************************************************)
(* FeedbackDispatch.  An item that a dispatch has in hand was open when it *)
(* was read and has a filing to come until its issue is filed.             *)
(***************************************************************************)
FbFrame == [items : SUBSET Items, repo : SUBSET Repos]

FbTypes ==
    /\ fbStatus \in [Items -> F!Settable \cup {"none", "dispatched"}]
    /\ linked \subseteq Items /\ fbDisturbed \subseteq Items
    /\ filed \in [Items -> Nat] /\ opened \in [Items -> Nat]
    /\ fbPc \in [Dispatches -> {"idle", "file", "mark"}]
    /\ fbFrame \in [Dispatches -> FbFrame]

\* Dispatch d has item i in hand; it has filed the item's issue.
Held(d, i) == i \in fbFrame[d].items
Marking(d, i) == fbPc[d] = "mark" /\ Held(d, i) /\ repoOf[i] \in fbFrame[d].repo

\* An issue tells of item i, or had no room for it.
Told(i) == filed[i] > 0 \/ i \in omitted

\* The next issue about item i is due, and claimed by nothing.
Due(i) == filed[i] < opened[i] /\ (i \in linked \/ filed[i] = 0)

ItemOK(i) ==
    /\ fbStatus[i] = "none" => opened[i] = 0
    /\ fbStatus[i] = "dispatched" => i \in linked /\ Told(i)
    /\ \A d \in Dispatches : Marking(d, i) => Told(i)
    /\ i \notin fbDisturbed =>
          /\ filed[i] <= opened[i]
          /\ \A d, e \in Dispatches : Held(d, i) /\ Held(e, i) => d = e
          /\ \A d \in Dispatches : Held(d, i) /\ ~Marking(d, i) => Due(i)
          /\ (\A d \in Dispatches : ~Held(d, i)) =>
                /\ fbStatus[i] \in F!Open => filed[i] < opened[i]
                /\ i \in linked \/ filed[i] = 0

FbInv ==
    /\ FbTypes
    /\ \A d \in Dispatches : fbPc[d] = "idle" => fbFrame[d].items = {}
    /\ \A i \in Items : ItemOK(i)

LEMMA InitFb == F!Init => FbInv
<1> SUFFICES ASSUME F!Init PROVE FbInv
  OBVIOUS
<1>1. F!NoFrame \in FbFrame /\ F!NoFrame.items = {}
  BY DEF F!NoFrame, FbFrame
<1>2. FbTypes
  BY <1>1 DEF F!Init, FbTypes
<1>3. \A i \in Items : \A d \in Dispatches : ~Held(d, i)
  BY <1>1 DEF F!Init, Held
<1>4. \A i \in Items : fbStatus[i] = "none" /\ filed[i] = 0 /\ opened[i] = 0
  BY DEF F!Init
<1>5. QED
  BY <1>1, <1>2, <1>3, <1>4 DEF FbInv, FbTypes, ItemOK, Marking, F!Open, F!Init

\* One dispatch moves: the others hold what they held.
LEMMA OneDispatchMoves ==
    ASSUME FbTypes, repoOf' = repoOf, NEW d \in Dispatches, NEW label \in {"idle", "file", "mark"},
           NEW f \in FbFrame,
           fbPc' = [fbPc EXCEPT ![d] = label],
           fbFrame' = [fbFrame EXCEPT ![d] = f]
    PROVE  /\ fbPc' \in [Dispatches -> {"idle", "file", "mark"}]
           /\ fbFrame' \in [Dispatches -> FbFrame]
           /\ fbPc'[d] = label /\ fbFrame'[d] = f
           /\ \A e \in Dispatches : e # d =>
                 /\ fbPc'[e] = fbPc[e] /\ fbFrame'[e] = fbFrame[e]
                 /\ \A i : Held(e, i)' = Held(e, i) /\ Marking(e, i)' = Marking(e, i)
           /\ \A i : Held(d, i)' = (i \in f.items)
           /\ \A i : Marking(d, i)' = (label = "mark" /\ i \in f.items /\ repoOf[i] \in f.repo)
  BY DEF FbTypes, Held, Marking

LEMMA NoFbFrame == F!NoFrame \in FbFrame /\ F!NoFrame.items = {} /\ F!NoFrame.repo = {}
  BY DEF F!NoFrame, FbFrame

\* People submit and triage: an item that becomes open is opened once more.
LEMMA PersonMoves ==
    ASSUME FbInv, NEW j \in Items, NEW s \in F!Settable, NEW n \in Nat,
           UNCHANGED <<repoOf, linked, fbPc, fbFrame, filed, omitted, fbDisturbed>>,
           fbStatus' = [fbStatus EXCEPT ![j] = s],
           opened' = [opened EXCEPT ![j] = n],
           n >= opened[j],
           s \in F!Open => n > opened[j] \/ fbStatus[j] \in F!Open
    PROVE  FbInv'
<1>1. FbTypes
  BY DEF FbInv
<1>2. FbTypes'
  BY <1>1 DEF FbTypes
<1>3. ASSUME NEW i \in Items PROVE ItemOK(i)'
  <2>1. /\ fbStatus'[i] = IF i = j THEN s ELSE fbStatus[i]
        /\ opened'[i] = IF i = j THEN n ELSE opened[i]
        /\ s # "none" /\ s # "dispatched"
    BY <1>1 DEF FbTypes, F!Settable, F!Open
  <2>2. filed[i] \in Nat /\ opened[i] \in Nat /\ ItemOK(i)
    BY <1>1 DEF FbTypes, FbInv
  <2>3. /\ \A d \in Dispatches : Held(d, i)' = Held(d, i) /\ Marking(d, i)' = Marking(d, i)
        /\ Due(i) => Due(i)'
        /\ Told(i)' = Told(i)
    BY <1>1, <2>1, <2>2 DEF Held, Marking, Due, Told
  <2>4. QED
    BY <1>1, <2>1, <2>2, <2>3 DEF ItemOK
<1>4. QED
  BY <1>2, <1>3 DEF FbInv

LEMMA PeopleKeepItems ==
    ASSUME FbInv, NEW j \in Items
    PROVE  /\ F!Submit(j) => FbInv'
           /\ \A s \in F!Settable : F!SetStatus(j, s) => FbInv'
<1>0. opened \in [Items -> Nat] /\ opened[j] \in Nat
  BY DEF FbInv, FbTypes
<1>1. ASSUME F!Submit(j) PROVE FbInv'
  <2>1. /\ fbStatus' = [fbStatus EXCEPT ![j] = "new"]
        /\ opened' = [opened EXCEPT ![j] = 1] /\ opened[j] = 0
        /\ UNCHANGED <<repoOf, linked, fbPc, fbFrame, filed, omitted, fbDisturbed>>
    BY <1>1 DEF F!Submit, FbInv, ItemOK
  <2>2. "new" \in F!Settable
    BY DEF F!Settable, F!Open
  <2>3. 1 \in Nat /\ 1 >= opened[j] /\ 1 > opened[j]
    BY <2>1
  <2>4. QED
    BY <2>1, <2>2, <2>3, PersonMoves
<1>2. ASSUME NEW s \in F!Settable, F!SetStatus(j, s) PROVE FbInv'
  <2>0. UNCHANGED <<repoOf, linked, fbPc, fbFrame, filed, omitted, fbDisturbed>>
    BY <1>2 DEF F!SetStatus
  <2>1. CASE s \in F!Open /\ fbStatus[j] \notin F!Open
    <3>1. /\ fbStatus' = [fbStatus EXCEPT ![j] = s]
          /\ opened' = [opened EXCEPT ![j] = opened[j] + 1]
      BY <1>2, <2>1 DEF F!SetStatus
    <3>2. opened[j] + 1 \in Nat /\ opened[j] + 1 >= opened[j] /\ opened[j] + 1 > opened[j]
      BY <1>0
    <3>3. QED
      BY <2>0, <3>1, <3>2, PersonMoves
  <2>2. CASE ~(s \in F!Open /\ fbStatus[j] \notin F!Open)
    <3>1. fbStatus' = [fbStatus EXCEPT ![j] = s] /\ opened' = opened
      BY <1>2, <2>2 DEF F!SetStatus
    <3>2. opened' = [opened EXCEPT ![j] = opened[j]] /\ opened[j] >= opened[j]
      BY <1>0, <3>1
    <3>3. QED
      BY <1>0, <2>0, <2>2, <3>1, <3>2, PersonMoves
  <2>3. QED
    BY <2>1, <2>2
<1>3. QED
  BY <1>1, <1>2

\* What is filed, marked and in hand once dispatch d has moved.
LEMMA DispatchMoves ==
    ASSUME FbInv, repoOf' = repoOf, NEW d \in Dispatches, NEW label \in {"idle", "file", "mark"},
           NEW f \in FbFrame,
           fbPc' = [fbPc EXCEPT ![d] = label],
           fbFrame' = [fbFrame EXCEPT ![d] = f],
           label = "idle" => f.items = {},
           opened' = opened,
           fbStatus' \in [Items -> F!Settable \cup {"none", "dispatched"}],
           linked' \subseteq Items, linked \subseteq linked',
           fbDisturbed' \subseteq Items, fbDisturbed \subseteq fbDisturbed',
           filed' \in [Items -> Nat],
           \A i \in Items :
              /\ fbStatus'[i] = fbStatus[i] \/ (fbStatus'[i] = "dispatched" /\ Held(d, i))
              /\ fbStatus'[i] = "dispatched" => i \in linked' /\ Told(i)'
              /\ filed'[i] >= filed[i] /\ (Told(i) => Told(i)')
              /\ Marking(d, i)' => Told(i)'
              /\ ~Held(d, i) /\ i \notin f.items
                    => filed'[i] = filed[i]
              /\ i \notin fbDisturbed' =>
                    /\ filed'[i] <= opened[i]
                    /\ \A e \in Dispatches : i \in f.items /\ Held(e, i) => e = d
                    /\ i \in f.items /\ ~Marking(d, i)' => Due(i)'
                    /\ i \notin f.items /\ (\A e \in Dispatches : e # d => ~Held(e, i)) =>
                          /\ fbStatus'[i] \in F!Open => filed'[i] < opened[i]
                          /\ i \in linked' \/ filed'[i] = 0
    PROVE  FbInv'
<1>1. FbTypes'
  BY OneDispatchMoves DEF FbInv, FbTypes
<1>2. ASSUME NEW i \in Items PROVE ItemOK(i)'
  <2>1. /\ \A e \in Dispatches : e # d => Held(e, i)' = Held(e, i) /\ Marking(e, i)' = Marking(e, i)
        /\ Held(d, i)' = (i \in f.items)
    <3>1. FbTypes
      BY DEF FbInv
    <3>2. QED
      BY <3>1 DEF FbTypes, Held, Marking
  <2> ItemOK(i)
    BY DEF FbInv
  <2>2. filed[i] \in Nat /\ filed'[i] \in Nat /\ opened[i] \in Nat
    BY DEF FbInv, FbTypes
  <2>3. \A e \in Dispatches : Marking(e, i)' => Told(i)'
    BY <2>1, <2>2 DEF ItemOK
  <2>4. ASSUME i \notin fbDisturbed'
        PROVE  /\ \A e, g \in Dispatches : Held(e, i)' /\ Held(g, i)' => e = g
               /\ \A e \in Dispatches : Held(e, i)' /\ ~Marking(e, i)' => Due(i)'
    <3>1. i \notin fbDisturbed
      BY <2>4
    <3>2. \A e, g \in Dispatches : Held(e, i)' /\ Held(g, i)' => e = g
      BY <2>1, <2>4, <3>1 DEF ItemOK
    <3>3. ASSUME NEW e \in Dispatches, e # d, Held(e, i), ~Marking(e, i) PROVE Due(i)'
      <4>1. ~Held(d, i)
        BY <3>1, <3>3, <2>1 DEF ItemOK
      <4>2. i \notin f.items
        BY <2>4, <3>3
      <4>3. filed'[i] = filed[i] /\ Due(i)
        BY <4>1, <4>2, <3>1, <3>3, <2>1 DEF ItemOK
      <4>4. QED
        BY <4>3 DEF Due
    <3>4. \A e \in Dispatches : Held(e, i)' /\ ~Marking(e, i)' => Due(i)'
      BY <3>3, <2>1, <2>4
    <3>5. QED
      BY <3>2, <3>4
  <2>5. i \notin fbDisturbed' /\ (\A e \in Dispatches : ~Held(e, i)') =>
           /\ fbStatus'[i] \in F!Open => filed'[i] < opened'[i]
           /\ i \in linked' \/ filed'[i] = 0
    BY <2>1
  <2>6. fbStatus'[i] = "none" => opened'[i] = 0
    BY <2>1 DEF ItemOK
  <2>7. QED
    BY <2>3, <2>4, <2>5, <2>6 DEF ItemOK
<1>3. \A e \in Dispatches : fbPc'[e] = "idle" => fbFrame'[e].items = {}
  BY OneDispatchMoves DEF FbInv
<1>4. QED
  BY <1>1, <1>2, <1>3 DEF FbInv

LEMMA ReadOpenKeepsItems ==
    ASSUME FbInv, NEW d \in Dispatches, NEW some \in SUBSET Items, F!ReadOpen(d, some)
    PROVE  FbInv'
<1> DEFINE items == {i \in some : fbStatus[i] \in F!Open}
           f == [fbFrame[d] EXCEPT !.items = items]
<1>1. /\ fbPc[d] = "idle"
      /\ fbFrame' = [fbFrame EXCEPT ![d] = f] /\ fbPc' = [fbPc EXCEPT ![d] = "file"]
      /\ fbDisturbed' = fbDisturbed \cup {i \in items : F!InHand(i)}
      /\ UNCHANGED <<repoOf, fbStatus, linked, filed, omitted, opened>>
  BY DEF F!ReadOpen, F!Goto
<1>2. fbFrame[d].items = {} /\ fbFrame[d] \in FbFrame /\ items \subseteq Items
  BY <1>1 DEF FbInv, FbTypes
<1>3. f \in FbFrame /\ f.items = items
  BY <1>2 DEF FbFrame
<1>4. \A i \in items : fbStatus[i] \in F!Open
  OBVIOUS
<1> HIDE DEF items, f
<1>5. \A i \in Items : i \in items /\ i \notin fbDisturbed' =>
          \A e \in Dispatches : ~Held(e, i)
  BY <1>1 DEF F!InHand, Held
<1>6. \A i \in Items : ~Held(d, i) /\ ~Marking(d, i)'
  <2>1. fbPc'[d] = "file"
    BY <1>1 DEF FbInv, FbTypes
  <2>2. QED
    BY <1>2, <2>1 DEF Held, Marking
<1>7. ASSUME NEW i \in Items
      PROVE  /\ fbStatus'[i] = "dispatched" => i \in linked' /\ Told(i)'
             /\ filed'[i] >= filed[i] /\ (Told(i) => Told(i)')
             /\ i \notin fbDisturbed' =>
                   /\ filed'[i] <= opened[i]
                   /\ \A e \in Dispatches : i \in f.items /\ Held(e, i) => e = d
                   /\ i \in f.items => Due(i)'
                   /\ i \notin f.items /\ (\A e \in Dispatches : e # d => ~Held(e, i)) =>
                         /\ fbStatus'[i] \in F!Open => filed'[i] < opened[i]
                         /\ i \in linked' \/ filed'[i] = 0
  <2>1. ItemOK(i) /\ filed[i] \in Nat /\ opened[i] \in Nat
    BY DEF FbInv, FbTypes
  <2>2. Due(i)' = Due(i) /\ Told(i)' = Told(i)
    BY <1>1 DEF Due, Told
  <2>3. QED
    BY <1>1, <1>3, <1>4, <1>5, <1>6, <2>1, <2>2 DEF ItemOK, Due
<1>8. /\ fbStatus' \in [Items -> F!Settable \cup {"none", "dispatched"}]
      /\ linked' \subseteq Items /\ filed' \in [Items -> Nat]
      /\ fbDisturbed' \subseteq Items
  BY <1>1, <1>2 DEF FbInv, FbTypes
<1>9. QED
  BY <1>1, <1>3, <1>6, <1>7, <1>8, DispatchMoves

LEMMA FileKeepsItems ==
    ASSUME FbInv, NEW d \in Dispatches, NEW r \in Repos,
           NEW told \in SUBSET Items, NEW outcome \in {"done", "refused", "lost"},
           F!File(d, r, told, outcome)
    PROVE  FbInv'
<1> DEFINE group == F!Of(d, r)
<1>1. /\ fbPc[d] = "file"
      /\ filed' = IF outcome = "refused" THEN filed
                  ELSE [i \in Items |-> IF i \in told /\ filed[i] <= MaxOpened
                                        THEN filed[i] + 1 ELSE filed[i]]
      /\ omitted' = IF outcome = "refused" THEN omitted ELSE omitted \cup (group \ told)
      /\ told \subseteq group
      /\ fbDisturbed' = IF outcome = "lost" THEN fbDisturbed \cup group ELSE fbDisturbed
      /\ UNCHANGED <<repoOf, fbStatus, linked, opened>>
  BY DEF F!File
<1>2. /\ fbFrame[d] \in FbFrame /\ group \subseteq Items
      /\ \A i : i \in group <=> i \in fbFrame[d].items /\ repoOf[i] = r
  BY DEF FbInv, FbTypes, F!Of, FbFrame
<1> HIDE DEF group
<1>3. \A i \in Items : /\ Held(d, i) = (i \in fbFrame[d].items)
                       /\ ~Marking(d, i)
  BY <1>1 DEF Held, Marking
<1>4. /\ fbStatus' \in [Items -> F!Settable \cup {"none", "dispatched"}]
      /\ linked' \subseteq Items /\ fbDisturbed' \subseteq Items
      /\ filed' \in [Items -> Nat]
      /\ \A i \in Items : /\ filed[i] \in Nat /\ opened[i] \in Nat
                          /\ filed'[i] = filed[i] \/ filed'[i] = filed[i] + 1
                          /\ i \notin group \/ outcome = "refused" => filed'[i] = filed[i]
  BY <1>1, <1>2, ServicesAssumption DEF FbInv, FbTypes, F!FeedbackAssumption
<1>4a. \A i \in Items : /\ i \in group /\ outcome # "refused" => Told(i)'
                        /\ Told(i) => Told(i)'
  BY <1>1, <1>2, ServicesAssumption DEF FbInv, FbTypes, F!FeedbackAssumption, Told
<1>5. CASE outcome = "done"
  <2> DEFINE f == [fbFrame[d] EXCEPT !.repo = {r}]
  <2>1. /\ fbFrame' = [fbFrame EXCEPT ![d] = f] /\ fbPc' = [fbPc EXCEPT ![d] = "mark"]
    BY <1>5 DEF F!File, F!Goto
  <2>2. f \in FbFrame /\ f.items = fbFrame[d].items /\ f.repo = {r}
    BY <1>2 DEF FbFrame
  <2> HIDE DEF f
  <2>3. \A i \in Items : Marking(d, i)' = (i \in group)
    <3>1. fbPc'[d] = "mark" /\ fbFrame'[d] = f
      BY <2>1 DEF FbInv, FbTypes
    <3>2. QED
      BY <1>1, <3>1, <2>2, <1>2 DEF Marking, Held
  <2>4. ASSUME NEW i \in Items
        PROVE  /\ fbStatus'[i] = "dispatched" => i \in linked' /\ Told(i)'
               /\ filed'[i] >= filed[i] /\ (Told(i) => Told(i)')
               /\ Marking(d, i)' => Told(i)'
               /\ ~Held(d, i) /\ i \notin f.items => filed'[i] = filed[i]
               /\ i \notin fbDisturbed' =>
                     /\ filed'[i] <= opened[i]
                     /\ \A e \in Dispatches : i \in f.items /\ Held(e, i) => e = d
                     /\ i \in f.items /\ ~Marking(d, i)' => Due(i)'
                     /\ i \notin f.items /\ (\A e \in Dispatches : e # d => ~Held(e, i)) =>
                           /\ fbStatus'[i] \in F!Open => filed'[i] < opened[i]
                           /\ i \in linked' \/ filed'[i] = 0
    <3>1. ItemOK(i)
      BY DEF FbInv
    <3>2. i \notin group => Due(i)' = Due(i)
      BY <1>1, <1>4 DEF Due
    <3>3. /\ fbStatus'[i] = "dispatched" => i \in linked' /\ Told(i)'
          /\ filed'[i] >= filed[i] /\ (Told(i) => Told(i)')
          /\ Marking(d, i)' => Told(i)'
          /\ ~Held(d, i) /\ i \notin f.items => filed'[i] = filed[i]
      <4>0. filed'[i] >= filed[i]
        BY <1>4
      <4>1. filed'[i] >= filed[i] /\ (Told(i) => Told(i)')
        BY <4>0, <1>4a
      <4>2. Marking(d, i)' => Told(i)'
        BY <1>5, <1>4a, <2>3
      <4>3. ~Held(d, i) /\ i \notin f.items => filed'[i] = filed[i]
        BY <1>2, <1>3, <1>4
      <4>4. QED
        BY <1>1, <3>1, <4>1, <4>2, <4>3 DEF ItemOK
    <3>4. ASSUME i \notin fbDisturbed', i \in f.items
          PROVE  /\ filed'[i] <= opened[i]
                 /\ \A e \in Dispatches : Held(e, i) => e = d
                 /\ ~Marking(d, i)' => Due(i)'
      <4>1. Held(d, i) /\ ~Marking(d, i) /\ i \notin fbDisturbed
        BY <1>1, <1>3, <1>5, <2>2, <3>4
      <4>2. Due(i) /\ \A e \in Dispatches : Held(e, i) => e = d
        BY <3>1, <4>1 DEF ItemOK
      <4>3. filed'[i] <= opened[i]
        BY <1>4, <4>2 DEF Due
      <4>4. QED
        BY <2>3, <3>2, <4>2, <4>3
    <3>5. ASSUME i \notin fbDisturbed', i \notin f.items
          PROVE  /\ filed'[i] <= opened[i]
                 /\ (\A e \in Dispatches : e # d => ~Held(e, i)) =>
                       /\ fbStatus'[i] \in F!Open => filed'[i] < opened[i]
                       /\ i \in linked' \/ filed'[i] = 0
      <4>1. filed'[i] = filed[i] /\ ~Held(d, i) /\ i \notin fbDisturbed
        BY <1>1, <1>3, <1>5, <2>2, <3>3, <3>5
      <4>2. QED
        BY <1>1, <3>1, <4>1 DEF ItemOK
    <3>6. QED
      BY <3>3, <3>4, <3>5
  <2>5. QED
    BY <1>1, <1>4, <2>1, <2>2, <2>4, DispatchMoves
<1>6. CASE outcome # "done"
  <2>1. PICK label \in {"idle", "file"}, f \in FbFrame :
            /\ fbFrame' = [fbFrame EXCEPT ![d] = f] /\ fbPc' = [fbPc EXCEPT ![d] = label]
            /\ f.items = fbFrame[d].items \ group
            /\ label = "idle" => f.items = {}
    <3>1. CASE group = fbFrame[d].items
      <4>1. /\ fbFrame' = [fbFrame EXCEPT ![d] = F!NoFrame]
            /\ fbPc' = [fbPc EXCEPT ![d] = "idle"]
        BY <1>6, <3>1 DEF F!File, F!Return, F!Goto, group
      <4>2. QED
        BY <4>1, <3>1, NoFbFrame
    <3>2. CASE group # fbFrame[d].items
      <4> DEFINE g == [fbFrame[d] EXCEPT !.items = fbFrame[d].items \ group]
      <4>1. fbFrame' = [fbFrame EXCEPT ![d] = g] /\ fbPc' = fbPc
        BY <1>6, <3>2 DEF F!File, group
      <4>2. g \in FbFrame /\ g.items = fbFrame[d].items \ group
        BY <1>2 DEF FbFrame
      <4>3. fbPc' = [fbPc EXCEPT ![d] = "file"]
        BY <1>1, <4>1 DEF FbInv, FbTypes
      <4> HIDE DEF g
      <4>4. QED
        BY <4>1, <4>2, <4>3
    <3>3. QED
      BY <3>1, <3>2
  <2>2. \A i \in Items : ~Marking(d, i)'
    <3>1. fbPc'[d] = label
      BY <2>1 DEF FbInv, FbTypes
    <3>2. QED
      BY <3>1 DEF Marking
  <2>3. ASSUME NEW i \in Items
        PROVE  /\ fbStatus'[i] = "dispatched" => i \in linked' /\ Told(i)'
               /\ filed'[i] >= filed[i] /\ (Told(i) => Told(i)')
               /\ ~Held(d, i) /\ i \notin f.items => filed'[i] = filed[i]
               /\ i \notin fbDisturbed' =>
                     /\ filed'[i] <= opened[i]
                     /\ \A e \in Dispatches : i \in f.items /\ Held(e, i) => e = d
                     /\ i \in f.items => Due(i)'
                     /\ i \notin f.items /\ (\A e \in Dispatches : e # d => ~Held(e, i)) =>
                           /\ fbStatus'[i] \in F!Open => filed'[i] < opened[i]
                           /\ i \in linked' \/ filed'[i] = 0
    <3>1. ItemOK(i)
      BY DEF FbInv
    <3>2. filed'[i] = filed[i] => Due(i)' = Due(i)
      BY <1>1 DEF Due
    <3>3. i \notin fbDisturbed' => filed'[i] = filed[i]
      BY <1>1, <1>4, <1>6
    <3>4. /\ fbStatus'[i] = "dispatched" => i \in linked' /\ Told(i)'
          /\ filed'[i] >= filed[i] /\ (Told(i) => Told(i)')
          /\ ~Held(d, i) /\ i \notin f.items => filed'[i] = filed[i]
      <4>0. filed'[i] >= filed[i]
        BY <1>4
      <4>1. filed'[i] >= filed[i] /\ (Told(i) => Told(i)')
        BY <4>0, <1>4a
      <4>2. ~Held(d, i) => filed'[i] = filed[i]
        BY <1>2, <1>3, <1>4
      <4>3. QED
        BY <1>1, <3>1, <4>1, <4>2 DEF ItemOK
    <3>5. ASSUME i \notin fbDisturbed', Held(d, i)
          PROVE  /\ filed'[i] <= opened[i] /\ Due(i)'
                 /\ \A e \in Dispatches : Held(e, i) => e = d
      <4>1. ~Marking(d, i) /\ i \notin fbDisturbed
        BY <1>1, <1>3, <3>5
      <4>2. Due(i) /\ \A e \in Dispatches : Held(e, i) => e = d
        BY <3>1, <3>5, <4>1 DEF ItemOK
      <4>3. filed'[i] <= opened[i]
        BY <1>4, <4>2 DEF Due
      <4>4. QED
        BY <3>2, <3>3, <3>5, <4>2, <4>3
    <3>6. ASSUME i \notin fbDisturbed', ~Held(d, i)
          PROVE  /\ filed'[i] <= opened[i] /\ i \notin f.items
                 /\ (\A e \in Dispatches : e # d => ~Held(e, i)) =>
                       /\ fbStatus'[i] \in F!Open => filed'[i] < opened[i]
                       /\ i \in linked' \/ filed'[i] = 0
      <4>1. filed'[i] = filed[i] /\ i \notin fbDisturbed /\ i \notin f.items
        BY <1>1, <1>3, <2>1, <3>3, <3>6
      <4>2. QED
        BY <1>1, <3>1, <3>6, <4>1 DEF ItemOK
    <3>7. Due(i)' => filed'[i] < opened[i] /\ (i \in linked' \/ filed'[i] = 0)
      BY <1>1 DEF Due
    <3>8. QED
      BY <3>4, <3>5, <3>6, <3>7
  <2>4. QED
    BY <1>1, <1>4, <2>1, <2>2, <2>3, DispatchMoves
<1>7. QED
  BY <1>5, <1>6

LEMMA MarkKeepsItems ==
    ASSUME FbInv, NEW d \in Dispatches, F!Mark(d)
    PROVE  FbInv'
<1> DEFINE group == {i \in fbFrame[d].items : repoOf[i] \in fbFrame[d].repo}
<1>1. /\ fbPc[d] = "mark"
      /\ fbStatus' = [i \in Items |-> IF i \in group THEN "dispatched" ELSE fbStatus[i]]
      /\ linked' = linked \cup group
      /\ UNCHANGED <<repoOf, filed, omitted, opened, fbDisturbed>>
  BY DEF F!Mark
<1>2. fbFrame[d] \in FbFrame /\ group \subseteq Items
  BY DEF FbInv, FbTypes, FbFrame
<1>3. PICK label \in {"idle", "file"}, f \in FbFrame :
          /\ fbFrame' = [fbFrame EXCEPT ![d] = f] /\ fbPc' = [fbPc EXCEPT ![d] = label]
          /\ f.items = fbFrame[d].items \ group
          /\ label = "idle" => f.items = {}
  <2>1. CASE group = fbFrame[d].items
    <3>1. /\ fbFrame' = [fbFrame EXCEPT ![d] = F!NoFrame]
          /\ fbPc' = [fbPc EXCEPT ![d] = "idle"]
      BY <2>1 DEF F!Mark, F!Return, F!Goto
    <3>2. QED
      BY <3>1, <2>1, NoFbFrame
  <2>2. CASE group # fbFrame[d].items
    <3> DEFINE g == [items |-> fbFrame[d].items \ group, repo |-> {}]
    <3>1. fbFrame' = [fbFrame EXCEPT ![d] = g] /\ fbPc' = [fbPc EXCEPT ![d] = "file"]
      BY <2>2 DEF F!Mark, F!Goto
    <3>2. g \in FbFrame /\ g.items = fbFrame[d].items \ group
      BY <1>2 DEF FbFrame
    <3> HIDE DEF g
    <3>3. QED
      BY <3>1, <3>2
  <2>3. QED
    BY <2>1, <2>2
<1>4. \A i \in Items : ~Marking(d, i)'
  <2>1. fbPc'[d] = label
    BY <1>3 DEF FbInv, FbTypes
  <2>2. QED
    BY <2>1 DEF Marking
<1>5. \A i \in Items : /\ Held(d, i) = (i \in fbFrame[d].items)
                       /\ Marking(d, i) = (i \in group)
                       /\ filed[i] \in Nat /\ opened[i] \in Nat
  BY <1>1 DEF Held, Marking, FbInv, FbTypes
<1> HIDE DEF group
<1>6. ASSUME NEW i \in Items
      PROVE  /\ fbStatus'[i] = fbStatus[i] \/ (fbStatus'[i] = "dispatched" /\ Held(d, i))
             /\ fbStatus'[i] = "dispatched" => i \in linked' /\ Told(i)
             /\ i \notin fbDisturbed =>
                   /\ filed[i] <= opened[i]
                   /\ \A e \in Dispatches : i \in f.items /\ Held(e, i) => e = d
                   /\ i \in f.items => Due(i)'
                   /\ i \notin f.items /\ (\A e \in Dispatches : e # d => ~Held(e, i)) =>
                         /\ fbStatus'[i] \in F!Open => filed[i] < opened[i]
                         /\ i \in linked' \/ filed[i] = 0
  <2>1. ItemOK(i)
    BY DEF FbInv
  <2>2. fbStatus'[i] = IF i \in group THEN "dispatched" ELSE fbStatus[i]
    BY <1>1
  <2>3. /\ fbStatus'[i] = fbStatus[i] \/ (fbStatus'[i] = "dispatched" /\ Held(d, i))
        /\ fbStatus'[i] = "dispatched" => i \in linked' /\ Told(i)
    BY <1>1, <1>5, <2>1, <2>2 DEF ItemOK, Marking
  <2>4. ASSUME i \notin fbDisturbed, i \in f.items
        PROVE  (\A e \in Dispatches : Held(e, i) => e = d) /\ Due(i)'
    <3>1. Held(d, i) /\ ~Marking(d, i)
      BY <1>3, <1>5, <2>4
    <3>2. Due(i) /\ \A e \in Dispatches : Held(e, i) => e = d
      BY <2>1, <2>4, <3>1 DEF ItemOK
    <3>3. QED
      BY <1>1, <3>2 DEF Due
  <2>5. ASSUME i \notin fbDisturbed, i \notin f.items,
               \A e \in Dispatches : e # d => ~Held(e, i)
        PROVE  /\ fbStatus'[i] \in F!Open => filed[i] < opened[i]
               /\ i \in linked' \/ filed[i] = 0
    <3>1. CASE i \in group
      BY <1>1, <2>2, <3>1 DEF F!Open
    <3>2. CASE i \notin group
      <4>1. \A e \in Dispatches : ~Held(e, i)
        BY <1>3, <1>5, <2>5, <3>2
      <4>2. QED
        BY <1>1, <2>1, <2>2, <2>5, <3>2, <4>1 DEF ItemOK
    <3>3. QED
      BY <3>1, <3>2
  <2>6. QED
    BY <2>1, <2>3, <2>4, <2>5 DEF ItemOK
<1>7. /\ fbStatus' \in [Items -> F!Settable \cup {"none", "dispatched"}]
      /\ linked' \subseteq Items /\ filed' \in [Items -> Nat]
      /\ fbDisturbed' \subseteq Items
  BY <1>1, <1>2 DEF FbInv, FbTypes
<1>8. \A i \in Items : /\ filed'[i] = filed[i] /\ filed'[i] >= filed[i]
                       /\ Told(i)' = Told(i)
  BY <1>1, <1>5 DEF Told
<1>9. QED
  BY <1>1, <1>3, <1>4, <1>6, <1>7, <1>8, DispatchMoves

LEMMA AbandonKeepsItems ==
    ASSUME FbInv, NEW d \in Dispatches, F!Abandon(d)
    PROVE  FbInv'
<1> DEFINE group == {i \in fbFrame[d].items : repoOf[i] \in fbFrame[d].repo}
<1>1. /\ fbPc' = [fbPc EXCEPT ![d] = "idle"]
      /\ fbFrame' = [fbFrame EXCEPT ![d] = F!NoFrame]
      /\ fbDisturbed' = IF fbPc[d] = "mark" THEN fbDisturbed \cup group ELSE fbDisturbed
      /\ UNCHANGED <<repoOf, fbStatus, linked, filed, omitted, opened>>
  BY DEF F!Abandon, F!Return, F!Goto
<1>2. fbFrame[d] \in FbFrame /\ group \subseteq Items
  BY DEF FbInv, FbTypes, FbFrame
<1>3. \A i \in Items : /\ ~Marking(d, i)'
                       /\ Marking(d, i) = (fbPc[d] = "mark" /\ i \in group)
  <2>1. fbPc'[d] = "idle"
    BY <1>1 DEF FbInv, FbTypes
  <2>2. QED
    BY <2>1 DEF Marking, Held
<1> HIDE DEF group
<1>4. ASSUME NEW i \in Items
      PROVE  /\ fbStatus[i] = "dispatched" => i \in linked /\ Told(i)
             /\ i \notin fbDisturbed' =>
                   /\ filed[i] <= opened[i]
                   /\ (\A e \in Dispatches : e # d => ~Held(e, i)) =>
                         /\ fbStatus[i] \in F!Open => filed[i] < opened[i]
                         /\ i \in linked \/ filed[i] = 0
  <2>1. ItemOK(i)
    BY DEF FbInv
  <2>2. i \notin fbDisturbed' => ~Marking(d, i) /\ i \notin fbDisturbed
    BY <1>1, <1>3
  <2>3. CASE Held(d, i)
    BY <2>1, <2>2, <2>3 DEF ItemOK, Due
  <2>4. CASE ~Held(d, i)
    BY <2>1, <2>2, <2>4 DEF ItemOK
  <2>5. QED
    BY <2>3, <2>4
<1>5. /\ fbStatus' \in [Items -> F!Settable \cup {"none", "dispatched"}]
      /\ linked' \subseteq Items /\ filed' \in [Items -> Nat]
      /\ fbDisturbed' \subseteq Items /\ fbDisturbed \subseteq fbDisturbed'
      /\ \A i \in Items : filed'[i] >= filed[i] /\ Told(i)' = Told(i)
  BY <1>1, <1>2 DEF FbInv, FbTypes, Told
<1>6. QED
  BY <1>1, <1>3, <1>4, <1>5, NoFbFrame, DispatchMoves

LEMMA FeedbackInv == Spec => []FbInv
<1>1. Init => FbInv
  BY InitFb DEF Init
<1>2. FbInv /\ UNCHANGED fbVars => FbInv'
  BY DEF fbVars, FbInv, FbTypes, ItemOK, Held, Marking, Due, Told
<1>3. FbInv /\ F!Next => FbInv'
  BY PeopleKeepItems, ReadOpenKeepsItems, FileKeepsItems, MarkKeepsItems, AbandonKeepsItems
     DEF F!Next
<1>4. FbInv /\ [Next]_vars => FbInv'
  BY <1>2, <1>3, OneMoves
<1>5. QED
  BY <1>1, <1>4, PTL DEF Spec

\* What is marked dispatched has a link, and an issue told of it or had no room
\* for it; and an item that no two dispatches had at a time, and whose marking
\* no lost answer or death kept from following its issue, is told of at most as
\* often as it was opened.  For any number of items, repositories and dispatches.
THEOREM FeedbackIsWorkedOnOnce == Spec => []FeedbackIsFiledOnce
<1>1. FbInv => FeedbackIsFiledOnce
  BY DEF FbInv, FbTypes, ItemOK, Held, Marking, Due, Told, FeedbackIsFiledOnce,
     F!FeedbackIsFiledOnce, F!InHand
<1>2. QED
  BY <1>1, FeedbackInv, PTL

-----------------------------------------------------------------------------
(***************************************************************************)
(* CrashAutoFix.  The entry of an issue that a call knows of is there when *)
(* the call looks at the entries, and no entry is given twice.             *)
(***************************************************************************)
FixFrame == [auto : BOOLEAN, known : SUBSET Nat, issue : Nat]
Issue    == [auto : BOOLEAN, at : Nat, entry : Nat \cup {None}, known : SUBSET Nat]

FixTypes ==
    /\ now \in Nat
    /\ entries \subseteq Nat
    /\ fixPc \in [Fixers -> {"idle", "cooldown", "diagnose", "file", "record"}]
    /\ fixFrame \in [Fixers -> FixFrame]
    /\ issues \in Seq(Issue)

\* The numbers in S are those of issues whose entries are there.
AreEntered(S, made, times) ==
    \A i \in S : /\ i \in DOMAIN made
                 /\ made[i].entry # None
                 /\ made[i].entry \in times

\* All of S were entered longer than a cooldown before time t.
LongBefore(S, made, t) == \A i \in S : made[i].entry + Cooldown < t

FixInv ==
    /\ FixTypes
    /\ \A c \in Fixers :
          /\ fixPc[c] = "idle" => ~fixFrame[c].auto
          /\ AreEntered(fixFrame[c].known, issues, entries)
          /\ (fixPc[c] \in {"diagnose", "file"} /\ fixFrame[c].auto)
                => LongBefore(fixFrame[c].known, issues, now)
          /\ fixPc[c] = "record" =>
                /\ fixFrame[c].issue \in DOMAIN issues
                /\ issues[fixFrame[c].issue].entry = None
    /\ \A c, d \in Fixers :
          (fixPc[c] = "record" /\ fixPc[d] = "record" /\ c # d)
              => fixFrame[c].issue # fixFrame[d].issue
    /\ \A j \in DOMAIN issues :
          /\ issues[j].entry # None => issues[j].entry \in entries
          /\ AreEntered(issues[j].known, issues, entries)
    /\ X!FixesAreSpaced

LEMMA InitFix == X!Init => FixInv
  BY DEF X!Init, X!NoFrame, FixInv, FixTypes, FixFrame, AreEntered, X!FixesAreSpaced

LEMMA FixTick == FixInv /\ X!Tick => FixInv'
<1> SUFFICES ASSUME FixInv, X!Tick PROVE FixInv'
  OBVIOUS
<1>1. now' = now + 1 /\ UNCHANGED <<entries, fixPc, fixFrame, issues>>
  BY DEF X!Tick
<1>2. FixTypes'
  BY <1>1 DEF FixInv, FixTypes
<1>3. \A S : AreEntered(S, issues, entries) => AreEntered(S, issues', entries')
  BY <1>1 DEF AreEntered
<1>4. \A S \in SUBSET Nat :
          AreEntered(S, issues, entries) /\ LongBefore(S, issues, now)
              => LongBefore(S, issues', now')
  <2> SUFFICES ASSUME NEW S \in SUBSET Nat, AreEntered(S, issues, entries),
                      LongBefore(S, issues, now), NEW i \in S
               PROVE  issues[i].entry + Cooldown < now + 1
    BY <1>1 DEF LongBefore
  <2>1. issues[i].entry \in Nat /\ now \in Nat /\ Cooldown \in Nat
    BY ServicesAssumption DEF AreEntered, FixInv, FixTypes, X!CooldownAssumption
  <2>2. issues[i].entry + Cooldown < now
    BY DEF LongBefore
  <2>3. QED
    BY <2>1, <2>2
<1>5. \A c \in Fixers : fixFrame[c].known \in SUBSET Nat
  BY DEF FixInv, FixTypes, FixFrame
<1>6. X!FixesAreSpaced'
  BY <1>1 DEF FixInv, X!FixesAreSpaced
<1>7. QED
  BY <1>1, <1>2, <1>3, <1>4, <1>5, <1>6 DEF FixInv

\* A call goes on or ends, and files nothing.
LEMMA FixCalls ==
    ASSUME FixInv, NEW c \in Fixers, UNCHANGED <<now, entries, issues>>,
           fixPc' = [fixPc EXCEPT ![c] = fixPc'[c]],
           fixFrame' = [fixFrame EXCEPT ![c] = fixFrame'[c]],
           fixPc'[c] \in {"idle", "cooldown", "diagnose", "file"},
           fixFrame'[c] \in FixFrame,
           fixPc'[c] = "idle" => ~fixFrame'[c].auto,
           AreEntered(fixFrame'[c].known, issues, entries),
           (fixPc'[c] \in {"diagnose", "file"} /\ fixFrame'[c].auto)
               => LongBefore(fixFrame'[c].known, issues, now)
    PROVE  FixInv'
<1>1. FixTypes'
  BY DEF FixInv, FixTypes
<1>2. \A d \in Fixers : d # c => fixPc'[d] = fixPc[d] /\ fixFrame'[d] = fixFrame[d]
  BY DEF FixInv, FixTypes
<1>3. /\ \A S : AreEntered(S, issues, entries) => AreEntered(S, issues', entries')
      /\ \A S : LongBefore(S, issues, now) => LongBefore(S, issues', now')
  BY DEF AreEntered, LongBefore
<1>4. \A d \in Fixers :
          /\ fixPc'[d] = "idle" => ~fixFrame'[d].auto
          /\ AreEntered(fixFrame'[d].known, issues, entries)
          /\ (fixPc'[d] \in {"diagnose", "file"} /\ fixFrame'[d].auto)
                => LongBefore(fixFrame'[d].known, issues, now)
          /\ fixPc'[d] = "record" => /\ d # c /\ fixPc[d] = "record"
                                     /\ fixFrame'[d].issue \in DOMAIN issues
                                     /\ issues[fixFrame'[d].issue].entry = None
  BY <1>2 DEF FixInv
<1>5. \A d, e \in Fixers :
          (fixPc'[d] = "record" /\ fixPc'[e] = "record" /\ d # e)
              => fixFrame'[d].issue # fixFrame'[e].issue
  BY <1>2, <1>4 DEF FixInv
<1>6. /\ \A j \in DOMAIN issues' :
             /\ issues'[j].entry # None => issues'[j].entry \in entries'
             /\ AreEntered(issues'[j].known, issues', entries')
      /\ X!FixesAreSpaced'
  BY <1>3 DEF FixInv, X!FixesAreSpaced
<1>7. \A d \in Fixers :
          /\ AreEntered(fixFrame'[d].known, issues', entries')
          /\ (fixPc'[d] \in {"diagnose", "file"} /\ fixFrame'[d].auto)
                => LongBefore(fixFrame'[d].known, issues', now')
  BY <1>3, <1>4
<1>8. QED
  BY <1>1, <1>4, <1>5, <1>6, <1>7 DEF FixInv

LEMMA FixReturns ==
    ASSUME FixInv, NEW c \in Fixers, UNCHANGED <<now, entries, issues>>, X!Return(c)
    PROVE  FixInv'
<1>1. /\ fixPc' = [fixPc EXCEPT ![c] = "idle"] /\ fixPc'[c] = "idle"
      /\ fixFrame' = [fixFrame EXCEPT ![c] = X!NoFrame] /\ fixFrame'[c] = X!NoFrame
  BY DEF X!Return, X!Goto, FixInv, FixTypes
<1>2. X!NoFrame \in FixFrame /\ ~X!NoFrame.auto /\ AreEntered(X!NoFrame.known, issues, entries)
  BY DEF X!NoFrame, FixFrame, AreEntered
<1>3. QED
  BY <1>1, <1>2, FixCalls

LEMMA FixBegins ==
    ASSUME FixInv, NEW c \in Fixers, X!Crash(c) \/ X!Ask(c)
    PROVE  FixInv'
<1>1. AreEntered(X!Entered, issues, entries) /\ X!Entered \in SUBSET Nat
  <2>1. X!Entered \subseteq DOMAIN issues
    BY DEF X!Entered
  <2>2. DOMAIN issues \subseteq Nat
    BY DEF FixInv, FixTypes
  <2>3. QED
    BY <2>1, <2>2 DEF FixInv, AreEntered, X!Entered
<1>2. CASE X!Crash(c)
  <2> DEFINE f == [X!NoFrame EXCEPT !.auto = TRUE, !.known = X!Entered]
  <2>1. f \in FixFrame /\ f.known = X!Entered
    BY <1>1 DEF X!NoFrame, FixFrame
  <2>2. /\ fixFrame' = [fixFrame EXCEPT ![c] = f]
        /\ fixPc' = [fixPc EXCEPT ![c] = "cooldown"]
        /\ UNCHANGED <<now, entries, issues>>
    BY <1>2 DEF X!Crash, X!Goto
  <2> HIDE DEF f
  <2>3. fixFrame'[c] = f /\ fixPc'[c] = "cooldown"
    BY <2>2 DEF FixInv, FixTypes
  <2>4. QED
    BY <1>1, <2>1, <2>2, <2>3, FixCalls
<1>3. CASE X!Ask(c)
  <2>1. /\ fixFrame' = fixFrame
        /\ fixPc' = [fixPc EXCEPT ![c] = "diagnose"]
        /\ UNCHANGED <<now, entries, issues>>
        /\ ~fixFrame[c].auto
    BY <1>3 DEF X!Ask, X!Goto, FixInv
  <2>2. fixFrame[c] \in FixFrame /\ fixPc'[c] = "diagnose"
        /\ fixFrame' = [fixFrame EXCEPT ![c] = fixFrame'[c]]
    BY <2>1 DEF FixInv, FixTypes
  <2>3. AreEntered(fixFrame[c].known, issues, entries)
    BY DEF FixInv
  <2>4. QED
    BY <2>1, <2>2, <2>3, FixCalls
<1>4. QED
  BY <1>2, <1>3

\* Every issue known to a call that passes has an entry too old to stop it.
LEMMA FixChecks ==
    ASSUME FixInv, NEW c \in Fixers, X!Check(c)
    PROVE  FixInv'
<1>1. CASE \E t \in entries : t + Cooldown >= now
  BY <1>1, FixReturns DEF X!Check
<1>2. CASE ~ \E t \in entries : t + Cooldown >= now
  <2>1. /\ fixFrame' = fixFrame
        /\ fixPc' = [fixPc EXCEPT ![c] = "diagnose"]
        /\ UNCHANGED <<now, entries, issues>>
    BY <1>2 DEF X!Check, X!Goto
  <2>2. fixFrame[c] \in FixFrame /\ fixPc'[c] = "diagnose"
        /\ fixFrame' = [fixFrame EXCEPT ![c] = fixFrame'[c]]
    BY <2>1 DEF FixInv, FixTypes
  <2>3. AreEntered(fixFrame[c].known, issues, entries)
    BY DEF FixInv
  <2>4. LongBefore(fixFrame[c].known, issues, now)
    <3> SUFFICES ASSUME NEW i \in fixFrame[c].known
                 PROVE  issues[i].entry + Cooldown < now
      BY DEF LongBefore
    <3>1. issues[i].entry \in entries /\ issues[i].entry \in Nat
      BY <2>3 DEF AreEntered, FixInv, FixTypes
    <3>2. ~(issues[i].entry + Cooldown >= now)
      BY <1>2, <3>1
    <3>3. now \in Nat /\ Cooldown \in Nat
      BY ServicesAssumption DEF FixInv, FixTypes, X!CooldownAssumption
    <3>4. QED
      BY <3>1, <3>2, <3>3
  <2>5. QED
    BY <2>1, <2>2, <2>3, <2>4, FixCalls
<1>3. QED
  BY <1>1, <1>2

LEMMA FixDiagnoses ==
    ASSUME FixInv, NEW c \in Fixers, NEW ok \in BOOLEAN, X!Diagnose(c, ok)
    PROVE  FixInv'
<1>1. CASE ~ok
  BY <1>1, FixReturns DEF X!Diagnose
<1>2. CASE ok
  <2>1. /\ fixFrame' = fixFrame /\ fixPc[c] = "diagnose"
        /\ fixPc' = [fixPc EXCEPT ![c] = "file"]
        /\ UNCHANGED <<now, entries, issues>>
    BY <1>2 DEF X!Diagnose, X!Goto
  <2>2. fixFrame[c] \in FixFrame /\ fixPc'[c] = "file"
        /\ fixFrame' = [fixFrame EXCEPT ![c] = fixFrame'[c]]
    BY <2>1 DEF FixInv, FixTypes
  <2>3. /\ AreEntered(fixFrame[c].known, issues, entries)
        /\ fixFrame[c].auto => LongBefore(fixFrame[c].known, issues, now)
    BY <2>1 DEF FixInv
  <2>4. QED
    BY <2>1, <2>2, <2>3, FixCalls
<1>3. QED
  BY <1>1, <1>2

\* createIssue appends an issue that has no entry yet.
LEMMA FixFiles ==
    ASSUME FixInv, NEW c \in Fixers, NEW outcome \in {"done", "refused", "lost"},
           X!File(c, outcome)
    PROVE  FixInv'
<1>1. CASE outcome = "refused"
  BY <1>1, FixReturns DEF X!File
<1>2. CASE outcome # "refused"
  <2> DEFINE n == Len(issues) + 1
             i == [auto |-> fixFrame[c].auto, at |-> now, entry |-> None,
                   known |-> fixFrame[c].known]
  <2>1. /\ issues' = Append(issues, i)
        /\ fixPc[c] = "file"
        /\ UNCHANGED <<now, entries>>
    BY <1>2 DEF X!File
  <2>2. i \in Issue /\ Len(issues) \in Nat /\ issues \in Seq(Issue)
    BY DEF FixInv, FixTypes, Issue, FixFrame
  <2>3. /\ issues' \in Seq(Issue) /\ Len(issues') = n
        /\ DOMAIN issues = 1 .. Len(issues) /\ DOMAIN issues' = 1 .. n
        /\ \A j \in DOMAIN issues : issues'[j] = issues[j]
        /\ issues'[n] = i
    BY <2>1, <2>2, AppendProperties
  <2>4. i.entry = None /\ i.at = now /\ i.known = fixFrame[c].known
        /\ i.auto = fixFrame[c].auto
    OBVIOUS
  <2> HIDE DEF i
  <2>5. /\ n \in DOMAIN issues' /\ n \notin DOMAIN issues
        /\ \A j \in DOMAIN issues' : j \in DOMAIN issues \/ j = n
        /\ \A j \in DOMAIN issues : j \in DOMAIN issues'
    BY <2>2, <2>3
  <2>6. PICK label \in {"record", "idle"}, f \in FixFrame :
            /\ fixPc' = [fixPc EXCEPT ![c] = label]
            /\ fixFrame' = [fixFrame EXCEPT ![c] = f]
            /\ \/ /\ label = "record"
                  /\ f.issue = n /\ f.known = fixFrame[c].known
               \/ /\ label = "idle"
                  /\ f = X!NoFrame
    <3>1. CASE outcome = "done"
      <4> DEFINE g == [fixFrame[c] EXCEPT !.issue = n]
      <4>1. fixFrame[c] \in FixFrame
        BY DEF FixInv, FixTypes
      <4>2. g \in FixFrame /\ g.issue = n /\ g.known = fixFrame[c].known
        BY <2>2, <4>1 DEF FixFrame
      <4>3. /\ fixPc' = [fixPc EXCEPT ![c] = "record"]
            /\ fixFrame' = [fixFrame EXCEPT ![c] = g]
        BY <2>3, <3>1 DEF X!File, X!Goto
      <4> HIDE DEF g
      <4>4. QED
        BY <4>2, <4>3
    <3>2. CASE outcome # "done"
      <4>1. X!NoFrame \in FixFrame
        BY DEF X!NoFrame, FixFrame
      <4>2. /\ fixPc' = [fixPc EXCEPT ![c] = "idle"]
            /\ fixFrame' = [fixFrame EXCEPT ![c] = X!NoFrame]
        BY <3>2 DEF X!File, X!Goto, X!Return
      <4>3. QED
        BY <4>1, <4>2
    <3>3. QED
      BY <3>1, <3>2
  <2>7. /\ \A d \in Fixers : d # c => UNCHANGED <<fixPc[d], fixFrame[d]>>
        /\ fixPc'[c] \in {"record", "idle"}
        /\ fixPc'[c] = "record" => fixFrame'[c].issue = n
        /\ fixPc'[c] = "idle" => fixFrame'[c] = X!NoFrame
        /\ \/ /\ fixPc'[c] = "record"
              /\ fixFrame'[c].known = fixFrame[c].known
           \/ fixFrame'[c] = X!NoFrame
    BY <2>6 DEF FixInv, FixTypes
  <2>8. /\ fixPc' \in [Fixers -> {"idle", "cooldown", "diagnose", "file", "record"}]
        /\ fixFrame' \in [Fixers -> FixFrame]
    BY <2>6 DEF FixInv, FixTypes
  <2>9. FixTypes'
    BY <2>1, <2>3, <2>8 DEF FixInv, FixTypes
  <2>10. /\ \A S : AreEntered(S, issues, entries) => AreEntered(S, issues', entries')
         /\ \A S : AreEntered(S, issues, entries) /\ LongBefore(S, issues, now)
                       => LongBefore(S, issues', now')
    BY <2>1, <2>3, <2>5 DEF AreEntered, LongBefore
  <2>11. ~X!NoFrame.auto /\ AreEntered(X!NoFrame.known, issues, entries)
    BY DEF X!NoFrame, AreEntered
  <2>12. \A d \in Fixers :
             /\ fixPc'[d] = "idle" => ~fixFrame'[d].auto
             /\ AreEntered(fixFrame'[d].known, issues, entries)
             /\ (fixPc'[d] \in {"diagnose", "file"} /\ fixFrame'[d].auto)
                   => LongBefore(fixFrame'[d].known, issues, now)
             /\ fixPc'[d] = "record" =>
                   /\ fixFrame'[d].issue \in DOMAIN issues'
                   /\ issues'[fixFrame'[d].issue].entry = None
                   /\ d # c => fixFrame'[d].issue \in DOMAIN issues
    BY <2>3, <2>4, <2>5, <2>7, <2>11 DEF FixInv
  <2>13. \A d \in Fixers :
             /\ AreEntered(fixFrame'[d].known, issues', entries')
             /\ (fixPc'[d] \in {"diagnose", "file"} /\ fixFrame'[d].auto)
                   => LongBefore(fixFrame'[d].known, issues', now')
    BY <2>10, <2>12
  <2>14. \A d, e \in Fixers :
             (fixPc'[d] = "record" /\ fixPc'[e] = "record" /\ d # e)
                 => fixFrame'[d].issue # fixFrame'[e].issue
    BY <2>5, <2>7, <2>12 DEF FixInv
  <2>15. AreEntered(i.known, issues', entries') /\ (i.auto => LongBefore(i.known, issues', now'))
    BY <2>1, <2>4, <2>10 DEF FixInv
  <2>16. \A j \in DOMAIN issues' :
             /\ issues'[j].entry # None => issues'[j].entry \in entries'
             /\ AreEntered(issues'[j].known, issues', entries')
    BY <2>1, <2>3, <2>4, <2>5, <2>10, <2>15 DEF FixInv
  <2>17. X!FixesAreSpaced'
    <3> SUFFICES ASSUME NEW j \in DOMAIN issues', issues'[j].auto,
                        NEW k \in issues'[j].known
                 PROVE  issues'[k].entry + Cooldown < issues'[j].at
      BY DEF X!FixesAreSpaced
    <3>1. CASE j = n
      BY <2>1, <2>3, <2>4, <2>15, <3>1 DEF LongBefore
    <3>2. CASE j \in DOMAIN issues
      <4>1. k \in DOMAIN issues
        BY <2>3, <3>2 DEF FixInv, AreEntered
      <4>2. QED
        BY <2>3, <3>2, <4>1 DEF FixInv, X!FixesAreSpaced
    <3>3. QED
      BY <2>5, <3>1, <3>2
  <2>18. QED
    BY <2>1, <2>9, <2>12, <2>13, <2>14, <2>16, <2>17 DEF FixInv
<1>3. QED
  BY <1>1, <1>2

\* The entry goes to an issue that nobody knows yet.
LEMMA FixRecords ==
    ASSUME FixInv, NEW c \in Fixers, NEW ok \in BOOLEAN, X!Record(c, ok)
    PROVE  FixInv'
<1>1. CASE ~ok
  BY <1>1, FixReturns DEF X!Record
<1>2. CASE ok
  <2>1. PICK n \in DOMAIN issues : n = fixFrame[c].issue /\ issues[n].entry = None
    BY DEF FixInv, X!Record
  <2>2. /\ fixPc[c] = "record"
        /\ entries' = entries \cup {now}
        /\ issues' = [issues EXCEPT ![n].entry = now]
        /\ now' = now /\ now \in Nat
        /\ fixPc' = [fixPc EXCEPT ![c] = "idle"]
        /\ fixFrame' = [fixFrame EXCEPT ![c] = X!NoFrame]
    BY <1>2, <2>1 DEF X!Record, X!Return, X!Goto, FixInv, FixTypes
  <2>3. /\ issues \in Seq(Issue) /\ issues[n] \in Issue
        /\ [issues[n] EXCEPT !.entry = now] \in Issue
    <3>1. issues \in Seq(Issue)
      BY DEF FixInv, FixTypes
    <3>2. issues[n] \in Issue
      BY <3>1
    <3>3. [issues[n] EXCEPT !.entry = now] \in Issue
      BY <2>2, <3>2 DEF Issue
    <3>4. QED
      BY <3>1, <3>2, <3>3
  <2>4. /\ issues' \in Seq(Issue) /\ DOMAIN issues' = DOMAIN issues
        /\ \A j \in DOMAIN issues : j # n => issues'[j] = issues[j]
        /\ issues'[n] = [issues[n] EXCEPT !.entry = now]
    BY <2>2, <2>3
  <2>5. /\ issues'[n].entry = now /\ issues'[n].at = issues[n].at
        /\ issues'[n].auto = issues[n].auto /\ issues'[n].known = issues[n].known
    BY <2>3, <2>4 DEF Issue
  <2>6. /\ \A d \in Fixers : d # c => fixPc'[d] = fixPc[d] /\ fixFrame'[d] = fixFrame[d]
        /\ fixPc'[c] = "idle" /\ fixFrame'[c] = X!NoFrame
        /\ ~X!NoFrame.auto /\ X!NoFrame.known = {}
        /\ X!NoFrame \in FixFrame
    BY <2>2 DEF FixInv, FixTypes, X!NoFrame, FixFrame
  <2>7. FixTypes'
    BY <2>2, <2>4, <2>6 DEF FixInv, FixTypes
  <2>8. \A S : AreEntered(S, issues, entries) => n \notin S /\ AreEntered(S, issues', entries')
    BY <2>1, <2>2, <2>4 DEF AreEntered
  <2>9. \A S : AreEntered(S, issues, entries) /\ LongBefore(S, issues, now)
                   => LongBefore(S, issues', now')
    <3> SUFFICES ASSUME NEW S, AreEntered(S, issues, entries),
                        LongBefore(S, issues, now), NEW k \in S
                 PROVE  issues'[k].entry + Cooldown < now
      BY <2>2 DEF LongBefore
    <3>1. issues'[k] = issues[k]
      BY <2>4, <2>8 DEF AreEntered
    <3>2. QED
      BY <3>1 DEF LongBefore
  <2>10. \A d \in Fixers :
             /\ fixPc'[d] = "idle" => ~fixFrame'[d].auto
             /\ AreEntered(fixFrame'[d].known, issues, entries)
             /\ (fixPc'[d] \in {"diagnose", "file"} /\ fixFrame'[d].auto)
                   => LongBefore(fixFrame'[d].known, issues, now)
             /\ fixPc'[d] = "record" =>
                   /\ d # c /\ fixPc[d] = "record"
                   /\ fixFrame'[d].issue \in DOMAIN issues
                   /\ fixFrame'[d].issue # n
                   /\ issues[fixFrame'[d].issue].entry = None
    <3>1. AreEntered({}, issues, entries)
      BY DEF AreEntered
    <3>2. \A d \in Fixers : d # c /\ fixPc[d] = "record" => fixFrame[d].issue # n
      BY <2>1, <2>2 DEF FixInv
    <3>3. QED
      BY <2>6, <3>1, <3>2 DEF FixInv
  <2>11. \A d \in Fixers :
             /\ AreEntered(fixFrame'[d].known, issues', entries')
             /\ (fixPc'[d] \in {"diagnose", "file"} /\ fixFrame'[d].auto)
                   => LongBefore(fixFrame'[d].known, issues', now')
             /\ fixPc'[d] = "record" =>
                   /\ fixFrame'[d].issue \in DOMAIN issues'
                   /\ issues'[fixFrame'[d].issue].entry = None
    BY <2>4, <2>8, <2>9, <2>10
  <2>12. \A d, e \in Fixers :
             (fixPc'[d] = "record" /\ fixPc'[e] = "record" /\ d # e)
                 => fixFrame'[d].issue # fixFrame'[e].issue
    BY <2>6, <2>10 DEF FixInv
  <2>13. \A j \in DOMAIN issues' :
             /\ issues'[j].entry # None => issues'[j].entry \in entries'
             /\ AreEntered(issues'[j].known, issues', entries')
    <3> TAKE j \in DOMAIN issues'
    <3>1. j \in DOMAIN issues /\ issues'[j].known = issues[j].known
      BY <2>4, <2>5
    <3>2. AreEntered(issues[j].known, issues', entries')
      BY <2>8, <3>1 DEF FixInv
    <3>3. issues'[j].entry # None => issues'[j].entry \in entries'
      BY <2>2, <2>4, <2>5, <3>1 DEF FixInv
    <3>4. QED
      BY <3>1, <3>2, <3>3
  <2>14. X!FixesAreSpaced'
    <3> SUFFICES ASSUME NEW j \in DOMAIN issues', issues'[j].auto,
                        NEW k \in issues'[j].known
                 PROVE  issues'[k].entry + Cooldown < issues'[j].at
      BY DEF X!FixesAreSpaced
    <3>1. /\ j \in DOMAIN issues /\ issues[j].auto /\ k \in issues[j].known
          /\ issues'[j].at = issues[j].at
      BY <2>4, <2>5
    <3>2. AreEntered(issues[j].known, issues, entries)
      BY <3>1 DEF FixInv
    <3>3. issues'[k] = issues[k]
      BY <2>4, <2>8, <3>1, <3>2 DEF AreEntered
    <3>4. QED
      BY <3>1, <3>3 DEF FixInv, X!FixesAreSpaced
  <2>15. QED
    BY <2>2, <2>7, <2>10, <2>11, <2>12, <2>13, <2>14 DEF FixInv
<1>3. QED
  BY <1>1, <1>2

LEMMA NextFix ==
    ASSUME FixInv, X!Next \/ UNCHANGED fixVars
    PROVE  FixInv'
<1>1. CASE X!Tick
  BY <1>1, FixTick
<1>2. ASSUME NEW c \in Fixers, X!Abandon(c)
      PROVE  FixInv'
  BY <1>2, FixReturns DEF X!Abandon
<1>3. CASE UNCHANGED fixVars
  BY <1>3 DEF fixVars, FixInv, FixTypes, AreEntered, LongBefore, X!FixesAreSpaced
<1>4. QED
  BY <1>1, <1>2, <1>3, FixBegins, FixChecks, FixDiagnoses, FixFiles, FixRecords
     DEF X!Next

\* However many crashes, passes and operators there are, an issue that the
\* service files by itself is more than a cooldown younger than those whose
\* entries were there when its call began (maybeAutoFileFixForSnapshot).
THEOREM AutomaticFixesAreSpaced == Spec => []FixesAreSpaced
<1>1. Init => FixInv
  BY InitFix DEF Init
<1>2. FixInv /\ [Next]_vars => FixInv'
  BY NextFix, OneMoves
<1>3. FixInv => FixesAreSpaced
  BY DEF FixInv, FixesAreSpaced
<1>4. QED
  BY <1>1, <1>2, <1>3, PTL DEF Spec
=============================================================================
