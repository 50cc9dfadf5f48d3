------------------------------- MODULE ApiKeys -------------------------------
(***************************************************************************)
(* API keys, api-key-service.ts: issued, rotated into a successor,         *)
(* revoked, verified.  A line is a key with everything rotated from it.    *)
(*                                                                         *)
(* A step is one awaited statement.  Out of the model: hashes, names, the  *)
(* time a key was last used; scopes, app and expiry, which a successor has *)
(* from its predecessor; audit entries, which follow the writes.           *)
(***************************************************************************)
EXTENDS FiniteSets, Naturals

CONSTANTS
    Calls, \* slots for operators' calls
    Keys,  \* ids; the bound on what is ever issued
    None

ApiKeysAssumption == None \notin Keys

VARIABLES
    line,      \* the first key of each key's line, None before it is issued
    active,    \* keys whose status is active; the others issued are revoked
    disturbed, \* history: lines that two calls worked on at once, or whose
               \* rotation stopped between its writes
    pc, key    \* of calls: where it is, and the key it is about

vars == <<line, active, disturbed, pc, key>>

Issued == {k \in Keys : line[k] # None}
Live(l) == {k \in active : line[k] = l}
Working(l) == {c \in Calls : key[c] # None /\ line[key[c]] = l}

Begin(c, k, label) ==
    /\ pc[c] = "idle" /\ k \in Issued
    /\ pc' = [pc EXCEPT ![c] = label] /\ key' = [key EXCEPT ![c] = k]
    /\ disturbed' = IF Working(line[k]) = {} THEN disturbed ELSE disturbed \cup {line[k]}
    /\ UNCHANGED <<line, active>>

Return(c) == pc' = [pc EXCEPT ![c] = "idle"] /\ key' = [key EXCEPT ![c] = None]

\* A new row, active.
Insert(k, l) ==
    /\ k \notin Issued
    /\ line' = [line EXCEPT ![k] = l] /\ active' = active \cup {k}

\* The update of a status, which is the last write of a call.
SetRevoked(c) ==
    /\ active' = active \ {key[c]} /\ Return(c)
    /\ UNCHANGED <<line, disturbed>>

-----------------------------------------------------------------------------
CreateApiKey(k) == Insert(k, k) /\ UNCHANGED <<disturbed, pc, key>>

\* Mutant: A key that was revoked can be rotated.
RotateAnyKey(c, k) == Begin(c, k, "issue")

\* rotateApiKey: the key as it is now, which must not be revoked ...
LoadForRotation(c, k) == k \in active /\ Begin(c, k, "issue")

\* ... its successor, from here on active next to it ...
IssueSuccessor(c, k) ==
    /\ pc[c] = "issue" /\ Insert(k, line[key[c]])
    /\ pc' = [pc EXCEPT ![c] = "revoke"]
    /\ UNCHANGED <<disturbed, key>>

\* ... and its end, before the answer has the successor's plaintext.
RevokePredecessor(c) == pc[c] = "revoke" /\ SetRevoked(c)

\* revokeApiKey, which does not look at the key first.
BeginRevocation(c, k) == Begin(c, k, "withdraw")
RevokeApiKey(c) == pc[c] = "withdraw" /\ SetRevoked(c)

\* A statement throws, or the process dies.
Abandon(c) ==
    /\ pc[c] # "idle" /\ Return(c)
    /\ disturbed' = IF pc[c] = "revoke" THEN disturbed \cup {line[key[c]]} ELSE disturbed
    /\ UNCHANGED <<line, active>>

Init ==
    /\ line = [k \in Keys |-> None] /\ active = {} /\ disturbed = {}
    /\ pc = [c \in Calls |-> "idle"] /\ key = [c \in Calls |-> None]

Next ==
    \/ \E k \in Keys : CreateApiKey(k)
    \/ \E c \in Calls :
          \/ \E k \in Keys : LoadForRotation(c, k) \/ IssueSuccessor(c, k) \/ BeginRevocation(c, k)
          \/ RevokePredecessor(c) \/ RevokeApiKey(c) \/ Abandon(c)

Spec == Init /\ [][Next]_vars

-----------------------------------------------------------------------------
\* What each variable may hold.
TypeOK ==
    /\ line \in [Keys -> Keys \cup {None}] /\ active \subseteq Issued
    /\ disturbed \subseteq Issued
    /\ \A c \in Calls : (pc[c] = "idle") = (key[c] = None)

\* Revocation is final and rotation is no way around it: a line whose live key
\* was revoked never has a live key again, and a line has one live key except
\* between the two writes of its rotation.  A line with two calls at once is
\* exempt (its key may be revoked after the rotation read it, and live on in
\* the successor), as is one whose rotation stopped half-way.
LinesEnd ==
    [][\A l \in Keys \ disturbed' :
          /\ (line[l] # None /\ Live(l) = {}) => Live(l)' = {}
          /\ Cardinality(Live(l)') <=
                IF \E c \in Calls : pc'[c] = "revoke" /\ line'[key'[c]] = l THEN 2 ELSE 1]_vars
=============================================================================
