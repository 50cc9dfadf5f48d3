------------------------ MODULE QuickbooksConnection ------------------------
(***************************************************************************)
(* The connection to QuickBooks: lib/integrations/quickbooks/              *)
(* connection-service.ts and the callback and disconnect routes.           *)
(*                                                                         *)
(* At most one row is to be active; it holds the refresh token of its      *)
(* company (realm).  Intuit rotates that token at every refresh and takes  *)
(* only the newest, so whatever is rotated must be stored.  A step is one  *)
(* awaited call; requests interleave and may die in between.               *)
(*                                                                         *)
(* External: Intuit issues, rotates and revokes tokens, may refuse, and    *)
(* its answer may be lost.  Out of the model: access tokens and their      *)
(* expiry (whether a request finds one fresh is a choice), encryption,     *)
(* scopes, the state cookie.                                               *)
(***************************************************************************)
EXTENDS Naturals

CONSTANTS
    Calls,    \* slots for requests
    Realms,   \* QuickBooks companies
    MaxTokens \* bound: refresh tokens issued per company

TokenAssumption == MaxTokens \in Nat /\ "none" \notin Realms

VARIABLES
    row,     \* [Realms -> the QuickbooksConnection row, or NoRow]
    newer,   \* pairs <<r, s>>: the row of company r was updated after that of s
    issued,  \* Intuit: the number of the newest refresh token
    revoked, \* Intuit: companies whose newest token was revoked
    pc, frame,
    \* history
    wanted,   \* the company connected last, "none" once it was disconnected
    disturbed \* no request has stored a new connection all by itself since two
              \* overlapped, one died or an answer of Intuit was lost

vars == <<row, newer, issued, revoked, pc, frame, wanted, disturbed>>

NoRow   == [stored |-> FALSE, active |-> FALSE, token |-> 0, error |-> FALSE]
NoFrame == [op |-> "none", realm |-> "none", token |-> 0, alone |-> FALSE]

Goto(c, label) == pc' = [pc EXCEPT ![c] = label]
Return(c) == Goto(c, "idle") /\ frame' = [frame EXCEPT ![c] = NoFrame]
Busy == {c \in Calls : pc[c] # "idle"}

\* A request begins with frame f: those under way no longer run alone.
Begin(c, label, f) ==
    /\ pc[c] = "idle"
    /\ frame' = [x \in Calls |-> IF x = c THEN [f EXCEPT !.alone = Busy = {}]
                                 ELSE [frame[x] EXCEPT !.alone = FALSE]]
    /\ disturbed' = (disturbed \/ Busy # {})
    /\ Goto(c, label)

\* getActiveConnection: of the active rows the one updated last.
Active == {r \in Realms : row[r].active}
Latest == {r \in Active : \A s \in Active : <<s, r>> \notin newer}

\* One statement updates the rows of some companies, at one time.
Touch(rows) ==
    newer' = (newer \ (Realms \X rows)) \cup (rows \X ({s \in Realms : row[s].stored} \ rows))

-----------------------------------------------------------------------------
\* The callback: Intuit exchanges the code for tokens, or does not.
Connect(c, r, ok) ==
    /\ issued[r] < MaxTokens
    /\ IF ok
       THEN /\ issued' = [issued EXCEPT ![r] = @ + 1]
            /\ revoked' = revoked \ {r}
            /\ Begin(c, "deactivate", [NoFrame EXCEPT !.op = "connect", !.realm = r,
                                           !.token = issued[r] + 1])
       ELSE pc[c] = "idle" /\ UNCHANGED <<issued, revoked, pc, frame, disturbed>>
    /\ UNCHANGED <<row, newer, wanted>>

\* getLiveConnection reads the active row, if there is one; its access token is
\* about to expire.  (With a fresh one nothing else happens.)
NeedRefresh(c) ==
    /\ \E r \in Latest :
       Begin(c, "refresh", [NoFrame EXCEPT !.op = "refresh", !.realm = r,
                               !.token = row[r].token])
    /\ UNCHANGED <<row, newer, issued, revoked, wanted>>

\* Intuit answers with the next token if this is the newest and still good; or
\* it refuses; or the answer is lost after the rotation.
Refresh(c, outcome) ==
    LET r == frame[c].realm IN
    /\ pc[c] = "refresh"
    /\ outcome \in {"done", "lost"} =>
          frame[c].token = issued[r] /\ r \notin revoked /\ issued[r] < MaxTokens
    /\ issued' = IF outcome = "refused" THEN issued ELSE [issued EXCEPT ![r] = @ + 1]
    /\ frame' = IF outcome = "done" THEN [frame EXCEPT ![c].token = issued[r] + 1]
                ELSE frame
    /\ disturbed' = (disturbed \/ outcome = "lost")
    /\ Goto(c, IF outcome = "done" THEN "deactivate" ELSE "record")
    /\ UNCHANGED <<row, newer, revoked, wanted>>

\* persistTokens: first the active rows of other companies ...
Deactivate(c) ==
    LET others == {r \in Realms \ {frame[c].realm} : row[r].active} IN
    /\ pc[c] = "deactivate"
    /\ row' = [r \in Realms |-> IF r \in others THEN [row[r] EXCEPT !.active = FALSE]
                                ELSE row[r]]
    /\ Touch(others)
    /\ Goto(c, "upsert")
    /\ UNCHANGED <<issued, revoked, frame, wanted, disturbed>>

\* Mutant: A company that is connected again keeps its flag.
UpsertInactive(c) ==
    LET r == frame[c].realm IN
    /\ pc[c] = "upsert"
    /\ row' = [row EXCEPT ![r] = [stored |-> TRUE, active |-> row[r].active \/ ~row[r].stored,
                                  token |-> frame[c].token, error |-> FALSE]]
    /\ Touch({r})
    /\ wanted' = IF frame[c].op = "connect" THEN r ELSE wanted
    /\ disturbed' = (disturbed /\ ~(frame[c].op = "connect" /\ frame[c].alone))
    /\ Return(c)
    /\ UNCHANGED <<issued, revoked>>

\* ... then the row itself, active whatever it was.
Upsert(c) ==
    LET r == frame[c].realm IN
    /\ pc[c] = "upsert"
    /\ row' = [row EXCEPT ![r] = [stored |-> TRUE, active |-> TRUE,
                                  token |-> frame[c].token, error |-> FALSE]]
    /\ Touch({r})
    /\ wanted' = IF frame[c].op = "connect" THEN r ELSE wanted
    /\ disturbed' = (disturbed /\ ~(frame[c].op = "connect" /\ frame[c].alone))
    /\ Return(c)
    /\ UNCHANGED <<issued, revoked>>

\* A refresh that failed leaves its message on the row.
RecordRefreshError(c) ==
    /\ pc[c] = "record"
    /\ row' = [row EXCEPT ![frame[c].realm].error = TRUE]
    /\ Touch({frame[c].realm})
    /\ Return(c)
    /\ UNCHANGED <<issued, revoked, wanted, disturbed>>

\* The disconnect route: read, revoke (best effort), deactivate.
Disconnect(c) ==
    /\ \E r \in Latest :
       Begin(c, "revoke", [NoFrame EXCEPT !.op = "disconnect", !.realm = r,
                              !.token = row[r].token])
    /\ UNCHANGED <<row, newer, issued, revoked, wanted>>

Revoke(c, ok) ==
    LET r == frame[c].realm IN
    /\ pc[c] = "revoke"
    /\ revoked' = IF ok /\ frame[c].token = issued[r] THEN revoked \cup {r} ELSE revoked
    /\ Goto(c, "off")
    /\ UNCHANGED <<row, newer, issued, frame, wanted, disturbed>>

DeactivateConnection(c) ==
    /\ pc[c] = "off"
    /\ row' = [row EXCEPT ![frame[c].realm].active = FALSE]
    /\ Touch({frame[c].realm})
    /\ Return(c)
    /\ wanted' = "none"
    /\ UNCHANGED <<issued, revoked, disturbed>>

\* A statement throws, or the process dies.
Abandon(c) ==
    /\ pc[c] # "idle"
    /\ disturbed' = TRUE
    /\ Return(c)
    /\ UNCHANGED <<row, newer, issued, revoked, wanted>>

Init ==
    /\ row = [r \in Realms |-> NoRow]
    /\ newer = {}
    /\ issued = [r \in Realms |-> 0]
    /\ revoked = {}
    /\ pc = [c \in Calls |-> "idle"]
    /\ frame = [c \in Calls |-> NoFrame]
    /\ wanted = "none" /\ disturbed = FALSE

Next ==
    \E c \in Calls :
        \/ \E r \in Realms, ok \in BOOLEAN : Connect(c, r, ok)
        \/ NeedRefresh(c) \/ Disconnect(c)
        \/ \E outcome \in {"done", "refused", "lost"} : Refresh(c, outcome)
        \/ Deactivate(c) \/ Upsert(c) \/ RecordRefreshError(c)
        \/ \E ok \in BOOLEAN : Revoke(c, ok)
        \/ DeactivateConnection(c) \/ Abandon(c)

Spec == Init /\ [][Next]_vars

-----------------------------------------------------------------------------
\* What each variable may hold.
TypeOK ==
    /\ \A r \in Realms : row[r].token \in 0..issued[r] /\ row[r].stored = (row[r].token # 0)
    /\ newer \subseteq Realms \X Realms
    /\ \A r, s \in Realms :
          <<r, s>> \in newer => row[r].stored /\ row[s].stored /\ <<s, r>> \notin newer
    /\ revoked \subseteq Realms
    /\ \A c \in Calls : (pc[c] = "idle") = (frame[c] = NoFrame)

\* The connection the books rest on is good: with nobody at work the company
\* that was connected last, and no other, is active until it is disconnected,
\* however often its tokens were refreshed, and its row has the token Intuit
\* issued last, which was not revoked, so that the next refresh is accepted.
\* Overlap, deaths and lost answers can break that, but connecting anew, all by
\* itself, restores it.
ConnectionIsGood ==
    Busy = {} /\ ~disturbed =>
        /\ Active = {wanted} \ {"none"}
        /\ \A r \in Active : row[r].token = issued[r] /\ r \notin revoked
=============================================================================
