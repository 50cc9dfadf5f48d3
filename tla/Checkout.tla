------------------------------ MODULE Checkout ------------------------------
(***************************************************************************)
(* Checkout: lib/services/checkout-service.ts.  A submission becomes an    *)
(* order, then an invoice in QuickBooks (and, for a subscription, a        *)
(* recurring template), then the invoice's id on the order, by which       *)
(* payments are recognised later (OrderFlow).  The marketing site repeats  *)
(* a submission under the same idempotency key.                            *)
(*                                                                         *)
(* QuickBooks may refuse a request, or do it and have its answer lost.     *)
(* Out of the model: prices, names, e-mails that announce an invoice, and  *)
(* the customer and the item, which are found or created by name: only     *)
(* that they can fail.                                                     *)
(***************************************************************************)
EXTENDS Naturals, FiniteSets

CONSTANTS
    Submissions, \* POSTs of the marketing site
    Keys,        \* idempotency keys
    None

\* An answer is an order's submission, or none of them.
SubmissionsAssumption == None \notin Keys \cup Submissions /\ "error" \notin Submissions

VARIABLES
    order,     \* [Submissions -> the Order row it created, or NoOrder]
    invoices,  \* submissions for which QuickBooks holds an invoice
    templates, \* ... a recurring template
    pc, key,   \* of each submission, None without a key
    answer,    \* the submission whose order was returned, None, or "error"
    \* history
    overlapped,   \* keys under which two submissions ran at a time
    interrupted   \* submissions that died or lost an answer of QuickBooks

vars == <<order, invoices, templates, pc, key, answer, overlapped, interrupted>>

NoOrder == [status |-> "none", key |-> None, invoice |-> FALSE, template |-> FALSE]

Outcomes == {"done", "refused", "lost"}
Finished == {"new", "end"}
Running(k) == {s \in Submissions : pc[s] \notin Finished /\ key[s] = k}

Goto(s, label) == pc' = [pc EXCEPT ![s] = label]
Return(s, x) == Goto(s, "end") /\ answer' = [answer EXCEPT ![s] = x]

Interrupt(s, outcome) ==
    interrupted' = IF outcome = "lost" THEN interrupted \cup {s} ELSE interrupted

-----------------------------------------------------------------------------
Submit(s, k) ==
    /\ pc[s] = "new"
    /\ key' = [key EXCEPT ![s] = k]
    /\ overlapped' = IF k # None /\ Running(k) # {} THEN overlapped \cup {k}
                     ELSE overlapped
    /\ Goto(s, IF k = None THEN "package" ELSE "lookup")
    /\ UNCHANGED <<order, invoices, templates, answer, interrupted>>

\* Mutant: The key is not looked up.
LookupNothing(s) ==
    /\ pc[s] = "lookup"
    /\ Goto(s, "package") /\ UNCHANGED answer
    /\ UNCHANGED <<order, invoices, templates, key, overlapped, interrupted>>

\* Any order with the key, whatever became of it, is the answer.
Lookup(s) ==
    LET found == {o \in Submissions : order[o].key = key[s]} IN
    /\ pc[s] = "lookup"
    /\ IF found = {} THEN Goto(s, "package") /\ UNCHANGED answer
                     ELSE \E o \in found : Return(s, o)
    /\ UNCHANGED <<order, invoices, templates, key, overlapped, interrupted>>

\* The package is unknown or inactive, or the order is stored.
ReadPackage(s, active) ==
    /\ pc[s] = "package"
    /\ IF active THEN Goto(s, "order") /\ UNCHANGED answer ELSE Return(s, "error")
    /\ UNCHANGED <<order, invoices, templates, key, overlapped, interrupted>>

CreateOrder(s) ==
    /\ pc[s] = "order"
    /\ order' = [order EXCEPT ![s] = [NoOrder EXCEPT !.status = "pending", !.key = key[s]]]
    /\ Goto(s, "customer")
    /\ UNCHANGED <<invoices, templates, key, answer, overlapped, interrupted>>

\* findOrCreateCustomer and upsertItem.
Prepare(s, ok) ==
    /\ pc[s] \in {"customer", "item"}
    /\ Goto(s, IF ~ok THEN "fail" ELSE IF pc[s] = "customer" THEN "item" ELSE "invoice")
    /\ UNCHANGED <<order, invoices, templates, key, answer, overlapped, interrupted>>

\* issueOneTimeInvoice, or the first half of issueRecurring.
CreateInvoice(s, outcome, recurring) ==
    /\ pc[s] = "invoice"
    /\ invoices' = IF outcome = "refused" THEN invoices ELSE invoices \cup {s}
    /\ Goto(s, IF outcome # "done" THEN "fail"
               ELSE IF recurring THEN "template" ELSE "store")
    /\ Interrupt(s, outcome)
    /\ UNCHANGED <<order, templates, key, answer, overlapped>>

\* A template that could not be made does not stop the order.
CreateTemplate(s, outcome) ==
    /\ pc[s] = "template"
    /\ templates' = IF outcome = "refused" THEN templates ELSE templates \cup {s}
    /\ Goto(s, IF outcome = "done" THEN "store_both" ELSE "store")
    /\ Interrupt(s, outcome)
    /\ UNCHANGED <<order, invoices, key, answer, overlapped>>

StoreInvoice(s) ==
    /\ pc[s] \in {"store", "store_both"}
    /\ order' = [order EXCEPT ![s].status = "payment_pending", ![s].invoice = TRUE,
                              ![s].template = (pc[s] = "store_both")]
    /\ Return(s, s)
    /\ UNCHANGED <<invoices, templates, key, overlapped, interrupted>>

FailOrder(s) ==
    /\ pc[s] = "fail"
    /\ order' = [order EXCEPT ![s].status = "failed"]
    /\ Return(s, "error")
    /\ UNCHANGED <<invoices, templates, key, overlapped, interrupted>>

\* A statement throws, or the process dies: the caller sees an error.
Abandon(s) ==
    /\ pc[s] \notin Finished
    /\ Return(s, "error")
    /\ interrupted' = interrupted \cup {s}
    /\ UNCHANGED <<order, invoices, templates, key, overlapped>>

Init ==
    /\ order = [s \in Submissions |-> NoOrder]
    /\ invoices = {} /\ templates = {}
    /\ pc = [s \in Submissions |-> "new"]
    /\ key = [s \in Submissions |-> None]
    /\ answer = [s \in Submissions |-> None]
    /\ overlapped = {} /\ interrupted = {}

Next ==
    \E s \in Submissions :
        \/ \E k \in Keys \cup {None} : Submit(s, k)
        \/ Lookup(s) \/ CreateOrder(s) \/ StoreInvoice(s) \/ FailOrder(s) \/ Abandon(s)
        \/ \E ok \in BOOLEAN : ReadPackage(s, ok) \/ Prepare(s, ok)
        \/ \E outcome \in Outcomes :
              \/ \E recurring \in BOOLEAN : CreateInvoice(s, outcome, recurring)
              \/ CreateTemplate(s, outcome)

Spec == Init /\ [][Next]_vars

-----------------------------------------------------------------------------
\* What each variable may hold; a template is never made without an invoice.
TypeOK ==
    /\ \A s \in Submissions : order[s].status \in {"none", "pending", "failed", "payment_pending"}
    /\ templates \subseteq invoices /\ invoices \subseteq Submissions
    /\ overlapped \subseteq Keys /\ interrupted \subseteq Submissions
    /\ answer \in [Submissions -> Submissions \cup {None, "error"}]

\* A key buys once, and what was billed is known: submissions under one key, one
\* after the other, lead to one order and one invoice at most, whatever
\* failed, died or got lost in between, and all of them that are not refused are
\* answered with that order; and after a submission has ended every invoice and
\* template in QuickBooks is on its order, and every order awaiting payment has
\* its invoice, unless the submission died or an answer was lost.
CheckoutBillsOnce ==
    /\ \A k \in Keys \ overlapped :
          LET mine == {s \in Submissions : key[s] = k} IN
          /\ Cardinality({s \in mine : order[s] # NoOrder}) <= 1
          /\ Cardinality(invoices \cap mine) <= 1
          /\ \A s, t \in mine : {answer[s], answer[t]} \subseteq Submissions =>
                                    answer[s] = answer[t]
    /\ \A s \in Submissions : pc[s] = "end" =>
          /\ order[s].status = "payment_pending" => s \in invoices
          /\ s \notin interrupted =>
                /\ order[s].invoice = (s \in invoices)
                /\ order[s].template = (s \in templates)
                /\ order[s].status # "pending"
=============================================================================
