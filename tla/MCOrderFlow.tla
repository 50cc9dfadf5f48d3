---------------------------- MODULE MCOrderFlow ----------------------------
(* Two orders of one company, the second from a free mailbox. *)
EXTENDS OrderFlow

CONSTANTS o1, o2

Acme(mail) == [typedDomain |-> "acme.com", emailDomain |-> mail,
               cage |-> None, company |-> "Acme"]

MCCompany == [o \in Orders |-> Acme(IF o = o1 THEN "acme.com" ELSE "gmail.com")]
MCFree    == {"gmail.com"}
=============================================================================
