----------------------------- MODULE InvoiceBook ----------------------------
(***************************************************************************)
(* What the ledger of a Stripe subscription promises, whatever order the   *)
(* events come in: a cycle is entered once, after it was paid, and an      *)
(* entry is never changed.                                                 *)
(***************************************************************************)
EXTENDS Sequences

CONSTANTS
    Invoices,    \* invoices of the subscription
    Events       \* names of events

VARIABLES
    paid,        \* the invoices that are paid
    book         \* the entries, in order: an invoice and the event that reported it

vars == <<paid, book>>

Init ==
    /\ paid = {}
    /\ book = <<>>

PayInvoice(i) ==
    /\ paid' = paid \union {i}
    /\ UNCHANGED book

Enter(i, e) ==
    /\ i \in paid
    /\ \A b \in DOMAIN book : book[b].inv # i
    /\ book' = Append(book, [inv |-> i, event |-> e])
    /\ UNCHANGED paid

Next ==
    \/ \E i \in Invoices : PayInvoice(i)
    \/ \E i \in Invoices, e \in Events : Enter(i, e)

Spec == Init /\ [][Next]_vars
=============================================================================
