---------------------------- MODULE TicketLedger ----------------------------
(***************************************************************************)
(* What a sale promises about its tickets.  An order takes its tickets     *)
(* once, in one step with the stock, and only if there are enough; it      *)
(* gives them back at most once, all of them, and is then over.  How an    *)
(* order comes to be paid, to expire or to be refunded is not seen here.   *)
(***************************************************************************)
EXTENDS Integers

CONSTANTS
    OrderIds,
    Categories,
    TotalStock,     \* tickets each category starts with
    CategoryOf,     \* the category an order is for
    Quantity        \* and how many tickets it asks for

VARIABLES
    stock,          \* ticket_categories.availableStock
    holding,        \* orders whose tickets are taken
    closed          \* orders that gave them back

ledgerVars == <<stock, holding, closed>>

Init ==
    /\ stock = [c \in Categories |-> TotalStock[c]]
    /\ holding = {} /\ closed = {}

Take(o) ==
    /\ o \notin holding \cup closed
    /\ stock[CategoryOf[o]] >= Quantity[o]
    /\ stock' = [stock EXCEPT ![CategoryOf[o]] = @ - Quantity[o]]
    /\ holding' = holding \cup {o}
    /\ UNCHANGED closed

GiveBack(o) ==
    /\ o \in holding
    /\ stock' = [stock EXCEPT ![CategoryOf[o]] = @ + Quantity[o]]
    /\ holding' = holding \ {o}
    /\ closed' = closed \cup {o}

Next == \E o \in OrderIds : Take(o) \/ GiveBack(o)

Spec == Init /\ [][Next]_ledgerVars
=============================================================================
