---------------------------- MODULE ShoppingCart ----------------------------
(***************************************************************************)
(* message_passing/update_with_start/lazy_initialization: shopping carts.  *)
(* A request to add an item is an update-with-start: it goes to the open   *)
(* run of the session's cart workflow, or starts one (USE_EXISTING).  A    *)
(* cart is closed by its checkout signal, after its handlers.              *)
(*                                                                         *)
(* A price is a positive number, or 0 for get_price's None.                *)
(***************************************************************************)
EXTENDS Naturals, Sequences, FiniteSets

CONSTANTS
  Requests,          \* calls of handle_add_item_request, for one session
  Price,             \* what get_price says of the item of each
  MaxCarts           \* runs of the cart workflow

CartAssumption == Price \in [Requests -> Nat]

VARIABLES
  cart,              \* number of the latest run, 0 before the first
  open,              \* whether it is open
  items, order_submitted,     \* its workflow object; items are requests
  request,           \* add_item, for each request
  in,                \* the run that took the request
  subtotal,          \* what the request returned
  orders             \* the FinalizedOrder of each run that completed

object == <<items, order_submitted>>
vars == <<cart, open, object, request, in, subtotal, orders>>

Total(s) == LET sum[i \in 0..Len(s)] == IF i = 0 THEN 0 ELSE sum[i - 1] + Price[s[i]]
            IN sum[Len(s)]

Init ==
  /\ cart = 0 /\ open = FALSE
  /\ items = <<>> /\ order_submitted = FALSE
  /\ request = [r \in Requests |-> "unsent"]
  /\ in = [r \in Requests |-> 0] /\ subtotal = [r \in Requests |-> 0]
  /\ orders = <<>>

AllHandlersFinished == \A r \in Requests : request[r] # "pricing"
\* run's condition holds: it goes on before the next event.
Finalizing == open /\ order_submitted /\ AllHandlersFinished
-----------------------------------------------------------------------------
\* The update reaches the open cart: its validator, then its activity.
Accepted == ~order_submitted
AddToOpen(r) ==
  /\ open /\ ~Finalizing /\ request[r] = "unsent"
  /\ request' = [request EXCEPT ![r] = IF Accepted THEN "pricing" ELSE "rejected"]
  /\ in' = [in EXCEPT ![r] = cart]
  /\ UNCHANGED <<cart, open, object, subtotal, orders>>

\* There is no open cart: a new one is started with the update.
AddToNew(r) ==
  /\ ~open /\ cart < MaxCarts /\ request[r] = "unsent"
  /\ cart' = cart + 1 /\ open' = TRUE
  /\ items' = <<>> /\ order_submitted' = FALSE
  /\ request' = [request EXCEPT ![r] = "pricing"]
  /\ in' = [in EXCEPT ![r] = cart + 1]
  /\ UNCHANGED <<subtotal, orders>>

\* get_price is done.
AddSnapshot(r) == <<r>>   \* mutant: other handlers' items overwritten
WithItem(r) == Append(items, r)
Priced(r) ==
  /\ open /\ ~Finalizing /\ request[r] = "pricing"
  /\ \/ /\ Price[r] = 0
        /\ request' = [request EXCEPT ![r] = "unavailable"]
        /\ UNCHANGED <<items, subtotal>>
     \/ /\ Price[r] > 0
        /\ items' = WithItem(r)
        /\ subtotal' = [subtotal EXCEPT ![r] = Total(items')]
        /\ request' = [request EXCEPT ![r] = "added"]
  /\ UNCHANGED <<cart, open, order_submitted, in, orders>>

Checkout ==
  /\ open /\ ~order_submitted /\ order_submitted' = TRUE
  /\ UNCHANGED <<cart, open, items, request, in, subtotal, orders>>

Finalize ==
  /\ Finalizing /\ open' = FALSE
  /\ orders' = Append(orders, [items |-> items, total |-> Total(items)])
  /\ UNCHANGED <<cart, object, request, in, subtotal>>

Stopped == ~open /\ (cart = MaxCarts \/ \A r \in Requests : request[r] # "unsent")
           /\ UNCHANGED vars
-----------------------------------------------------------------------------
Next == \/ Checkout \/ Finalize \/ Stopped
        \/ \E r \in Requests : AddToOpen(r) \/ AddToNew(r) \/ Priced(r)

Spec == Init /\ [][Next]_vars
-----------------------------------------------------------------------------
(* Correctness.                                                            *)

Ordered(k) == {orders[k].items[i] : i \in 1..Len(orders[k].items)}

\* An item whose addition was acknowledged is in the order of its cart, once, and
\* no order has anything else, however additions and checkouts cross.  The order
\* costs what the last acknowledged addition said the cart costs: no client was
\* told a larger subtotal, and one was told just that.
OrderExact ==
  \A k \in 1..Len(orders) :
    LET added == {r \in Requests : request[r] = "added" /\ in[r] = k}
        told  == {subtotal[r] : r \in added}
    IN /\ Ordered(k) = added /\ Cardinality(added) = Len(orders[k].items)
       /\ \A s \in told : s <= orders[k].total
       /\ orders[k].total \in told \cup {0}
=============================================================================
