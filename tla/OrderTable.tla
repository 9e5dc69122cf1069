----------------------------- MODULE OrderTable ------------------------------
(***************************************************************************)
(* What the ExecutionManagementSystem promises, without its hash map: one  *)
(* record per order id, moved only by the reports about that id.           *)
(***************************************************************************)
EXTENDS Naturals

CONSTANTS OrderId, Quantity,
          Modulus  \* executed quantities are counted modulo this

VARIABLE orders  \* the record of each id; state NONE: never sent

State == {"NONE", "PENDING_NEW", "NEW", "PARTIALLY_FILLED", "FILLED",
          "CANCELED", "REJECTED"}
Dead == {"CANCELED", "REJECTED"}
Unknown == [state |-> "NONE", original_quantity |-> 0, executed_quantity |-> 0]

Init == orders = [id \in OrderId |-> Unknown]

Send(id, q) ==
    /\ orders[id].state = "NONE"
    /\ orders' = [orders EXCEPT ![id] =
           [state |-> "PENDING_NEW", original_quantity |-> q, executed_quantity |-> 0]]

Accept(id) ==
    /\ orders[id].state = "PENDING_NEW"
    /\ orders' = [orders EXCEPT ![id].state = "NEW"]

\* A reject or a cancel report ends an order whatever its state was.
Kill(id) ==
    /\ orders[id].state # "NONE"
    /\ \E s \in Dead : orders' = [orders EXCEPT ![id].state = s]

\* A fill counts unless the order is dead.
Fill(id, q) ==
    /\ orders[id].state \notin Dead \cup {"NONE"}
    /\ LET filled == (orders[id].executed_quantity + q) % Modulus
           state == IF filled >= orders[id].original_quantity
                    THEN "FILLED" ELSE "PARTIALLY_FILLED"
       IN  orders' = [orders EXCEPT ![id].executed_quantity = filled,
                                    ![id].state = state]

Next ==
    \E id \in OrderId :
        \/ Accept(id)
        \/ Kill(id)
        \/ \E q \in Quantity : Send(id, q) \/ Fill(id, q)

Spec == Init /\ [][Next]_orders
==============================================================================
