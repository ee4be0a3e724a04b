--------------------------- MODULE MCTestService ---------------------------
(* A small instance of the test service for TLC: calls whose response has  *)
(* an order with a status that the handler has to choose.                  *)
EXTENDS TestService

CONSTANTS r1, r2, r3

MCRequests == {r1, r2, r3}

MCCall == [r \in MCRequests |->
  CASE r = r1 -> [method |-> "CreateOrder", status |-> "unknown"]
    [] r = r2 -> [method |-> "CreateOrder", status |-> NoOrder]
    [] r = r3 -> [method |-> "ListOrders", status |-> "unknown"]]

=============================================================================
