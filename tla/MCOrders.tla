------------------------------ MODULE MCOrders -------------------------------
(* Instances of Orders for TLC: transactions of one district, three at a     *)
(* time, whose queue is empty or holds one or two at first.                  *)
EXTENDS Orders

MCNewOrders == {1, 2}
MCDeliveries == {3, 4}
MCPayments == {5}
MCStockLevels == {6}
MCMixes == {{1, 2, 3}, {1, 3, 4}, {1, 2, 5}, {1, 2, 6}}

=============================================================================
