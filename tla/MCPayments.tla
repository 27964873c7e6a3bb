------------------------------ MODULE MCPayments ------------------------------
(* Small instances of Payments for TLC.                                      *)
EXTENDS Payments, TLC

CONSTANTS o1, o2, o3

ThreeOrders == {o1, o2, o3}

(* An order id carries no order of its own.                                  *)
Symmetry == Permutations(ThreeOrders)
===============================================================================
