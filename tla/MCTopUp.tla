---- MODULE MCTopUp ----
(* The instance of top-up orders for TLC: all handlers on one node. *)
EXTENDS TopUp

OneNode == [h \in Handlers |-> 1]
====
