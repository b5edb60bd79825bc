---- MODULE MCPrioQueue ----
(* The priority queue with three instants and six pushes.                  *)
EXTENDS PrioQueue

MCTimes == 0..2
====
