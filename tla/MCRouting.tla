----------------------------- MODULE MCRouting ------------------------------
(* Values for the constants of Routing. *)
EXTENDS Routing

\* Two plain nodes, and one that also serves debug_ calls.
Mixed == [n \in Nodes |-> IF n = 0 THEN {"debug", "historical"} ELSE {}]
=============================================================================
