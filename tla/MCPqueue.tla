------------------------------- MODULE MCPqueue -------------------------------
(* Instance of Pqueue for TLC. *)
EXTENDS Pqueue, TLC

\* The queue does not tell the nodes apart.
Symmetry == Permutations(Node)

\* Seven nodes make a heap of three full levels; the node that fills a gap in
\* one subtree can come from another and have to move up.
Keys == {1, 2, 3}
===============================================================================
