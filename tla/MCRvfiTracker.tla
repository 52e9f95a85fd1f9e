--------------------------- MODULE MCRvfiTracker ---------------------------
(* Values of RvfiTracker's constants for model checking. *)
EXTENDS RvfiTracker

\* Two long operations, which may be in the units together, a branch over one
\* instruction, that one, which is a load, a branch back to the start, and a store.
MCProgram ==
  [pc \in 1..6 |->
     [kind   |-> <<"long", "long", "branch", "load", "branch", "store">>[pc],
      target |-> <<1, 1, 5, 1, 1, 1>>[pc]]]
=============================================================================
