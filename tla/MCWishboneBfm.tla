--------------------------- MODULE MCWishboneBfm ---------------------------
(* Values of WishboneBfm's constants for model checking. *)
EXTENDS WishboneBfm

MCAddrs   == {4, 8}
MCData    == {0, 1}
MCTags    == {0, 1}
Sometimes == {TRUE, FALSE}
=============================================================================
