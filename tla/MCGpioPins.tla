----------------------------- MODULE MCGpioPins -----------------------------
(* Values of GpioPins' constants for model checking. *)
EXTENDS GpioPins

\* Nothing, and two words that differ in the bits of the pins and in those of IO_SEL
\* that select them: 3, 5 and 10 for the pins 14, 16 and 21.
MCWords == {{}, {5, 10, 14, 16}, {3, 21}}

\* One byte alone, and two.
MCSelects == {{0}, {1}, {1, 2}}
=============================================================================
