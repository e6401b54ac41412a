------------------------------ MODULE MCBuild ------------------------------
(***************************************************************************)
(* Instances of Build for TLC: six entries at most, of which the first is  *)
(* a directory and the last dot-named, and three workers.                  *)
(***************************************************************************)
EXTENDS Build

\* HTML grows by its timestamp comment, so a saving may be negative.
MCSize    == [e \in Entries |-> 10 * e]
MCMinSize == [e \in Entries |-> IF e = 2 THEN 27 ELSE 4 * e]
=============================================================================
