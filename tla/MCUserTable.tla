---------------------------- MODULE MCUserTable -----------------------------
(***************************************************************************)
(* Instances of UserTable for TLC.                                         *)
(***************************************************************************)
EXTENDS UserTable, TLC

\* Sound: no action distinguishes these values (the empty password apart).
Symmetry ==
  Permutations(Names) \cup Permutations(Passwords \ {Empty}) \cup Permutations(Workers)
=============================================================================
