------------------------------ MODULE MCServer ------------------------------
(***************************************************************************)
(* Instances of Server for TLC.                                            *)
(***************************************************************************)
EXTENDS Server, TLC

\* Sound for the safety runs: no action distinguishes these values.
Symmetry == Permutations(Fds) \cup Permutations(Ids) \cup Permutations(Workers)

\* Bound of the safety run: a state in which two updates of m_user_count have
\* collided is checked and not continued. (server_live continues them.)
UpToARace == ~raced
=============================================================================
