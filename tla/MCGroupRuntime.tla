--------------------------- MODULE MCGroupRuntime ---------------------------
(* Small instances of GroupRuntime for TLC. *)
EXTENDS GroupRuntime, TLC

\* Attempt ids and cookies are interchangeable.
Symmetry == Permutations(Attempts) \cup Permutations(Cookies)

=============================================================================
