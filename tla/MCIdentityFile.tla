--------------------------- MODULE MCIdentityFile ---------------------------
(* Model-checking instance of IdentityFile.                                  *)
EXTENDS IdentityFile, TLC
CONSTANTS proc1, proc2, word1, word2

\* Processes are interchangeable, and so are passphrases.
Symmetry == Permutations({proc1, proc2}) \cup Permutations({word1, word2})
=============================================================================
