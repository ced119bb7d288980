--------------------------- MODULE MCUploadCredit ---------------------------
(***************************************************************************)
(* UploadCredit for TLC: requests and paths are interchangeable.           *)
(***************************************************************************)
EXTENDS UploadCredit, TLC

Symmetry == Permutations(Requests) \cup Permutations(Paths)
=============================================================================
