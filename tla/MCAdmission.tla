---------------------------- MODULE MCAdmission -----------------------------
(***************************************************************************)
(* Jobs and requests are interchangeable.                                  *)
(***************************************************************************)
EXTENDS Admission, TLC

Interchangeable == Permutations(JobIds) \cup Permutations(Creators)

=============================================================================
