----------------------------- MODULE MCHomework -----------------------------
(* Homework on a small instance.                                           *)
EXTENDS Homework, TLC

CONSTANTS s1, s2, f1, f2, h1, h2

MCSymmetry ==
  Permutations(Submission) \cup Permutations(Feedback) \cup Permutations(Handler)
=============================================================================
