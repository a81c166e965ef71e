------------------------------ MODULE MCFrameSave ------------------------------
(* FrameSave for TLC: requests are model values and interchangeable.       *)
EXTENDS FrameSave, TLC

RequestSymmetry == Permutations(Requests)

===============================================================================
