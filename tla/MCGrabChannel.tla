---------------------------- MODULE MCGrabChannel ----------------------------
(* GrabChannel for TLC: surfaces and native threads are interchangeable.   *)
EXTENDS GrabChannel, TLC

Symmetry == Permutations(Surfaces) \cup Permutations(NativeThreads)

===============================================================================
