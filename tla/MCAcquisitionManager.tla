------------------------- MODULE MCAcquisitionManager -------------------------
(* AcquisitionManager for TLC: clients and pool tasks are model values.    *)
EXTENDS AcquisitionManager, TLC

TaskSymmetry == Permutations(Tasks)

===============================================================================
