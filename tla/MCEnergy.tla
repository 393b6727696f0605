------------------------------- MODULE MCEnergy -------------------------------
EXTENDS Energy, TLC

\* The tasks and their CPUs are alike.
TaskSymmetry == Permutations(Tasks)
===============================================================================
