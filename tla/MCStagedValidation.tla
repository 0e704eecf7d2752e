------------------------- MODULE MCStagedValidation --------------------------
EXTENDS StagesInvariant, TLC
CONSTANTS p1, p2, v1, v2
MCJobs == <<0, 0, 2>>
Symmetric == Permutations(Process) \cup Permutations(Value)
===============================================================================
