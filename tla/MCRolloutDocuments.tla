-------------------------- MODULE MCRolloutDocuments --------------------------
EXTENDS DocumentsInvariant, TLC

Symmetric == Permutations(Process)
===============================================================================
