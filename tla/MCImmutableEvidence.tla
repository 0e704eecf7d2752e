------------------------- MODULE MCImmutableEvidence -------------------------
(***************************************************************************)
(* ImmutableEvidence for TLC.  Inodes are chosen by CHOOSE and are no      *)
(* symmetry set.                                                           *)
(***************************************************************************)
EXTENDS EvidenceInvariant, TLC

Symmetric == Permutations(Process) \cup Permutations(File) \cup Permutations(Bytes)
===============================================================================
