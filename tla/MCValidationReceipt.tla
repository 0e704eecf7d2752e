------------------------- MODULE MCValidationReceipt -------------------------
(* Model-checking instance of ValidationReceipt. *)
EXTENDS ReceiptClaims, ReceiptInvariant, TLC

\* Each phase runs jobs for one of the two repositories.
MCCovers == [publication |-> {"central"}, graphs |-> {"exposed"}]

Symmetry == Permutations(Runner)
=============================================================================
