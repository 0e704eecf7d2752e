\* Two runners and any number of transitions on a receipt with two phases.
SPECIFICATION Spec
CONSTANTS
  Runner = {r1, r2}
  Repo = {"central", "exposed"}
  Central = "central"
  Phase = {"publication", "graphs"}
  Producer = "publication"
  Covers <- MCCovers
  Total = 3
  Elapsed = {1, 4}
  NoReceipt = NoReceipt
  MaxRun = 3
  MaxDrift = 1
SYMMETRY Symmetry
INVARIANTS FailClosed ExclusiveRun BudgetCap NeverRejected ReceiptInv
PROPERTIES AdoptedFrozen
CHECK_DEADLOCK FALSE
