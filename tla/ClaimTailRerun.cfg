\* A second runner whose two reads of the receipt straddle a phase update.
SPECIFICATION Spec
CONSTANTS
  Runner = {r1, r2}
  Repo = {"central", "exposed"}
  Central = "central"
  Phase = {"publication", "graphs"}
  Producer = "publication"
  Covers <- MCCovers
  Total = 3
  Elapsed = {1, 4}
  NoReceipt = NoReceipt
  MaxRun = 3
  MaxDrift = 0
SYMMETRY Symmetry
INVARIANT TailRerun
CHECK_DEADLOCK FALSE
