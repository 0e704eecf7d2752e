\* A repository adopted early, and a phase that fails for it afterwards.
SPECIFICATION Spec
CONSTANTS
  Runner = {r1, r2}
  Repo = {"central", "exposed"}
  Central = "central"
  Phase = {"publication", "graphs"}
  Producer = "publication"
  Covers <- MCCovers
  Total = 3
  Elapsed = {1, 4}
  NoReceipt = NoReceipt
  MaxRun = 3
  MaxDrift = 0
SYMMETRY Symmetry
PROPERTY AdoptedTerminal
CHECK_DEADLOCK FALSE
