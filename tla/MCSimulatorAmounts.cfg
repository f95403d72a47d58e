CONSTANTS
  Transactions <- AllTransactions
  Candidates <- FewCandidates
  NumberOfTxs = {0, 1, 2}
  NumbersOfResults = {0, 1, 2}
  Amounts <- FewAmounts
  Junk = Junk
  None = None
  Garbled = Garbled
  Bundles = {b1}
  Targets = {0, 7}
  StateBlocks = {0, 5}
  Hashes = {h1}
  HasTracker = TRUE
  UnitWei = 4
  Fine = 2
  Width = 16
SPECIFICATION Spec
INVARIANT AmountsAreExact
