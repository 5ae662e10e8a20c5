SPECIFICATION PartsSpec
CONSTANTS
  Dials = {d1, d2}
  Identities = {one, two}
  None = None
  MaxDials = 1
  Slots = 1
  MaxDrawn = 3
  MaxBoots = 2
  Heads <- MCHeads
  Sessions <- MCSessions
  Unset = Unset
  MaxAsked = 2
  MaxEpochs = 2
INVARIANT BondsKept
INVARIANT BondsProved
PROPERTY NoReplay
INVARIANT CancelIsFinal
PROPERTY CancelsItsOwn
INVARIANT ConsoleShared
SYMMETRY MCSymmetry
CHECK_DEADLOCK FALSE
