SPECIFICATION Spec
CONSTANTS
  EntriesOf <- MCEntries
  Homes <- MCHomes
  Together <- MCTogether
  MaxEdits = 3
INVARIANTS
  SettledStaysSettled
  UnreadIsNamed
  NothingArrivesUnseen
  DiffMirrors
  DiffFromNothingIsCheck
  OnlyTheOperatorDecides
CHECK_DEADLOCK FALSE
