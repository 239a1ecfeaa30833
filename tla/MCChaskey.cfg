SPECIFICATION Spec
CONSTANTS
  Boards <- MCBoards
  Ticks <- MCTicks
  Draws <- MCDraws
INVARIANTS
  ShortFormsAgree
  AddressesDiffer
  EveryBitReached
PROPERTIES
  RoundsCanBeUndone
