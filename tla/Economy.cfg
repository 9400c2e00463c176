SPECIFICATION Spec
CONSTANTS
  Regions = {r1, r2}
  Balance <- MCBalance
  Tokens = {5}
  Wanted = {"quantization", "self-healing", "procurement", "blueprints"}
  Times = {1, 3}
  MaxEvents = 3
SYMMETRY Symmetry
CHECK_DEADLOCK FALSE
INVARIANTS TypeOK GatesHold BooksBalance RegionsAddUp LevelsArePaid PaneAgrees
