SPECIFICATION GSpec
CONSTANTS
  Names = {a, b, c}
  PropNames = {"p", "q"}
  None = None
  PROP_MAX = 2
  Families <- MCFamilies
  Prelude <- MCPrelude
  Arguments <- MCArguments
  Bounds <- MCBounds
INVARIANTS Layout CreatedWhole RequirementsMet
PROPERTY ImplementsInheritance
SYMMETRY Symmetry
CHECK_DEADLOCK FALSE
