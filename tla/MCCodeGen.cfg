SPECIFICATION Spec
CONSTANTS
  Programs <- MCPrograms
  MaxReg = 16
INVARIANTS
  Translated
  EffectsKept
  FrameCovered
  OperandsReady
\* A body that has returned has nothing left to do.
CHECK_DEADLOCK FALSE
