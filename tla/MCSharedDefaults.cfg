SPECIFICATION Spec
CONSTANTS
  Programs <- ListTwice
  MaxReg = 16
INVARIANT
  DefaultInRecord
CHECK_DEADLOCK FALSE
