SPECIFICATION Spec
CONSTANTS
  MbRegs = {256, 770}
  MbNums = {1, 2}
  NOTHING = NOTHING
INVARIANT MbTypeIsRight
