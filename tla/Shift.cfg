\* Every way of pressing two shift keys and PrintScreen.
SPECIFICATION MCSpec
CONSTANTS
  U32_MAX = 65535
  Sizes = {1024}
  Padding = {0}
  MAX_LINE_LEN = 5
  ShiftKeys <- MCShiftKeys
  ExtendedKeys <- MCExtendedKeys
  Keys <- MCKeys
  Plain <- MCPlain
  Shifted <- MCShifted
INVARIANT ShiftFollowsKeys
