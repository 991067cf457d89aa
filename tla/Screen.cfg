\* Framebuffers of all edge sizes, drawn again and again; then every line of
\* five characters, which spells commands of up to three words.
SPECIFICATION MCSpec
CONSTANTS
  U32_MAX = 65535
  Sizes <- EdgeSizes
  Padding = {0, 64}
  MAX_LINE_LEN = 5
  ShiftKeys <- MCShiftKeys
  ExtendedKeys <- MCExtendedKeys
  Keys <- MCKeys
  Plain <- MCPlain
  Shifted <- MCShifted
INVARIANTS
  NeverPanics
  DrawsInside
  TerminalShowsLine
  
  CommandsNameTheirFile
PROPERTY ImplementsLineEditor
