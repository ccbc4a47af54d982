SPECIFICATION FairSpec
CONSTANTS
  ROWS = 2
  COLUMNS = 4
  CharWidth = 2
  CharHeight = 2
  HBlank = 1
  VBlank = 1
  Font <- MCFont
  Green <- MCGreen
  Red <- MCRed
  Blue <- MCBlue
  Inverted <- MCInverted
  Completed <- MCCompleted
  PaletteWrites <- MCPaletteWrites
  MaxResets = 1
INVARIANTS
  TypeOK
  ReadBackAgrees
  PictureAtPause
PROPERTIES
  PixelShowsItsCell
  TestEnds
