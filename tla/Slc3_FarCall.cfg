SPECIFICATION Spec
CONSTANTS
  RamWords = 8
  FillWords = 6
  Programs <- MCFarCall
  Switches = {0}
PROPERTY JsrLandsAtOffset
