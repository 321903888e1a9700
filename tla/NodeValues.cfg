SPECIFICATION ValuesSpec
CONSTANTS
  Magnitudes = {1, 3}
  Half = 2
  ParamSize = 4
  PortSize = 3
  SampleSize = 4
  Params = 2
  Capacity = 1
  MaxNodes = 2
INVARIANTS
  NothingIsMisread
  WhatIsAskedIsSeen
