CONSTANTS s1 = s1
          s2 = s2
CONSTANT Stas <- MCStas
CONSTANT MaxFrames <- MCMaxFrames
CONSTANT LastAidInit <- MCLastAidLong
SYMMETRY MCSymmetry
SPECIFICATION Spec
PROPERTY StationStatesRefined
CHECK_DEADLOCK FALSE
