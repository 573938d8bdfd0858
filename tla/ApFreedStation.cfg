CONSTANTS s1 = s1
          s2 = s2
CONSTANT Stas <- MCStas
CONSTANT MaxFrames <- MCMaxFrames
CONSTANT LastAidInit <- MCLastAidInit
SYMMETRY MCSymmetry
SPECIFICATION Spec
INVARIANT NoCallbackOnFreedStation
CHECK_DEADLOCK FALSE
