\* Windows of three data and a step of two: a side asks when it has three data
\* and again at five, after two that went into a full window; the streams
\* interleave in every way.
SPECIFICATION Spec
CONSTANTS
  Key = {k1, k2}
  Window = 3
  Step = 2
  MaxData = 5
SYMMETRY Symmetry
INVARIANTS
  JoinIsComplete
  NoPairMissed
  OwnPace
