SPECIFICATION Spec
CONSTANT Sessions <- MCSessions
INVARIANTS TypeOK Framed NoMix ResultRight Understood EventKept AttributesCommute
PROPERTY ConfKept
CHECK_DEADLOCK FALSE
