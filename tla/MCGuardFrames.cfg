CONSTANTS
  Signals = {s1}
  Frames = {f1, f2, f3}
  NULL = NULL
  MaxDepth = 5
  Interruptible = {"enter", "landed", "walk"}
  Jumps = "outside"
SPECIFICATION Spec
INVARIANTS TypeOK FrontIsInnermost LocalDecidersFirst DeadFrameOnlyInWindow
SYMMETRY Symmetry
