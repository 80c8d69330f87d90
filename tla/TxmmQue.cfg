CONSTANTS
  None = None
  Blocks = {b1, b2, b3, b4}
SPECIFICATION Spec
INVARIANT
  RingSafe
PROPERTY
  ImplementsQueue
SYMMETRY Symmetry
