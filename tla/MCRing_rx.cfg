SPECIFICATION Spec
CONSTANTS
  Size = 5
  Isr = "writer"
  MaxBytes = 16
INVARIANT CopiesDisjoint
PROPERTY ImplementsFifo
