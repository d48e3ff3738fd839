SPECIFICATION Spec
CONSTANTS
  Size = 4
  Isr = "reader"
  MaxBytes = 9
INVARIANT ReadsWhatWasWritten
