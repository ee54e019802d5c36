SPECIFICATION Spec
CONSTANTS
  Radix = 8
  Records <- SomeRecords
INVARIANTS RoundTrip CutDetected
