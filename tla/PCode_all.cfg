SPECIFICATION Spec
CONSTANTS
  W = 4
  MaxBit = 4
  Value <- TwoValues
  Variable = Variable
  MaxTokens = 3
  Origins = {"riscv", "tablegen", "listed", "prebuilt"}
INVARIANTS TypeOK SignatureFaithful GatesAgree NeverFabricated
CHECK_DEADLOCK FALSE
