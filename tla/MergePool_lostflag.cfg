SPECIFICATION Spec
CONSTANTS
  b1 = b1
  b2 = b2
  b3 = b3
  Bank = {b1, b2, b3}
  Entries <- TwoBanks
  Worker = {w1, w2}
  Key = {k1}
  Enc = {e1, e2}
  Sem = {s1}
  NoSem = NoSem
  Precedence <- DefaultPrecedence
  MaxYield = 1
INVARIANTS ConflictsFlagged
