SPECIFICATION FairSpec
CONSTANTS
  b1 = b1
  b2 = b2
  b3 = b3
  Bank = {b1, b2, b3}
  Entries <- TwoBanks
  Worker = {w1}
  Key = {k1, k2}
  Enc = {e1, e2}
  Sem = {s1, s2}
  NoSem = NoSem
  Precedence <- ManifestOrder
  MaxYield = 2
INVARIANTS ConflictsFlagged ProvenanceKept PrecedenceKept
PROPERTIES KeepsPromise
