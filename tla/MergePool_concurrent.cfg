SPECIFICATION FairSpec
CONSTANTS
  b1 = b1
  b2 = b2
  b3 = b3
  Bank = {b1, b2, b3}
  Entries <- ThreeBanks
  Worker = {w1, w2}
  Key = {k1, k2}
  Enc = {e1, e2}
  Sem = {s1, s2}
  NoSem = NoSem
  Precedence <- OneUnlisted
  MaxYield = 1
INVARIANTS TypeOK KeyPresent ProvenanceSound ConflictsSound SemanticsSound
PROPERTIES Terminates
