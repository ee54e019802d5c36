SPECIFICATION FairSpec
CONSTANTS
  k1 = k1
  k2 = k2
  v1 = v1
  v2 = v2
  h1 = h1
  h2 = h2
  Entries <- TwoBanks
  Version = {v1, v2}
  Missing = Missing
  Key = {k1}
  RowsOfVersion <- OneRow
  Sig <- SizesDiffer
  NoSig = NoSig
  BackendConfigs <- BothOrTypo
  Gates = {TRUE, FALSE}
  MayCrash = TRUE
  MayFail = TRUE
  Editable = {"asmjit-db"}
  EditWhileRunning = TRUE
INVARIANTS TypeOK DumpExact DumpCurrent OneRowPerKey
PROPERTIES RunEnds
