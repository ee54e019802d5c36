SPECIFICATION Spec
CONSTANTS
  k1 = k1
  k2 = k2
  v1 = v1
  v2 = v2
  h1 = h1
  h2 = h2
  Entries <- OneBank
  Version = {v1, v2}
  Missing = Missing
  Key = {k1, k2}
  RowsOfVersion <- Shrinking
  Sig <- SizesDiffer
  NoSig = NoSig
  BackendConfigs <- DocumentOnly
  Gates = {TRUE}
  MayCrash = FALSE
  MayFail = FALSE
  Editable = {"llvm-td"}
  EditWhileRunning = FALSE
INVARIANTS SkippedKept
