SPECIFICATION Spec
CONSTANTS
  Arches <- TwoArches
  Banks <- ThreeBanks
  Formalism <- SomeFormalism
  Transcoders <- Registered
  FlatWidth <- Flat
  ArchFilters <- SomeFilters
  Raws <- SomeRaws
  MaxRecords = 2
  Strip <- StripText
  Lower <- LowerText
INVARIANTS TypeOK Accounted ArchNeverGuessed SemanticsGated Complete CheckHonest
