SPECIFICATION FairSpec
CONSTANTS
  k1 = k1
  k2 = k2
  v1 = v1
  v2 = v2
  s1 = s1
  s2 = s2
  Store = {a, b}
  Schema = {s1, s2}
  Key = {k1, k2}
  Val = {v1, v2}
  InitialFiles <- SomeFiles
INVARIANTS TypeOK Lossless DamageRaises NoMixture SourceKept
PROPERTIES CallEnds
