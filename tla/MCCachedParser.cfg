SPECIFICATION Spec
CONSTANTS
  one = one
  two = two
  h1 = h1
  h2 = h2
  h3 = h3
  NoHash = NoHash
  Instances = {one}
  Hashes = {h1, h2, h3}
  Bytes <- MCBytes
  CacheSize = 3
  FaultKinds <- NoticedFaults
  MaxFaults = 2
  MaxClock = 2
  MaxSize = 9
INVARIANTS
  TypeOK
  ChargeCoversIndex
  RefusedOnlyByPins
  PinnedKeepsArtifact
PROPERTY
  LostOnlyInRewrite
