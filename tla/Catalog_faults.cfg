CONSTANTS
  r1 = r1
  r2 = r2
  b1 = b1
  b2 = b2
  k1 = k1
  k2 = k2
  g1 = g1
  g2 = g2
  g3 = g3
  Bytes <- TwoBytes
  Catalogs <- TwoCatalogs
  None = None
  Invalid = Invalid
  Partial = Partial
  Readers <- OneReader
  Generations <- TwoGenerations
  Faults <- OpenFails
SPECIFICATION Spec
PROPERTY ReclaimsOnlyUnpublished
