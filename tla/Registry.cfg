SPECIFICATION RegistrySpec
CONSTANTS
  b1 = b1
  b2 = b2
  m1 = m1
  Blobs = {b1}
  Manifests = {m1}
  LayersOf <- MCLayersOf
  Images = {app, web}
  Clients = {c1, c2}
  Collectors = {gc}
  MaxChunks = 1
  MaxRegistryCrashes = 1
  NoTag = NoTag
  Nobody = Nobody
INVARIANTS RegistryTypeOK 
 
CHECK_DEADLOCK FALSE
SYMMETRY Sym
