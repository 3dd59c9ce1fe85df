SPECIFICATION StoreSpec
CONSTANTS
  Manifests = {c1, c2}
INVARIANTS
  CurrentAfterObjects
