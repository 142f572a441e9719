SPECIFICATION Spec
CONSTANTS
  p1 = p1
  p2 = p2
  base = base
  top = top
  Processes = {p1, p2}
  Handles = {h1}
  DiffIDs = {base, top}
  LayerSize <- MCLayerSize
  Images <- MCImages
  Limits <- MCLimits
  NoBundle = NoBundle
  NoMetadata = NoMetadata
SYMMETRY Symmetry
INVARIANTS
  TypeOK
  BundlesStandOnVolumes
  LimitsAreKept
  ReportedCreateIsComplete
PROPERTY
  ImplementsStore
