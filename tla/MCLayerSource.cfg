SPECIFICATION Spec
CONSTANTS
  a = a
  b = b
  zipA = zipA
  zipB = zipB
  NotGzip = NotGzip
  Files = {f1, f2}
  Absent = Absent
  Partial = Partial
  NoFile = NoFile
  NoBlob = NoBlob
  NoLayer = NoLayer
  NoImage = NoImage
  MaxDelivered = 4
  Contents <- MCContents
  Length <- MCLength
  Gunzip <- MCGunzip
  Sizes <- MCSizes
  LayerInfos <- MCLayerInfos
  Images <- MCImages
  Configs <- MCConfigs
INVARIANTS
  TypeOK
  DeliveredIsVerified
  QuotaRespected
  FailedBlobCostsNothing
  NothingLeaks
  OneImageSource
  ConversionIsComplete
PROPERTIES
  RetriesBeforeFailing
  ImplementsPromise
CHECK_DEADLOCK FALSE
