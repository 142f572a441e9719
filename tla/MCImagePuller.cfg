SPECIFICATION FairSpec
CONSTANTS
  a = a
  b = b
  zipA = zipA
  NotGzip = NotGzip
  NotDigest = NotDigest
  Files = {f1, f2}
  Absent = Absent
  NoFile = NoFile
  MaxInt <- MCMaxInt
  Contents <- MCContents
  Length <- MCLength
  Gunzip <- MCGunzip
  Manifests <- MCManifests
  Specs <- MCSpecs
INVARIANTS
  TypeOK
  PulledImageIsRight
  ParentsFirst
  FilesFollowReader
  DownloadsFit
PROPERTIES
  ImplementsStore
  PullsEnd
