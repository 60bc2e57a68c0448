\* Files may be missing, and each call of Pico and of ALSA may fail.
SPECIFICATION Spec
CONSTANTS
  Directories <- Paths
  Disks <- SomeDisks
  NoVoice = NoVoice
  Requests <- Asked
  Levels <- Limits
  TextSizes = {0, 1, 32767, 65535, 65536}
  BufferSize = 4
  MaxSamples = 5
INVARIANTS
  TypeOK
  RegistryAllOrLocked
  WritesMarkup
  OpensWithFiles
  ClosedHoldsNoLibrary
  BlocksOutlivePico
  NothingUsedAfterRelease
  SamplesInOrder
PROPERTIES
  SuccessMeansSpoken
  KeepsEngine
