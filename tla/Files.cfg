SPECIFICATION FilesSpec
CONSTANTS
  Sources <- MCSources
  OnDiskOnes <- MCOnDisk
  DirLength = 1
  MaxSize = 2
  Foreign <- Left
  AddedDocs <- Additions
  MergedDocs = {0, 1, 2, 3}
  MaxSegments = 4
  MaxGen = 2
INVARIANTS
  EachNameHasItsSource
  DictionaryIsExact
  SegmentComesBack
  CodecsInvert
  ManifestIsWhole
  NormsRank
  SynonymsComeBack
  NativeIsTheIndex
CHECK_DEADLOCK FALSE
