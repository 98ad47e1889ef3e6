CONSTANTS
  AVFS_NUM_BLOCKS = 3
  AVFS_BLOCK_SIZE = 2
  AVFS_MAX_FILES = 6
  FilePaths <- UserFiles
  DirPaths <- TreeDirs
  ChdirPaths <- TreeChdirs
  RmPaths <- TreeRm
  Buffers <- ThreeBytes
  Sizes = {0, 4}
  LISTING_MAX = 8
  NoFile = NoFile
SPECIFICATION AvfsSpec
INVARIANTS
  BitmapExact
  TreeSound
PROPERTIES
  FileStoreSpec
  RmStaysInside
CONSTRAINT TreeBesideFile
