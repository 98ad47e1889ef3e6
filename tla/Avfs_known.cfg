CONSTANTS
  AVFS_NUM_BLOCKS = 4
  AVFS_BLOCK_SIZE = 1
  AVFS_MAX_FILES = 6
  FilePaths <- KnownFiles
  DirPaths <- TreeDirs
  ChdirPaths <- NoPaths
  RmPaths <- KnownRm
  Buffers <- NoBuffers
  Sizes = {0}
  LISTING_MAX = 8
  NoFile = NoFile
SPECIFICATION AvfsSpec
INVARIANTS
  LsShowsEveryEntry
  TreeSound
  RootStays
PROPERTIES
  RmRemovesTree
