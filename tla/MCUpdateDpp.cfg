SPECIFICATION UpdateFairSpec
CONSTANTS
  old_h = old_h
  new_h = new_h
  lib1 = lib1
  lib2 = lib2
  Files <- MCFiles
  ArchiveOf <- MCArchiveOf
  FilesOf <- MCFilesOf
  Runs = {r1, r2}
  NBuilds = 2
  MaxVersion = 2
  MaxWithdrawn = 1
  MaxBroken = 1
INVARIANTS
  OriginUniform
PROPERTIES
  NeverOlder
  CatchesUp
