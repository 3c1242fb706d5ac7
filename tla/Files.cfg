\* Every part; three names and two files for link2symlink, one host call
\* that fails.
CONSTANTS
  Parts = {"links", "bindings", "vdisk", "ids", "modes", "meta", "care", "answers"}
  Names = {"a", "b", "c"}
  Inodes = {1, 2}
  Guests = {1}
  MaxSuffix = 2
  MaxCount = 3
  MaxFaults = 1
  Quirks = {}
SPECIFICATION AllSpec
INVARIANTS
  CountIsLinks FileIsKept InnermostFirst LazyIsTransparent SavedIsTheView IdsLikeLinux
  ModesAreTheGuests MetaFollowsFile ReproducesTheOriginal AnswersAreTheGuests
PROPERTY ImplementsHardLinks
CHECK_DEADLOCK FALSE
