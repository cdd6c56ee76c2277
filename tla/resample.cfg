\* Every split of a short stream, in and out; tags, resets, both ends of stream.
CONSTANTS
  Workers = 2
  L = 3
  M = 2
  T = 7
  MtLeast = 2
  PoolLeast = 3
  Scratch = 4
  Zero = Zero
  Total = 5
  OutputGrants = {2, 3, 5}
  TagSets <- UpToTwoTags
  MaxResets = 1
SPECIFICATION BlockSpec
INVARIANTS OutputsAreUpfirdn BatchComplete TagsInOrder
CHECK_DEADLOCK FALSE
