CONSTANTS
  Tags = {t1, t2}
  NoTag = NoTag
  MaxTags = 2
  BtTries = 1
SPECIFICATION Spec
INVARIANT SkipMeansSeen
