CONSTANTS
  Tags = {t1, t2}
  NoTag = NoTag
  MaxTags = 2
  BtTries = 1
SPECIFICATION FairSpec
INVARIANTS TypeOK ListWellFormed QueueNeverFull RoundReports OncePerRound
PROPERTIES RequestIsServed HeardIsPublished
