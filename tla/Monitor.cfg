CONSTANT MaxStarts = 3
SPECIFICATION FairSpec
PROPERTY KeepsSource
PROPERTY DeathIsPublished
CHECK_DEADLOCK FALSE
