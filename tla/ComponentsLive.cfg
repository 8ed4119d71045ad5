SPECIFICATION FairSpec
PROPERTY NothingWaitsForever
