SPECIFICATION CrawlSpec
CONSTANTS
  MaxPages = 2
  Concurrency = 2
  MaxBytes = 4
  ByteShare = 2
  MaxDocuments = 3
  MaxUrls = 2
  PolitenessDelay = 1
  MaxRobotsDelay = 2
  CrawlDelays = {0, 3}
  WallClock = 3
  JobTimeout = 5
  MaxLate = 1
  MaxBody = 2
  MaxListed = 1
CHECK_DEADLOCK FALSE
INVARIANT RobotsHonoured
