SPECIFICATION FairCrawlerSpec
CONSTANTS
  MaxPosts = 3
  Limit = 2
  MaxTries = 2
  MaxAutomatic = 2
  Workers = {w1, w2}
  NoWorker = NoWorker
  Sweep = Sweep
  Live = Live
  Fate <- MCFate
  MaxDrops = 1
  MaxCrashes = 1
  MaxStales = 1
  Scenarios <- MCScenarios
INVARIANTS CrawlerTypeOK NothingSkipped
PROPERTIES ReadingEnds
CHECK_DEADLOCK FALSE
