\* Replay & Repair jobs over stages and source posts, with one process loss.
SPECIFICATION FairSpec
CONSTANTS
  j1 = j1
  j2 = j2
  j3 = j3
  j4 = j4
  j5 = j5
  j6 = j6
  j7 = j7
  i1 = i1
  i2 = i2
  i3 = i3
  i4 = i4
  i5 = i5
  i6 = i6
  i7 = i7
  i8 = i8
  transcode = transcode
  ocr = ocr
  embed = embed
  classify = classify
  sync_meili = sync_meili
  post = post
  NoItem = NoItem
  NoRow = NoRow
  Jobs <- MCJobs
  Items <- MCItems
  Works <- MCWorks
  JobOf <- MCJobOf
  ParentOf <- MCParentOf
  WorkOf <- MCWorkOf
  Posts <- MCPosts
  PrerequisiteOf <- MCPrerequisiteOf
  Recovers = {i3, i7}
  Acknowledged = {j1}
  RetryLimit <- MCRetryLimit
  MaxAttempts = 3
  MaxEvents <- MCMaxEvents
  MaxCrashes = 1
  MaxFailures <- MCMaxFailures
  Operated = {transcode, sync_meili}
  Scenarios <- MCScenarios
INVARIANTS
  TypeOK
  OneOwner
  ReportIsTrue
PROPERTIES
  OutcomeStands
  CancelEnds
CHECK_DEADLOCK FALSE
