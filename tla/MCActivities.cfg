SPECIFICATION ActivitiesSpec
CONSTANTS
  r1 = r1
  r2 = r2
  r3 = r3
  u1 = u1
  u2 = u2
  d1 = d1
  d2 = d2
  w1 = w1
  w2 = w2
  c1 = c1
  c2 = c2
  t1 = t1
  t2 = t2
  a1 = a1
  a2 = a2
  a3 = a3
  a4 = a4
  m1 = m1
  m2 = m2
  Requests <- MCRequests
  UserOf <- MCUserOf
  DailyLimit = 1
  MaxFaults = 1
  Deliveries <- MCDeliveries
  MaxEvents = 2
  MaxPeriod = 2
  MaxUnrest = 1
  Dispatchers <- MCDispatchers
  MaxAttempts = 2
  BatchSize = 1
  MaxMishaps = 1
  Calls <- MCCalls
  Texts <- MCTexts
  MaxFailures = 1
  MaxUpsets = 1
  TextCalls = {"phone"}
  Attempts <- MCAttempts
  DailyRounds = 2
  MaxAccidents = 2
  LevelOf <- MCLevelOf
  Modalities <- MCModalities
  DefaultMenu <- MCModalities
  InitialLevel = 0
  MaxAccesses = 2
  MaxUnderway = 1
  MaxLosses = 1
  Checkpoints = {"B1", "B2"}
  Gate = "GATE"
  StartCheckpoint = "B1"
  MainCount <- MCMainCount
  TieCount <- MCTieCount
  OnPass <- MCOnPass
  OnFail <- MCOnFail
  TopLevel = 3
  TemporaryLevel = 2
  C2Steps = {"essay", "notes"}
  MainTab = "phone"
  Tabs = {"phone", "laptop"}
  MaxSittings = 2
  MaxSetbacks = 1
  MaxIntrusions = 1
  Population = 2
  Invocations = {"sweep1", "sweep2"}
  PageSize = 1
  Allowed = {2}
  MaxExcuses = 1
INVARIANTS
  ActivitiesTypeOK
  LibraryBounded
  AudioReadsItsText
  ProcessedIsApplied
  StepsInOrder
  AnalysisIsBoughtOnce
  CompletedIsStored
  DayInOrder
  NeverAssessedInVain
  PlacedByAnswers
  RemindersAreDue
PROPERTIES
  PracticeIsKept
  SyncRepairs
  ScheduledChangeIsKept
  ImplementsBoard
  LevelNeverDrops
  LearnersGetThrough
  BackgroundWorkSettles
CHECK_DEADLOCK FALSE
