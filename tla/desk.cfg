SPECIFICATION Spec
CONSTANTS
  MaxActions = 2
  DayHours = 2  WeekDays = 2  MonthDays = 4  MonthStep = 2  KeepDays = 5
  UsualActive = 2  PriorDays = 1  InputDays = 1  UsualMin = 1  HistoryDays = 4
  Zones = {0, 1}  LastHour = 12  MaxRecords = 2
  Length = 2  MaxTimers = 2  MaxTime = 7
  Last = 2  News = {0, 2}
  Scenes = {"work", "meeting", "rest", "idle"}
  Sheets = {"hug", "walk"}  Bytes <- SheetBytes  Budget = 2  MaxLoads = 3  MaxHeld = 2
  MaxCups = 3  MaxCupFaults = 2
  MaxMouseFaults = 1  MaxPosted = 1
  Bottom = 80  Heights = {33, 45}  Drags = 2  Tops <- DragTops
  MaxTAFaults = 1  MaxChanges = 2  MaxMail = 1  Patience = 1
  Transits = {0, 100, 700}  Windows = 5  Warm = 3  MaxSamples = 4
  Frames = 3  RecordedAt <- PartnerTimes  CalendarDay <- PartnerDays  MaxRuns = 2
INVARIANTS GateSafe StatisticsSafe PomodoroSafe UpdatesSafe CacheSafe CupsAgree PolicyApplied WindowSafe GoneIsIdle ReplaySafe
PROPERTIES StepsSafe Settles
CHECK_DEADLOCK FALSE
