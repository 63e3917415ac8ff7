SPECIFICATION Spec
CONSTANTS
  UnitsPerMinute = 3
  MinutesPerHour = 2
  HoursPerDay = 2
  DaysPerWeek = 2
  DaysPerMonth = 2
  MaxTime = 13
  MaxLines = 1
  MaxFiles = 3
  Alarms <- SomeAlarms
  Intervals <- SomeIntervals
  Gap = 1
  MaxRuns = 2
  MaxFaults = 1
INVARIANTS TypeOK AlarmExact ReportedOnce NoLineLost
CHECK_DEADLOCK FALSE
