SPECIFICATION FairSpec
CONSTANTS
  Reminders = {r1, r2}
  Day = 6
  Minute = 2
  At <- MCAt
  WorkHours <- MCWorkHours
  Interval = 2
  Lease = 0
  MaxSlow = 1
  MaxCrashes = 1
  MaxFaults = 1
  MaxEdits = 1
INVARIANTS OncePerDay RemindedOnce
PROPERTIES EventuallyReminded EveryDay
