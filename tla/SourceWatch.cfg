SPECIFICATION WatchSpec
CONSTANTS
  mitre = mitre
  Observers = {mitre}
  Window <- MCWindow
  Fallback = {}
  ReviewDays = 1
  Events <- MCEvents
  Runs = {p1, p2}
  Never = Never
  NoRun = NoRun
  MaxDay = 2
INVARIANT
  NoFalseAlarm
PROPERTY
  Noticed
