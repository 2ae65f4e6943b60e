SPECIFICATION EventsSpec
CONSTANTS
  None = None
  Session = {s1}
  Event = {e1, e2}
  Schedule = {x1, x2}
  MaxCommands = 4
  MaxRestarts = 1
INVARIANT DroppedNotRunning
CHECK_DEADLOCK FALSE
