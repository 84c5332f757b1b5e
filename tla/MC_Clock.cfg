SPECIFICATION Spec
CONSTANTS
  Workers = {w1, w2}
  Serving = {w1}
  Killable = {w1}
  Callers = {c1}
  Ahead <- McAhead
  Timeouts <- McTimeouts
  DriverPolls = FALSE
  NetRun = 1
  Poll = 1
  NetPeriod = 2
  RetryWait = 1
  MaxErrors = 2
  Slack = 5
  Floor = 6
  NoOne = NoOne
VIEW ClockView
INVARIANTS TypeOK AskedInTime HeldIsRetrying ServedIsRetried WatchdogFirst
