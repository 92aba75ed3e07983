SPECIFICATION FairSpec
CONSTANTS
  Clients = {ui, user, app}
  Cpu = cpu
  NoOne = none
  Synced = {ui, user}
  UiThread = ui
  Destroyer = app
  Heedless = {user}
  Features = {"syscall", "sub", "debugger"}
  MaxNest = 1
  MaxCount = 1
INVARIANTS
  NobodyParksIt
PROPERTIES
  StopIsSettled
  ProgramRuns
