SPECIFICATION Spec
CONSTANTS
  Clients = {ui, user}
  Cpu = cpu
  NoOne = none
  Synced = {ui, user}
  UiThread = ui
  Destroyer = none
  Heedless = {}
  Features = {"syscall", "sub", "debugger", "throw", "reset"}
  MaxNest = 2
  MaxCount = 1
INVARIANTS
  NestAccounting
  StopMeansStopped
