SPECIFICATION Spec
CONSTANTS
  Clients = {ui, user}
  Cpu = cpu
  NoOne = none
  Synced = {ui, user}
  UiThread = ui
  Destroyer = none
  Heedless = {}
  Features = {"syscall", "debugger"}
  MaxNest = 1
  MaxCount = 1
PROPERTIES
  GrantAtSysCall
