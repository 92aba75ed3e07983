SPECIFICATION Spec
CONSTANTS
  Clients = {ui, user, act}
  Cpu = cpu
  NoOne = none
  Synced = {}
  UiThread = ui
  Destroyer = none
  Heedless = {}
  Features = {"sub", "signal", "reset"}
  MaxNest = 2
  MaxCount = 1
PROPERTIES
  GateSpec
