SPECIFICATION FairSpec
CONSTANTS
  Clients = {ui, user, app}
  Cpu = cpu
  NoOne = none
  Synced = {ui, user}
  UiThread = ui
  Destroyer = app
  Heedless = {}
  Features = {"syscall", "dialog"}
  MaxNest = 1
  MaxCount = 1
PROPERTIES
  DialogEnds
  DestroyEnds
