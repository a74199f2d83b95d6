CONSTANTS
  Clients = {c1}
  Watchdog = w
  Engines = {e1, e2}
  NoThread = NoThread
  NoEngine = NoEngine
  Requests = {"start", "stop", "restart"}
  MaxBoots = 0
SPECIFICATION FairSpec
PROPERTIES StallRestartComesBack
