CONSTANTS
  Clients = {c1, c2}
  Watchdog = w
  Engines = {e1, e2}
  NoThread = NoThread
  NoEngine = NoEngine
  Requests = {"start", "stop"}
  MaxBoots = 0
SPECIFICATION Spec
INVARIANT ReconcileAfterShutdown
