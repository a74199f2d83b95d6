CONSTANTS
  Clients = {c1, c2}
  Watchdog = w
  Engines = {e1, e2}
  NoThread = NoThread
  NoEngine = NoEngine
  Requests = {"start", "stop", "restart", "reset", "shutdown", "terminate", "clean"}
  MaxBoots = 1
SPECIFICATION Spec
SYMMETRY Symmetry
VIEW View
INVARIANTS TypeOK BelievedRunningIsWatched UnwantedIsStopping SingleEngine LiveEngineKeepsLock
PROPERTY ImplementsLifecycle
