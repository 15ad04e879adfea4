SPECIFICATION RepartosSpec
CONSTANTS
  NULL = NULL
  Sockets = {x1, x2, x3}
  Timers = {0}
  Reglas = {"gastado", "cerrando", "abriendo"}
  Items = {x1, x2, x3, x4}
  Logs = {x1, x2, x3}
  Files = {f1, f2}
  STDOUT = STDOUT
  Niveles = {0, 1}
  ReglasLog = {"cerrado", "reinicia"}
INVARIANTS HandlesExact NoGrowthWithHoles WalkLeavesNothingBehind
  ServerTypeOK NoUB CanalesExact NumConexionesExact DisconnectAfterFree BoundedList
  RetryPending ChannelKeepsFile FilesOwnedOnce PendingIsSaved
PROPERTIES DisconnectWhenUnlisted LogImplementsCanales
SYMMETRY Simetria
CHECK_DEADLOCK FALSE
