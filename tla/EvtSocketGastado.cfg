\* An application that activates again a timer that went off, on a live socket.
SPECIFICATION Spec
CONSTANTS
  NULL = NULL
  Sockets = {s1}
  Timers = {0}
  Reglas = {"cerrando", "abriendo"}
INVARIANT ActivateIsSafe
