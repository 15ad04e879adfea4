\* A connect that fails at once, told to an application that does nothing about it.
SPECIFICATION YaSpec
CONSTANTS
  NULL = NULL
  Sockets = {s1}
  Timers = {0}
  Reglas = {"gastado", "cerrando", "abriendo"}
INVARIANT RejectedNeedsNothing
