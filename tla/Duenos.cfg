SPECIFICATION DuenosSpec
CONSTANTS
  NULL = NULL
  Sockets = {s1, s2}
  Timers = {0, 1}
  Reglas = {"gastado", "cerrando", "abriendo"}
INVARIANTS TypeOK NoUB TimersDieWithSocket
PROPERTIES BindsInTheEnd  ImplementsCanales ClosedIsFreed
