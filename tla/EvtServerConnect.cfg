\* The timers of a socket the server accepts, when the application is told CONNECT.
SPECIFICATION ServerSpec
CONSTANTS
  NULL = NULL
  Sockets = {s1}
  Timers = {0}
  Reglas = {"gastado", "cerrando", "abriendo"}
INVARIANT TimersReadyAtConnect
