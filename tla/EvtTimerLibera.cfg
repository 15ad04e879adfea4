\* An application that keeps the pointer of a Libera timer and frees it.
SPECIFICATION TimerSpec
CONSTANTS
  NULL = NULL
  Timers = {t1}
  Reglas = {}
INVARIANT FreeWhileRunning
