SPECIFICATION PruebaSpec
CONSTANT Trozos = 1
INVARIANT ServerOutlivesConnections
CHECK_DEADLOCK FALSE
