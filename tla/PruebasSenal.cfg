SPECIFICATION PruebaSpec
CONSTANT Trozos = 1
INVARIANT NobodyIsKilled
CHECK_DEADLOCK FALSE
