SPECIFICATION ClienteSpec
CONSTANTS
  NULL = NULL
  Cxs = {c1}
  ReglasViejas = {"fin", "connect"}
INVARIANT FreedOnItsAnswer
