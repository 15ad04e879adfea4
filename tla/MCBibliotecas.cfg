SPECIFICATION Spec
CONSTANTS
  NULL = NULL
  NUL = 0
  ESPACIO = 1
  PUNTO = 2
  COMA = 3
  CERO = 4
  SALTO = 5
  Letras = {6}
  TamBuf = 3
  Direcciones <- MCDirecciones
  Lineas <- MCLineas
  Largo = 3
  Codigos <- MCCodigos
  USEG = 6
  UMILI = 2
  Plazos <- MCPlazos
  Tope = 13
  Ato0 = 2023
  DiasAntes <- MCDiasAntes
  Verano <- MCVerano
  Momentos <- MCMomentos
  NumDias = {1, 31}
  MaxPedidos = 2
  Caracteres = {1, 2}
  Textos <- MCTextos
  Separadores <- MCSeparadores
  BARRACERO = 0
  Nombres = {n1, n2, n3}
  Coinciden = {n1, n2}
  MaxCambios = 2
  Valores = {v1, v2}
  MaxItems = 4
  Elementos = {e1, e2, e3, e4}
  Timers = {t1, t2, t3}
  Reglas = {"libera"}
  Cxs = {c1, c2}
  ReglasViejas = {"fin", "connect", "respuesta", "servidor", "lista"}
  FilesLog = {f1, f2, f3}
  Trozos = 2
INVARIANTS AnswersAreRight DamageIsSeen DatesAreRight FieldsMakeTheText
  UntouchedAreListed ListsAreRight NoUB OldNoUB RegisterIsKept TestsHold
PROPERTIES OutInTime ImplementsTabla TimersGoAway ReaderEnds CloseIsDone TestEnds
CHECK_DEADLOCK FALSE
