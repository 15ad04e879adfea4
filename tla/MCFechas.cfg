\* The fields of a struct of now, taken from it more than once.
SPECIFICATION FechaSpec
CONSTANTS
  Ato0 = 2023
  DiasAntes <- MCDiasAntes
  Verano <- MCVerano
  Momentos = {8000, 8700}
  NumDias = {1}
  MaxPedidos = 2
INVARIANT FieldsAskedAgain
