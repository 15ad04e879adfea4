SPECIFICATION TempSpec
CONSTANTS
  USEG = 6
  UMILI = 2
  Plazos = {1}
  Tope = 13
PROPERTY OutIffExpired
