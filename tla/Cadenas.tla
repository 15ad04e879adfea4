------------------------------- MODULE Cadenas ------------------------------
(***************************************************************************)
(* zlVarios.c and file2Buf.c: functions that edit a buffer in place.  A    *)
(* buffer is the sequence of its bytes; what C calls its string ends       *)
(* before the first NUL.                                                   *)
(***************************************************************************)
EXTENDS Integers, Sequences, SequencesExt

CONSTANTS
  NUL, ESPACIO, PUNTO, COMA, CERO, SALTO,  \* the bytes the functions look for
  Letras           \* and the others

ASSUME CadenasAssumption == NUL \notin {ESPACIO, PUNTO, COMA, CERO, SALTO} \cup Letras

Bytes == {NUL, ESPACIO, PUNTO, COMA, CERO, SALTO} \cup Letras

Ceros(n) == [i \in 1 .. n |-> NUL]

Desde(buf, i) == SubSeq(buf, i, Len(buf))

Hasta(buf, n) == SubSeq(buf, 1, n)

\* The first position with one of some bytes, or the one after the end.
Busca(buf, bytes) == SelectInSeq(Append(buf, NUL), LAMBDA b : b \in bytes \cup {NUL})

strlen(buf) == Busca(buf, {NUL}) - 1

Texto(buf) == Hasta(buf, strlen(buf))

\* The number of spaces that buf starts or ends with.
Iniciales(buf) == SelectInSeq(Append(buf, NUL), LAMBDA b : b # ESPACIO) - 1
Finales(buf) == Iniciales(Reverse(buf))

\* Each returns the buffer and the length it answers.  The first len bytes are moved
\* to the left, and zeros put where they leave.
limpiaIniciales(buf, len) ==
  LET n == Iniciales(Hasta(buf, len))
  IN [buf |-> SubSeq(buf, n + 1, len) \o Ceros(n) \o Desde(buf, len + 1), len |-> len - n]

\* Mutant of limpiaFinales: the length is looked at again as it shrinks.
FinalesALaMitad(buf, len) ==
  LET n == (Finales(Hasta(buf, len)) + 1) \div 2
  IN [buf |-> Hasta(buf, len - n) \o Ceros(n) \o Desde(buf, len + 1), len |-> len - n]

limpiaFinales(buf, len) ==
  LET n == Finales(Hasta(buf, len))
  IN [buf |-> Hasta(buf, len - n) \o Ceros(n) \o Desde(buf, len + 1), len |-> len - n]

limpiaBuffer(buf, len) ==
  LET l == limpiaIniciales(buf, len) IN limpiaFinales(l.buf, l.len)

\* SALTO stands for the carriage return too.
quita0d0a(buf) ==
  IF SALTO \in {buf[i] : i \in 1 .. strlen(buf)}
  THEN [buf |-> [buf EXCEPT ![Busca(buf, {SALTO})] = NUL], ret |-> 1]
  ELSE [buf |-> buf, ret |-> 0]

\* Thousands are separated by dots, and the decimals by a comma that becomes a dot.
quitaMates(buf) ==
  LET quedan == SelectSeq(Texto(buf), LAMBDA b : b # PUNTO)
  IN [i \in DOMAIN quedan |-> IF quedan[i] = COMA THEN PUNTO ELSE quedan[i]]
       \o <<NUL>> \o Desde(buf, Len(quedan) + 2)

\* The room for the zeros is that of the caller.
padCerosIzquierda(campo, len) ==
  IF Len(campo) >= len THEN campo ELSE [i \in 1 .. len - Len(campo) |-> CERO] \o campo

-----------------------------------------------------------------------------
CONSTANT TamBuf     \* fgets reads up to TamBuf - 1 bytes

ASSUME TamBufAssumption == TamBuf \in Nat /\ TamBuf >= 2

\* Where fgets stops, reading from byte i: after a newline, after TamBuf - 1 bytes,
\* or at the end of the file.
FinFgets(fichero, i) ==
  LET tope == IF i + TamBuf - 2 < Len(fichero) THEN i + TamBuf - 2 ELSE Len(fichero)
      saltos == {k \in i .. tope : fichero[k] = SALTO}
  IN IF saltos = {} THEN tope ELSE CHOOSE k \in saltos : \A otro \in saltos : k <= otro

\* Each piece is added by sprintf("%s"), which stops at a NUL.
zluFile2Buf(fichero) ==
  LET desde[i \in 1 .. Len(fichero) + 1] ==
        IF i > Len(fichero) THEN <<>>
        ELSE LET fin == FinFgets(fichero, i)
             IN Texto(SubSeq(fichero, i, fin)) \o desde[fin + 1]
  IN desde[1]
=============================================================================
