------------------------------ MODULE LogProofs -----------------------------
(***************************************************************************)
(* The theorems about the log: a log in use keeps its slot and its FILE,   *)
(* no FILE is leaked, and the numbers are channels, for any finite number  *)
(* of logs and any FILEs and levels.                                       *)
(***************************************************************************)
EXTENDS Log, SequenceTheorems, FiniteSetTheorems, TLAPS

Lista == INSTANCE ListapLemas

-----------------------------------------------------------------------------
\* The table.

\* zlLogCrea gives a free slot, or the one past the end.
LEMMA CreaLibre ==
  ASSUME zlLog \in Seq(Canales)
  PROVE  /\ Crea \in Libres \cup {zlLogNum}
         /\ Crea \in Nat /\ zlLogNum \in Nat
         /\ Crea = zlLogNum => Libres = {}
<1>1. zlLogNum \in Nat
  BY LenProperties DEF zlLogNum
<1>2. Libres \in SUBSET Nat /\ \A n \in Libres : n < zlLogNum
  BY <1>1 DEF Libres, Numeros
<1>3. CASE Libres = {}
  BY <1>1, <1>3 DEF Crea
<1>4. CASE Libres # {}
  <2>1. \E n \in Libres : \A otro \in Libres : n <= otro
    BY <1>2, <1>4, Lista!Minimo
  <2>2. Crea \in Libres
    BY <1>4, <2>1 DEF Crea
  <2> QED BY <1>1, <1>2, <2>2
<1> QED BY <1>3, <1>4

\* Filling a slot, old or new, touches no other.
LEMMA PonTabla ==
  ASSUME zlLog \in Seq(Canales), NEW n \in Numeros \cup {zlLogNum}, NEW canal \in Canales,
         zlLog' = Pon(n, canal)
  PROVE  /\ zlLog' \in Seq(Canales)
         /\ Numeros' = Numeros \cup {n}
         /\ zlLogNum' = IF n \in Numeros THEN zlLogNum ELSE n + 1
         /\ zlLog'[n + 1] = canal
         /\ \A k \in Numeros \ {n} : zlLog'[k + 1] = EnTabla(k)
<1>1. /\ Len(zlLog) \in Nat
      /\ n \in 0 .. Len(zlLog)
      /\ Numeros = 0 .. Len(zlLog) - 1
  BY LenProperties DEF Numeros, zlLogNum
<1>2. CASE n \in Numeros
  <2>1. zlLog' = [zlLog EXCEPT ![n + 1] = canal] /\ n + 1 \in 1 .. Len(zlLog)
    BY <1>1, <1>2 DEF Pon
  <2>2. zlLog' \in Seq(Canales) /\ Len(zlLog') = Len(zlLog)
        /\ \A k \in 1 .. Len(zlLog) : zlLog'[k] = IF k = n + 1 THEN canal ELSE zlLog[k]
    BY <2>1, ExceptSeq
  <2>3. Numeros' = Numeros \cup {n} /\ zlLogNum' = zlLogNum
    BY <1>1, <1>2, <2>2 DEF Numeros, zlLogNum
  <2>4. zlLog'[n + 1] = canal
    BY <2>1, <2>2
  <2>5. \A k \in Numeros \ {n} : zlLog'[k + 1] = zlLog[k + 1]
    BY <1>1, <2>2
  <2> QED BY <1>2, <2>2, <2>3, <2>4, <2>5 DEF EnTabla
<1>3. CASE n \notin Numeros
  <2>1. zlLog' = Append(zlLog, canal) /\ n = Len(zlLog)
    BY <1>1, <1>3 DEF Pon
  <2>2. zlLog' \in Seq(Canales) /\ Len(zlLog') = Len(zlLog) + 1
        /\ zlLog'[Len(zlLog) + 1] = canal
        /\ \A k \in 1 .. Len(zlLog) : zlLog'[k] = zlLog[k]
    BY <2>1, AppendProperties
  <2> QED BY <1>1, <1>3, <2>1, <2>2 DEF Numeros, zlLogNum, EnTabla
<1> QED BY <1>2, <1>3

\* There is a slot below the number of logs for one that is not in use: the slots that
\* are taken belong to others.
LEMMA CabeOtroLog ==
  ASSUME LogInv, NEW l \in Logs, l \notin enUso
  PROVE  /\ Crea + 1 <= Cardinality(Logs)
         /\ Cardinality(Logs) \in Nat
<1>1. /\ Crea \in Libres \cup {zlLogNum}
      /\ Crea \in Nat /\ zlLogNum \in Nat
      /\ Crea = zlLogNum => Libres = {}
  BY CreaLibre DEF LogInv, LogTypeOK
<1>2. IsFiniteSet(Logs) /\ Cardinality(Logs) \in Nat
  BY LogAssumption, FS_CardinalityType
<1>3. CASE Crea \in Libres
  <2>1. Crea < zlLogNum
    BY <1>1, <1>3 DEF Libres, Numeros
  <2> QED BY <1>1, <1>2, <2>1 DEF LogInv, SlotsOwned
<1>4. CASE Crea = zlLogNum
  <2> DEFINE otros == Logs \ {l}
             f == [n \in Numeros |-> CHOOSE x \in enUso : numero[x] = n]
  <2>1. \A n \in Numeros : \E x \in enUso : numero[x] = n
    BY <1>1, <1>4 DEF LogInv, SlotsOwned, Libres
  <2>2. \A n \in Numeros : f[n] \in enUso /\ numero[f[n]] = n
    BY <2>1
  <2>3. f \in [Numeros -> otros] /\ \A p, q \in Numeros : f[p] = f[q] => p = q
    BY <2>2 DEF LogInv, LogTypeOK
  <2>4. IsFiniteSet(Numeros) /\ Cardinality(Numeros) = zlLogNum
    <3>1. 0 \in Int /\ zlLogNum - 1 \in Int
      BY <1>1
    <3> QED BY <1>1, <3>1, FS_Interval DEF Numeros
  <2>5. IsFiniteSet(otros) /\ Cardinality(otros) = Cardinality(Logs) - 1
    BY <1>2, FS_RemoveElement
  <2>6. ~ (Cardinality(otros) < Cardinality(Numeros))
    <3> HIDE DEF otros, f
    <3> QED BY <2>3, <2>4, <2>5, FS_PigeonHole
  <2> QED BY <1>1, <1>2, <1>4, <2>4, <2>5, <2>6
<1> QED BY <1>1, <1>3, <1>4

-----------------------------------------------------------------------------
\* Opening.

\* What a log without a FILE is after it is opened: it has the FILE that fopen gave,
\* which is not open yet, and a level that writes, or it has none.
LEMMA AbiertoCasos ==
  ASSUME NEW canal \in Canales, canal.LogFd = NULL, NEW fd \in Salidas, NEW nivel \in Niveles
  PROVE  LET c == Abierto(canal, fd, nivel)
         IN c \in Canales /\ c.Activo = canal.Activo /\ c.LogFd \in {NULL, fd} /\ SeCierra(c)
<1> DEFINE c == Abierto(canal, fd, nivel)
<1>1. nivel \in Int /\ NULL \notin Files
  BY LogAssumption
<1>2. CASE nivel <= 0
  BY <1>1, <1>2 DEF Abierto, Canales, SeCierra
<1>3. CASE nivel > 0 /\ fd = NULL
  BY <1>1, <1>3 DEF Abierto, Canales, SeCierra
<1>4. CASE nivel > 0 /\ fd # NULL
  BY <1>1, <1>4 DEF Abierto, Canales, SeCierra
<1> QED BY <1>1, <1>2, <1>3, <1>4

\* The slot that zlLogCrea hands out is taken and empty.
LEMMA HuecoVacio ==
  ASSUME LogInv
  PROVE  Hueco(Crea) \in Canales /\ Hueco(Crea).LogFd = NULL /\ Hueco(Crea).Activo
<1>1. Crea \in Libres \cup {zlLogNum}
  BY CreaLibre DEF LogInv, LogTypeOK
<1>2. Crea \in Numeros => EnTabla(Crea) = zlLog0
  <2>1. CASE Crea \in Libres
    BY <2>1 DEF LogInv, SlotsOwned, Libres
  <2>2. CASE Crea = zlLogNum
    <3>1. zlLogNum \in Nat
      BY CreaLibre DEF LogInv, LogTypeOK
    <3> QED BY <2>2, <3>1 DEF Numeros
  <2> QED BY <1>1, <2>1, <2>2
<1> DEFINE base == IF Crea \in Numeros THEN EnTabla(Crea) ELSE zlLog0
<1>3. base = [Activo |-> FALSE, LogFd |-> NULL, LogLevel |-> 0]
  BY <1>2 DEF zlLog0, Canal
<1>4. Hueco(Crea) = [base EXCEPT !.Activo = TRUE]
  BY Zenon DEF Hueco
<1> HIDE DEF base
<1>5. Hueco(Crea) = [Activo |-> TRUE, LogFd |-> NULL, LogLevel |-> 0]
  BY <1>3, <1>4
<1> QED BY <1>5 DEF Canales, Salidas

\* A log that is opened gets a slot that nobody has, with a FILE that nobody has.
LEMMA LgInitSegura ==
  ASSUME LogInv, NEW l \in Logs, NEW fd \in Fopen, NEW nivel \in Niveles, LgInit(l, fd, nivel)
  PROVE  LogInv'
<1>a. PICK n : n = Crea
  OBVIOUS
<1>b. PICK canal : canal = Abierto(Hueco(Crea), fd, nivel)
  OBVIOUS
<1>1. /\ l \notin enUso /\ Llama
      /\ zlLog' = Pon(n, canal)
      /\ abiertos' = abiertos \cup ({canal.LogFd} \ {NULL})
      /\ pedido' = [pedido EXCEPT ![l] = canal]
      /\ numero' = [numero EXCEPT ![l] = n]
      /\ enUso' = enUso \cup {l}
      /\ UNCHANGED <<zlLogs, MiPanic, zlLogFlush, pendiente, ubLog, vivo>>
  BY <1>a, <1>b DEF LgInit, Abre, generalVars
<1>2. /\ LogTypeOK /\ ChannelKeepsFile /\ FilesOwnedOnce /\ PendingIsSaved /\ SlotsOwned
      /\ SeCierra(zlLogs) /\ \A k \in Numeros : SeCierra(EnTabla(k))
  BY DEF LogInv
<1>3. /\ n \in Libres \cup {zlLogNum} /\ n \in Nat /\ zlLogNum \in Nat
      /\ n \in Numeros \cup {zlLogNum}
      /\ n + 1 <= Cardinality(Logs) /\ Cardinality(Logs) \in Nat
      /\ \A k \in Numeros : k \in Nat
  BY <1>a, <1>1, <1>2, CreaLibre, CabeOtroLog DEF LogTypeOK, Libres, Numeros
<1>4. /\ canal \in Canales /\ canal.Activo /\ canal.LogFd \in {NULL, fd} /\ SeCierra(canal)
  <2>1. fd \in Salidas
    BY DEF Fopen, Salidas
  <2>2. Hueco(Crea) \in Canales /\ Hueco(Crea).LogFd = NULL /\ Hueco(Crea).Activo
    BY HuecoVacio
  <2> QED BY <1>b, <2>1, <2>2, AbiertoCasos
<1>5. /\ zlLog' \in Seq(Canales)
      /\ Numeros' = Numeros \cup {n}
      /\ zlLogNum' = IF n \in Numeros THEN zlLogNum ELSE n + 1
      /\ zlLog'[n + 1] = canal
      /\ \A k \in Numeros \ {n} : zlLog'[k + 1] = EnTabla(k)
  BY <1>1, <1>2, <1>3, <1>4, PonTabla DEF LogTypeOK
<1>6. /\ EnTabla(n)' = canal
      /\ \A k \in Numeros \ {n} : EnTabla(k)' = EnTabla(k)
  BY <1>5 DEF EnTabla
<1>7. n \in Numeros => ~ EnTabla(n).Activo /\ EnTabla(n).LogFd = NULL
  <2>1. n \in Numeros => n \in Libres
    BY <1>3 DEF Numeros
  <2> QED BY <1>2, <2>1 DEF Libres, SlotsOwned, zlLog0, Canal
<1>8. \A x \in enUso : x # l /\ numero[x] \in Numeros \ {n} /\ numero'[x] = numero[x]
                       /\ pedido'[x] = pedido[x]
  <2>1. \A x \in enUso : numero[x] \in Numeros /\ EnTabla(numero[x]).Activo
    BY <1>2 DEF ChannelKeepsFile, SlotsOwned
  <2> QED BY <1>1, <1>2, <1>7, <2>1 DEF LogTypeOK
<1>9. numero'[l] = n /\ pedido'[l] = canal
  BY <1>1, <1>2 DEF LogTypeOK
<1>10. LogTypeOK'
  <2>1. abiertos' \subseteq Files \cup {STDOUT}
    BY <1>1, <1>2, <1>4 DEF Canales, Salidas, LogTypeOK
  <2> QED BY <1>1, <1>2, <1>3, <1>4, <1>5, <2>1 DEF LogTypeOK
<1>11. ChannelKeepsFile'
  BY <1>1, <1>2, <1>5, <1>6, <1>8, <1>9 DEF ChannelKeepsFile
<1>12. SlotsOwned'
  <2>1. \A k \in Numeros' : IF EnTabla(k)'.Activo
                            THEN \E x \in enUso' : numero'[x] = k
                            ELSE EnTabla(k)' = zlLog0
    BY <1>1, <1>2, <1>4, <1>5, <1>6, <1>8, <1>9 DEF SlotsOwned
  <2>2. \A x \in enUso' : pedido'[x].Activo
    BY <1>1, <1>2, <1>4, <1>8, <1>9 DEF SlotsOwned
  <2>3. \A x, otro \in enUso' : numero'[x] = numero'[otro] => x = otro
    BY <1>1, <1>2, <1>8, <1>9 DEF SlotsOwned
  <2>4. zlLogNum' <= Cardinality(Logs)
    BY <1>2, <1>3, <1>5 DEF SlotsOwned
  <2> QED BY <2>1, <2>2, <2>3, <2>4 DEF SlotsOwned
<1>13. \A k \in Numeros \ {n} : EnTabla(k).LogFd \in abiertos \cup {NULL}
  BY <1>2 DEF FilesOwnedOnce
<1>14. canal.LogFd \in Files => canal.LogFd \notin abiertos
  BY <1>4, LogAssumption DEF Fopen
<1>15. FilesOwnedOnce'
  <2>1. {EnTabla(k)'.LogFd : k \in Numeros'} \ {NULL}
          = ({EnTabla(k).LogFd : k \in Numeros} \cup {canal.LogFd}) \ {NULL}
    <3>1. \A k \in Numeros' : EnTabla(k)' = IF k = n THEN canal ELSE EnTabla(k)
      BY <1>5, <1>6
    <3>2. ASSUME NEW g, g # NULL
          PROVE  (\E k \in Numeros' : EnTabla(k)'.LogFd = g)
                   <=> (\E k \in Numeros : EnTabla(k).LogFd = g) \/ g = canal.LogFd
      BY <1>5, <1>7, <3>1, <3>2
    <3> QED BY <3>2
  <2>2. abiertos' = {STDOUT} \cup (({EnTabla(k)'.LogFd : k \in Numeros'}
                                      \cup {zlLogs'.LogFd, MiPanic'}) \ {NULL})
    BY <1>1, <1>2, <2>1 DEF FilesOwnedOnce
  <2>3. \A k \in Numeros \ {n} : EnTabla(k).LogFd \in Files
          => EnTabla(k)'.LogFd # canal.LogFd
    BY <1>6, <1>13, <1>14, LogAssumption
  <2>4. \A k \in Numeros' : EnTabla(k)'.LogFd \in Files
          => /\ EnTabla(k)'.LogFd \notin {zlLogs'.LogFd, MiPanic'}
             /\ \A otro \in Numeros' \ {k} : EnTabla(otro)'.LogFd # EnTabla(k)'.LogFd
    <3>1. canal.LogFd \in Files => canal.LogFd \notin {zlLogs.LogFd, MiPanic}
      BY <1>2, <1>14, LogAssumption DEF FilesOwnedOnce
    <3>2. \A k \in Numeros \ {n} : EnTabla(k)'.LogFd \in Files
            => /\ EnTabla(k)'.LogFd \notin {zlLogs'.LogFd, MiPanic'}
               /\ \A otro \in Numeros' \ {k} : EnTabla(otro)'.LogFd # EnTabla(k)'.LogFd
      BY <1>1, <1>2, <1>5, <1>6, <2>3 DEF FilesOwnedOnce
    <3>3. EnTabla(n)'.LogFd \in Files
            => /\ EnTabla(n)'.LogFd \notin {zlLogs'.LogFd, MiPanic'}
               /\ \A otro \in Numeros' \ {n} : EnTabla(otro)'.LogFd # EnTabla(n)'.LogFd
      BY <1>1, <1>5, <1>6, <2>3, <3>1
    <3> QED BY <1>5, <3>2, <3>3
  <2> QED BY <1>1, <1>2, <2>2, <2>4 DEF FilesOwnedOnce
<1>16. PendingIsSaved'
  BY <1>1, <1>2, <1>6, <1>8 DEF PendingIsSaved
<1>17. SeCierra(zlLogs)' /\ \A k \in Numeros' : SeCierra(EnTabla(k))'
  <2>1. \A k \in Numeros' : EnTabla(k)' = IF k = n THEN canal ELSE EnTabla(k)
    BY <1>5, <1>6
  <2> QED BY <1>1, <1>2, <1>4, <1>5, <2>1 DEF SeCierra
<1> QED BY <1>10, <1>11, <1>12, <1>15, <1>16, <1>17 DEF LogInv

\* The steps that leave the table and the numbers alone, and the FILEs that are
\* open too.
LEMMA TablaIgual ==
  ASSUME LogInv, UNCHANGED <<zlLog, zlLogs, MiPanic, abiertos, usoVars>>, ubLog' = FALSE,
         zlLogFlush' \in BOOLEAN, vivo' \in BOOLEAN, vivo' => vivo,
         pendiente' \subseteq pendiente
  PROVE  LogInv'
<1>1. UNCHANGED <<numero, enUso, pedido>>
  BY DEF usoVars
<1>2. LogTypeOK'
  BY <1>1 DEF LogInv, LogTypeOK
<1>3. Numeros' = Numeros /\ zlLogNum' = zlLogNum /\ \A n : EnTabla(n)' = EnTabla(n)
  BY DEF Numeros, zlLogNum, EnTabla
<1>4. ChannelKeepsFile' /\ SlotsOwned'
  BY <1>1, <1>3 DEF LogInv, ChannelKeepsFile, SlotsOwned
<1>5. FilesOwnedOnce'
  BY <1>3 DEF LogInv, FilesOwnedOnce
<1>6. PendingIsSaved'
  BY <1>1, <1>3 DEF LogInv, PendingIsSaved
<1>7. SeCierra(zlLogs)' /\ (\A n \in Numeros : SeCierra(EnTabla(n)))'
  BY <1>3 DEF LogInv, SeCierra
<1> QED BY <1>2, <1>4, <1>5, <1>6, <1>7 DEF LogInv

\* The general log is opened when it has no FILE.
LEMMA LogInitSegura ==
  ASSUME "reinicia" \in ReglasLog, LogInv, NEW fd \in Fopen, NEW nivel \in Niveles, LogInit(fd, nivel)
  PROVE  LogInv'
<1>1. /\ zlLogs.LogFd = NULL
      /\ zlLogs' = Abierto(zlLogs, fd, nivel)
      /\ abiertos' = abiertos \cup ({zlLogs'.LogFd} \ {NULL})
      /\ UNCHANGED <<zlLog, MiPanic, zlLogFlush, pendiente, numero, enUso, pedido, ubLog, vivo>>
  BY DEF LogInit, Abre, usoVars
<1>2. /\ LogTypeOK /\ ChannelKeepsFile /\ FilesOwnedOnce /\ PendingIsSaved /\ SlotsOwned
      /\ \A k \in Numeros : SeCierra(EnTabla(k))
  BY DEF LogInv
<1>3. zlLogs' \in Canales /\ zlLogs'.LogFd \in {NULL, fd} /\ SeCierra(zlLogs')
  <2>1. fd \in Salidas
    BY DEF Fopen, Salidas
  <2> QED BY <1>1, <1>2, <2>1, AbiertoCasos DEF LogTypeOK
<1>4. Numeros' = Numeros /\ zlLogNum' = zlLogNum /\ \A k : EnTabla(k)' = EnTabla(k)
  BY <1>1 DEF Numeros, zlLogNum, EnTabla
<1>5. LogTypeOK'
  <2>1. abiertos' \subseteq Files \cup {STDOUT}
    BY <1>1, <1>2, <1>3 DEF Canales, Salidas, LogTypeOK
  <2> QED BY <1>1, <1>2, <1>3, <2>1 DEF LogTypeOK
<1>6. ChannelKeepsFile' /\ SlotsOwned'
  BY <1>1, <1>2, <1>4 DEF ChannelKeepsFile, SlotsOwned
<1>7. zlLogs'.LogFd \in Files => zlLogs'.LogFd \notin abiertos
  BY <1>3, LogAssumption DEF Fopen
<1>8. FilesOwnedOnce'
  <2>1. abiertos' = {STDOUT} \cup (({EnTabla(k).LogFd : k \in Numeros}
                                      \cup {zlLogs'.LogFd, MiPanic}) \ {NULL})
    BY <1>1, <1>2 DEF FilesOwnedOnce
  <2>2. \A k \in Numeros : EnTabla(k).LogFd \in Files => EnTabla(k).LogFd # zlLogs'.LogFd
    BY <1>2, <1>7, LogAssumption DEF FilesOwnedOnce
  <2>3. zlLogs'.LogFd \in Files => zlLogs'.LogFd # MiPanic
    BY <1>2, <1>7, LogAssumption DEF FilesOwnedOnce
  <2> QED BY <1>1, <1>2, <1>4, <2>1, <2>2, <2>3 DEF FilesOwnedOnce
<1>9. PendingIsSaved'
  <2>1. \A g \in pendiente \ {STDOUT} : vivo /\ zlLogs.LogFd = g => FALSE
    BY <1>1, <1>2, LogAssumption DEF LogTypeOK
  <2> QED BY <1>1, <1>2, <1>4, <2>1 DEF PendingIsSaved
<1>10. \A k \in Numeros' : SeCierra(EnTabla(k))'
  BY <1>2, <1>4 DEF SeCierra
<1> QED BY <1>3, <1>5, <1>6, <1>8, <1>9, <1>10 DEF LogInv, SeCierra

\* The panic log is opened once, on a FILE that nobody has; a failure ends the
\* process, with everything on disk.
LEMMA PanicInitSegura ==
  ASSUME "reinicia" \in ReglasLog, LogInv, NEW fd \in Fopen, PanicInit(fd)
  PROVE  LogInv'
<1>1. /\ MiPanic = NULL /\ MiPanic' = fd /\ fd # STDOUT
      /\ abiertos' = abiertos \cup ({fd} \ {NULL})
      /\ vivo' = (fd # NULL)
      /\ pendiente' = IF fd # NULL THEN pendiente ELSE {}
      /\ UNCHANGED <<zlLog, zlLogs, zlLogFlush, numero, enUso, pedido, ubLog>>
      /\ vivo
  BY DEF PanicInit, usoVars, Llama
<1>2. /\ LogTypeOK /\ ChannelKeepsFile /\ FilesOwnedOnce /\ PendingIsSaved /\ SlotsOwned
      /\ SeCierra(zlLogs) /\ \A k \in Numeros : SeCierra(EnTabla(k))
  BY DEF LogInv
<1>3. fd \in Files => fd \notin abiertos
  BY <1>1, LogAssumption DEF Fopen
<1>4. Numeros' = Numeros /\ zlLogNum' = zlLogNum /\ \A k : EnTabla(k)' = EnTabla(k)
  BY <1>1 DEF Numeros, zlLogNum, EnTabla
<1>5. LogTypeOK'
  BY <1>1, <1>2, <1>3 DEF LogTypeOK, Fopen
<1>6. ChannelKeepsFile' /\ SlotsOwned'
  BY <1>1, <1>2, <1>4 DEF ChannelKeepsFile, SlotsOwned
<1>7. FilesOwnedOnce'
  <2>1. abiertos' = {STDOUT} \cup (({EnTabla(k).LogFd : k \in Numeros}
                                      \cup {zlLogs.LogFd, fd}) \ {NULL})
    BY <1>1, <1>2 DEF FilesOwnedOnce
  <2>2. \A k \in Numeros : EnTabla(k).LogFd \in Files => EnTabla(k).LogFd # fd
    BY <1>2, <1>3, LogAssumption DEF FilesOwnedOnce
  <2>3. zlLogs.LogFd \in Files => zlLogs.LogFd # fd
    BY <1>2, <1>3, LogAssumption DEF FilesOwnedOnce
  <2> QED BY <1>1, <1>2, <1>4, <2>1, <2>2, <2>3 DEF FilesOwnedOnce
<1>8. PendingIsSaved'
  BY <1>1, <1>2, <1>4 DEF PendingIsSaved
<1>9. SeCierra(zlLogs)' /\ \A k \in Numeros' : SeCierra(EnTabla(k))'
  BY <1>1, <1>2, <1>4 DEF SeCierra
<1> QED BY <1>5, <1>6, <1>7, <1>8, <1>9 DEF LogInv

-----------------------------------------------------------------------------
\* Closing and writing.

\* Closing a log whose FILE is open, and that has a level that writes if it has a FILE,
\* closes the FILE, unless it is stdout.
LEMMA FcloseHace ==
  ASSUME NEW canal \in Canales, SeCierra(canal), canal.LogFd \in Files => canal.LogFd \in abiertos,
         ubLog = FALSE, abiertos \subseteq Files \cup {STDOUT}, pendiente \subseteq Files \cup {STDOUT},
         Fclose(canal)
  PROVE  /\ ubLog' = FALSE
         /\ abiertos' = abiertos \ ({canal.LogFd} \ {STDOUT})
         /\ pendiente' = pendiente \ ({canal.LogFd} \ {STDOUT})
<1>1. canal.LogFd \in Files \cup {STDOUT, NULL} /\ NULL \notin Files \cup {STDOUT} /\ STDOUT \notin Files
  BY LogAssumption DEF Canales, Salidas
<1>2. CASE canal.LogFd \in Files
  BY <1>1, <1>2 DEF Fclose, SeCierra
<1>3. CASE canal.LogFd \notin Files
  BY <1>1, <1>3 DEF Fclose, ficheroVars
<1> QED BY <1>2, <1>3

\* A log that is closed gives its slot back empty and its FILE closed.
LEMMA LgCloseSegura ==
  ASSUME "cerrado" \in ReglasLog, LogInv, NEW l \in Logs, LgClose(l)
  PROVE  LogInv' /\ l \in enUso
<1>a. PICK n : n = numero[l]
  OBVIOUS
<1>b. PICK canal : canal = EnTabla(n)
  OBVIOUS
<1>1. /\ l \in enUso /\ ubLog = FALSE
      /\ zlLog' = [zlLog EXCEPT ![n + 1] = zlLog0]
      /\ Fclose(canal)
      /\ enUso' = enUso \ {l}
      /\ UNCHANGED <<zlLogs, MiPanic, zlLogFlush, numero, pedido, vivo>>
  BY <1>a, <1>b DEF LgClose, Usa, generalVars, LogInv, FilesOwnedOnce, LogTypeOK
<1>2. /\ LogTypeOK /\ ChannelKeepsFile /\ FilesOwnedOnce /\ PendingIsSaved /\ SlotsOwned
      /\ SeCierra(zlLogs) /\ \A k \in Numeros : SeCierra(EnTabla(k))
  BY DEF LogInv
<1>3. n \in Numeros /\ canal \in Canales /\ zlLogNum \in Nat
  <2>1. n \in Numeros
    BY <1>a, <1>1, <1>2 DEF ChannelKeepsFile
  <2>2. zlLogNum \in Nat
    BY <1>2, LenProperties DEF LogTypeOK, zlLogNum
  <2>3. n + 1 \in 1 .. Len(zlLog)
    BY <2>1, <2>2 DEF Numeros, zlLogNum
  <2> QED BY <1>b, <1>2, <2>1, <2>2, <2>3, ElementOfSeq DEF LogTypeOK, EnTabla
<1>4. /\ zlLog' \in Seq(Canales)
      /\ Numeros' = Numeros /\ zlLogNum' = zlLogNum
      /\ EnTabla(n)' = zlLog0
      /\ \A k \in Numeros \ {n} : EnTabla(k)' = EnTabla(k)
  <2>1. zlLog' = Pon(n, zlLog0) /\ zlLog0 \in Canales
    BY <1>1, <1>3 DEF Pon, zlLog0, Canal, Canales, Salidas
  <2>2. /\ zlLog' \in Seq(Canales)
        /\ Numeros' = Numeros \cup {n}
        /\ zlLogNum' = IF n \in Numeros THEN zlLogNum ELSE n + 1
        /\ zlLog'[n + 1] = zlLog0
        /\ \A k \in Numeros \ {n} : zlLog'[k + 1] = EnTabla(k)
    BY <1>2, <1>3, <2>1, PonTabla DEF LogTypeOK
  <2> QED BY <1>3, <2>2 DEF EnTabla
<1>5. /\ ubLog' = FALSE
      /\ abiertos' = abiertos \ ({canal.LogFd} \ {STDOUT})
      /\ pendiente' = pendiente \ ({canal.LogFd} \ {STDOUT})
  <2>1. canal.LogFd \in Files => canal.LogFd \in abiertos
    BY <1>b, <1>2, <1>3, LogAssumption DEF FilesOwnedOnce
  <2>2. SeCierra(canal)
    BY <1>b, <1>2, <1>3
  <2> QED BY <1>1, <1>2, <1>3, <2>1, <2>2, FcloseHace DEF LogTypeOK
<1>6. \A x \in enUso' : x \in enUso /\ numero[x] \in Numeros \ {n}
  BY <1>a, <1>1, <1>2 DEF ChannelKeepsFile, SlotsOwned
<1>7. LogTypeOK'
  BY <1>1, <1>2, <1>4, <1>5 DEF LogTypeOK
<1>8. ChannelKeepsFile'
  BY <1>1, <1>2, <1>4, <1>6 DEF ChannelKeepsFile
<1>9. SlotsOwned'
  <2>1. zlLog0.Activo = FALSE
    BY DEF zlLog0, Canal
  <2>2. \A k \in Numeros \ {n} : EnTabla(k).Activo => \E x \in enUso' : numero[x] = k
    BY <1>a, <1>1, <1>2 DEF SlotsOwned
  <2>3. \A k \in Numeros : IF EnTabla(k)'.Activo
                           THEN \E x \in enUso' : numero'[x] = k
                           ELSE EnTabla(k)' = zlLog0
    BY <1>1, <1>2, <1>3, <1>4, <2>1, <2>2 DEF SlotsOwned
  <2> QED BY <1>1, <1>2, <1>4, <1>6, <2>3 DEF SlotsOwned
<1>10. zlLog0.LogFd = NULL /\ NULL \notin Files \cup {STDOUT}
  BY LogAssumption DEF zlLog0, Canal
<1>11. FilesOwnedOnce'
  <2>1. ASSUME NEW g, g # NULL
        PROVE  (\E k \in Numeros : EnTabla(k)'.LogFd = g)
                 <=> \E k \in Numeros \ {n} : EnTabla(k).LogFd = g
    BY <1>3, <1>4, <1>10, <2>1
  <2>2. ASSUME NEW g, g # STDOUT, g # NULL
        PROVE  g \in abiertos' <=> \/ \E k \in Numeros \ {n} : EnTabla(k).LogFd = g
                                   \/ g \in {zlLogs.LogFd, MiPanic}
    <3>1. g \in abiertos <=> \/ \E k \in Numeros : EnTabla(k).LogFd = g
                             \/ g \in {zlLogs.LogFd, MiPanic}
      BY <1>2, <2>2 DEF FilesOwnedOnce
    <3>2. CASE g = canal.LogFd
      <4>1. g \in Files
        BY <1>3, <2>2, <3>2 DEF Canales, Salidas
      <4> QED BY <1>b, <1>2, <1>3, <1>5, <2>2, <3>2, <4>1 DEF FilesOwnedOnce
    <3>3. CASE g # canal.LogFd
      BY <1>b, <1>3, <1>5, <3>1, <3>3
    <3> QED BY <3>2, <3>3
  <2>3. STDOUT \in abiertos' /\ NULL \notin abiertos'
    BY <1>2, <1>5, <1>10 DEF FilesOwnedOnce, LogTypeOK
  <2>4. abiertos' = {STDOUT} \cup (({EnTabla(k)'.LogFd : k \in Numeros}
                                      \cup {zlLogs.LogFd, MiPanic}) \ {NULL})
    BY <2>1, <2>2, <2>3
  <2>5. \A k \in Numeros : EnTabla(k)'.LogFd \in Files
          => k # n /\ EnTabla(k)' = EnTabla(k)
    BY <1>4, <1>10
  <2>6. \A k \in Numeros : EnTabla(k)'.LogFd \in Files
          => /\ EnTabla(k)'.LogFd \notin {zlLogs.LogFd, MiPanic}
             /\ \A otro \in Numeros \ {k} : EnTabla(otro)'.LogFd # EnTabla(k)'.LogFd
    <3>1. \A k \in Numeros : EnTabla(k)' = EnTabla(k) \/ EnTabla(k)'.LogFd = NULL
      BY <1>4, <1>10
    <3> QED BY <1>2, <1>10, <2>5, <3>1 DEF FilesOwnedOnce
  <2> QED BY <1>1, <1>2, <1>4, <1>5, <2>4, <2>6 DEF FilesOwnedOnce
<1>12. PendingIsSaved'
  <2> SUFFICES ASSUME vivo, NEW g \in pendiente', g # STDOUT
               PROVE  \/ zlLogs.LogFd = g /\ zlLogs.LogLevel > 0
                      \/ \E x \in enUso' : /\ EnTabla(numero[x])'.LogFd = g
                                           /\ EnTabla(numero[x])'.LogLevel > 0
    BY <1>1 DEF PendingIsSaved, EnTabla
  <2>1. g \in pendiente /\ g # canal.LogFd
    BY <1>5
  <2>2. PICK c \in {zlLogs} \cup {EnTabla(numero[x]) : x \in enUso} : c.LogFd = g /\ c.LogLevel > 0
    BY <1>2, <2>1 DEF PendingIsSaved
  <2>3. CASE c = zlLogs
    BY <2>2, <2>3
  <2>4. ASSUME NEW x \in enUso, c = EnTabla(numero[x])
        PROVE  /\ x \in enUso'
               /\ zlLog'[numero[x] + 1] = c
    <3>1. x # l
      BY <1>a, <1>b, <2>1, <2>2, <2>4
    <3>2. x \in enUso' /\ numero[x] \in Numeros \ {n}
      BY <1>1, <1>6, <3>1
    <3> QED BY <1>4, <2>4, <3>2 DEF EnTabla
  <2> QED BY <1>1, <2>2, <2>3, <2>4 DEF EnTabla
<1>13. SeCierra(zlLogs)' /\ \A k \in Numeros' : SeCierra(EnTabla(k))'
  BY <1>1, <1>2, <1>4, <1>10 DEF SeCierra
<1> QED BY <1>1, <1>7, <1>8, <1>9, <1>11, <1>12, <1>13 DEF LogInv

\* The general log is closed like a channel.
LEMMA LogCloseSegura ==
  ASSUME LogInv, LogClose
  PROVE  LogInv'
<1>1. /\ zlLogs' = zlLog0 /\ ubLog = FALSE
      /\ Fclose(zlLogs)
      /\ UNCHANGED <<zlLog, MiPanic, zlLogFlush, numero, enUso, pedido, vivo>>
  BY DEF LogClose, usoVars, LogInv, FilesOwnedOnce, LogTypeOK
<1>2. /\ LogTypeOK /\ ChannelKeepsFile /\ FilesOwnedOnce /\ PendingIsSaved /\ SlotsOwned
      /\ SeCierra(zlLogs) /\ \A k \in Numeros : SeCierra(EnTabla(k))
  BY DEF LogInv
<1>3. zlLog0 \in Canales /\ zlLog0.LogFd = NULL /\ NULL \notin Files \cup {STDOUT}
  BY LogAssumption DEF zlLog0, Canal, Canales, Salidas
<1>4. /\ ubLog' = FALSE
      /\ abiertos' = abiertos \ ({zlLogs.LogFd} \ {STDOUT})
      /\ pendiente' = pendiente \ ({zlLogs.LogFd} \ {STDOUT})
  <2>1. zlLogs.LogFd \in Files => zlLogs.LogFd \in abiertos
    BY <1>2, LogAssumption DEF FilesOwnedOnce
  <2> QED BY <1>1, <1>2, <2>1, FcloseHace DEF LogTypeOK
<1>5. Numeros' = Numeros /\ zlLogNum' = zlLogNum /\ \A k : EnTabla(k)' = EnTabla(k)
  BY <1>1 DEF Numeros, zlLogNum, EnTabla
<1>6. LogTypeOK'
  BY <1>1, <1>2, <1>3, <1>4 DEF LogTypeOK
<1>7. ChannelKeepsFile' /\ SlotsOwned'
  BY <1>1, <1>2, <1>5 DEF ChannelKeepsFile, SlotsOwned
<1>8. FilesOwnedOnce'
  <2>1. zlLogs.LogFd \in Files \cup {STDOUT, NULL} /\ STDOUT \notin Files
    BY <1>2, LogAssumption DEF LogTypeOK, Canales, Salidas
  <2>2. zlLogs.LogFd \in Files => /\ \A k \in Numeros : EnTabla(k).LogFd # zlLogs.LogFd
                                  /\ MiPanic # zlLogs.LogFd
    BY <1>2 DEF FilesOwnedOnce
  <2>3. abiertos' = {STDOUT} \cup (({EnTabla(k).LogFd : k \in Numeros}
                                      \cup {NULL, MiPanic}) \ {NULL})
    BY <1>2, <1>4, <2>1, <2>2 DEF FilesOwnedOnce
  <2> QED BY <1>1, <1>2, <1>3, <1>4, <1>5, <2>3 DEF FilesOwnedOnce
<1>9. PendingIsSaved'
  BY <1>1, <1>2, <1>4, <1>5 DEF PendingIsSaved
<1>10. SeCierra(zlLogs)' /\ \A k \in Numeros' : SeCierra(EnTabla(k))'
  BY <1>1, <1>2, <1>3, <1>5 DEF SeCierra
<1> QED BY <1>6, <1>7, <1>8, <1>9, <1>10 DEF LogInv

\* A line is written to a FILE that is open, and stays pending for a log in use only.
LEMMA EscribeSegura ==
  ASSUME LogInv, NEW canal \in {zlLogs} \cup {EnTabla(numero[l]) : l \in enUso},
         NEW nivel \in Niveles, Escribe(canal, nivel)
  PROVE  LogInv'
<1>1. /\ canal.LogFd # NULL /\ canal.LogLevel > 0
      /\ ubLog' = (canal.LogFd \notin abiertos)
      /\ pendiente' \subseteq pendiente \cup {canal.LogFd}
      /\ UNCHANGED <<zlLog, zlLogs, MiPanic, zlLogFlush, abiertos, numero, enUso, pedido, vivo>>
  BY DEF Escribe, Valida, generalVars, usoVars
<1>2. /\ LogTypeOK /\ ChannelKeepsFile /\ FilesOwnedOnce /\ PendingIsSaved /\ SlotsOwned
      /\ SeCierra(zlLogs) /\ \A k \in Numeros : SeCierra(EnTabla(k))
  BY DEF LogInv
<1>3. canal.LogFd \in abiertos
  <2>1. canal = zlLogs \/ \E n \in Numeros : canal = EnTabla(n)
    BY <1>2 DEF ChannelKeepsFile
  <2> QED BY <1>1, <1>2, <2>1 DEF FilesOwnedOnce
<1>4. Numeros' = Numeros /\ zlLogNum' = zlLogNum /\ \A k : EnTabla(k)' = EnTabla(k)
  BY <1>1 DEF Numeros, zlLogNum, EnTabla
<1>5. LogTypeOK'
  BY <1>1, <1>2, <1>3 DEF LogTypeOK
<1>6. ChannelKeepsFile' /\ SlotsOwned'
  BY <1>1, <1>2, <1>4 DEF ChannelKeepsFile, SlotsOwned
<1>7. FilesOwnedOnce'
  BY <1>1, <1>2, <1>3, <1>4 DEF FilesOwnedOnce
<1>8. PendingIsSaved'
  <2>1. {zlLogs'} \cup {EnTabla(numero[l])' : l \in enUso'}
          = {zlLogs} \cup {EnTabla(numero[l]) : l \in enUso}
    BY <1>1, <1>4
  <2> QED BY <1>1, <1>2, <2>1 DEF PendingIsSaved
<1>9. SeCierra(zlLogs)' /\ \A k \in Numeros' : SeCierra(EnTabla(k))'
  BY <1>1, <1>2, <1>4 DEF SeCierra
<1> QED BY <1>5, <1>6, <1>7, <1>8, <1>9 DEF LogInv

\* Nothing is open, and there is no channel, at the start.
LEMMA LogInicio ==
  ASSUME LogEmpieza
  PROVE  LogInv
<1>1. zlLog = <<>> /\ zlLogNum = 0 /\ Numeros = {}
  BY DEF LogEmpieza, zlLogNum, Numeros
<1>2. zlLog0 \in Canales /\ zlLog0.LogFd = NULL /\ NULL \notin Files \cup {STDOUT}
  BY LogAssumption DEF zlLog0, Canal, Canales, Salidas
<1>3. Cardinality(Logs) \in Nat
  BY LogAssumption, FS_CardinalityType
<1>4. LogTypeOK
  <2>1. zlLog \in Seq(Canales)
    BY <1>1, EmptySeq
  <2> QED BY <1>2, <2>1 DEF LogEmpieza, LogTypeOK
<1>5. ChannelKeepsFile /\ PendingIsSaved /\ SlotsOwned
  BY <1>1, <1>3 DEF LogEmpieza, ChannelKeepsFile, PendingIsSaved, SlotsOwned
<1>6. FilesOwnedOnce
  BY <1>1, <1>2 DEF LogEmpieza, FilesOwnedOnce
<1>7. SeCierra(zlLogs) /\ \A k \in Numeros : SeCierra(EnTabla(k))
  BY <1>1, <1>2 DEF LogEmpieza, SeCierra
<1> QED BY <1>4, <1>5, <1>6, <1>7 DEF LogInv

\* Every step of an application that is careful about its logs.
LEMMA LogPaso ==
  ASSUME TodasLasReglasLog \subseteq ReglasLog, LogInv, [LogNext]_logVars
  PROVE  LogInv'
<1>0. "cerrado" \in ReglasLog /\ "reinicia" \in ReglasLog
  BY DEF TodasLasReglasLog
<1>1. ASSUME NEW l \in Logs, NEW fd \in Fopen, NEW nivel \in Niveles, LgInit(l, fd, nivel)
      PROVE  LogInv'
  BY <1>1, LgInitSegura
<1>2. ASSUME NEW l \in Logs, LgClose(l)
      PROVE  LogInv'
  BY <1>0, <1>2, LgCloseSegura
<1>3. ASSUME NEW l \in Logs, NEW nivel \in Niveles, LgW(l, nivel)
      PROVE  LogInv'
  <2>1. EnTabla(numero[l]) \in {zlLogs} \cup {EnTabla(numero[x]) : x \in enUso}
    BY <1>0, <1>3 DEF LgW, Usa
  <2> QED BY <1>3, <2>1, EscribeSegura DEF LgW
<1>4. ASSUME NEW fd \in Fopen, NEW nivel \in Niveles, LogInit(fd, nivel)
      PROVE  LogInv'
  BY <1>0, <1>4, LogInitSegura
<1>5. ASSUME NEW fd \in Fopen, PanicInit(fd)
      PROVE  LogInv'
  BY <1>0, <1>5, PanicInitSegura
<1>6. CASE LogClose
  BY <1>6, LogCloseSegura
<1>7. ASSUME NEW nivel \in Niveles, LogW(nivel)
      PROVE  LogInv'
  BY <1>7, EscribeSegura DEF LogW
<1>8. ubLog = FALSE /\ vivo \in BOOLEAN /\ zlLogFlush \in BOOLEAN /\ MiPanic \in abiertos \cup {NULL}
  BY DEF LogInv, LogTypeOK, FilesOwnedOnce
<1>9. CASE zlLogFlushOn \/ zlLogFlushOff
  <2>1. /\ UNCHANGED <<zlLog, zlLogs, MiPanic, abiertos, usoVars>>
        /\ ubLog' = FALSE /\ zlLogFlush' \in BOOLEAN /\ vivo' \in BOOLEAN /\ vivo' = vivo
        /\ pendiente' = pendiente
    BY <1>8, <1>9 DEF zlLogFlushOn, zlLogFlushOff, ficheroVars
  <2> QED BY <2>1, TablaIgual
<1>10. CASE Panic
  BY <1>8, <1>10, TablaIgual DEF Panic, Llama, generalVars, ficheroVars
<1>11. CASE UNCHANGED logVars
  BY <1>8, <1>11, TablaIgual DEF logVars, generalVars, ficheroVars
<1> QED BY <1>1, <1>2, <1>3, <1>4, <1>5, <1>6, <1>7, <1>9, <1>10, <1>11 DEF LogNext

-----------------------------------------------------------------------------
\* The theorems.

\* LogInv holds all along, for an application that uses no number after LgClose and
\* opens no log that is open.
THEOREM LogInvariant ==
  ASSUME TodasLasReglasLog \subseteq ReglasLog
  PROVE  LogSpec => []LogInv
<1>1. LogEmpieza => LogInv
  BY LogInicio
<1>2. LogInv /\ [LogNext]_logVars => LogInv'
  BY LogPaso
<1> QED BY <1>1, <1>2, PTL DEF LogSpec

\* The variables hold what their C types allow.
THEOREM LogTypeCorrect ==
  ASSUME TodasLasReglasLog \subseteq ReglasLog
  PROVE  LogSpec => []LogTypeOK
<1>1. LogInv => LogTypeOK
  BY DEF LogInv
<1> QED BY <1>1, LogInvariant, PTL

\* A log in use keeps the slot, the FILE and the level that LgInit gave it, whatever
\* is opened and closed around it.
THEOREM LogKeepsFile ==
  ASSUME TodasLasReglasLog \subseteq ReglasLog
  PROVE  LogSpec => []ChannelKeepsFile
<1>1. LogInv => ChannelKeepsFile
  BY DEF LogInv
<1> QED BY <1>1, LogInvariant, PTL

\* The FILEs that are open are those of the logs that are open, one each, and no FILE
\* is used after fclose.
THEOREM LogFilesOwned ==
  ASSUME TodasLasReglasLog \subseteq ReglasLog
  PROVE  LogSpec => []FilesOwnedOnce
<1>1. LogInv => FilesOwnedOnce
  BY DEF LogInv
<1> QED BY <1>1, LogInvariant, PTL

\* A line that is not on disk belongs to a log whose closing writes it.
THEOREM LogPendingSaved ==
  ASSUME TodasLasReglasLog \subseteq ReglasLog
  PROVE  LogSpec => []PendingIsSaved
<1>1. LogInv => PendingIsSaved
  BY DEF LogInv
<1> QED BY <1>1, LogInvariant, PTL

-----------------------------------------------------------------------------
\* The refinement.

\* As many active slots as logs in use.
LEMMA LogActivos == LogInv => Cardinality(Activos) = Cardinality(enUso)
<1> SUFFICES ASSUME LogInv PROVE Cardinality(Activos) = Cardinality(enUso)
  OBVIOUS
<1> DEFINE f == [l \in enUso |-> numero[l]]
<1>1. IsFiniteSet(enUso)
  BY LogAssumption, FS_Subset DEF LogInv, LogTypeOK
<1>2. \A l \in enUso : numero[l] \in Activos
  BY DEF LogInv, ChannelKeepsFile, SlotsOwned, Activos
<1>3. \A p, q \in enUso : f[p] = f[q] => p = q
  BY DEF LogInv, SlotsOwned
<1>4. \A n \in Activos : \E l \in enUso : f[l] = n
  BY DEF LogInv, SlotsOwned, Activos
<1>5. f \in [enUso -> Activos]
  BY <1>2
<1> HIDE DEF f
<1>6. f \in Bijection(enUso, Activos)
  BY <1>3, <1>4, <1>5 DEF Bijection, Injection, IsInjective, Surjection
<1>7. ExistsBijection(enUso, Activos)
  BY <1>6 DEF ExistsBijection
<1> QED BY <1>1, <1>7, FS_Bijection

\* No log in use has the number that stands for none.
LEMMA LogNumeros ==
  ASSUME LogInv
  PROVE  /\ \A l \in enUso : l \in Logs /\ numero[l] \in Nat
         /\ AbstractoLog!Abiertos = enUso
<1>1. zlLogNum \in Nat
  BY CreaLibre DEF LogInv, LogTypeOK
<1>2. \A l \in enUso : l \in Logs /\ numero[l] \in Nat
  BY <1>1 DEF LogInv, LogTypeOK, ChannelKeepsFile, Numeros
<1> QED BY <1>2 DEF AbstractoLog!Abiertos, AbstractoLog!SinCanal, SinNumero, CanalDe, LogInv, LogTypeOK

\* LgInit is Abre, on a channel that is free.
LEMMA LgInitAbre ==
  ASSUME LogInv, LogInv', NEW l \in Logs, NEW fd \in Fopen, NEW nivel \in Niveles,
         LgInit(l, fd, nivel)
  PROVE  AbstractoLog!Next
<1>a. PICK n : n = Crea
  OBVIOUS
<1>1. l \notin enUso /\ enUso' = enUso \cup {l} /\ numero' = [numero EXCEPT ![l] = n]
  BY <1>a DEF LgInit
<1>2. n \in Nat /\ n + 1 <= Cardinality(Logs) /\ Cardinality(Logs) \in Nat
  BY <1>a, <1>1, CabeOtroLog, CreaLibre DEF LogInv, LogTypeOK
<1>3. \A x \in enUso : x # l /\ numero'[x] = numero[x] /\ numero[x] # n
  <2>1. numero \in [Logs -> Nat \cup {SinNumero}] /\ enUso \subseteq Logs
    BY DEF LogInv, LogTypeOK
  <2>2. numero'[l] = n
    BY <1>1, <2>1
  <2>3. \A x, otro \in enUso' : numero'[x] = numero'[otro] => x = otro
    BY DEF LogInv, SlotsOwned
  <2> QED BY <1>1, <2>1, <2>2, <2>3
<1>4. CanalDe' = [CanalDe EXCEPT ![l] = n]
  BY <1>1, <1>3 DEF CanalDe, LogInv, LogTypeOK
<1>5. Cardinality(Activos)' = Cardinality(Activos) + 1
  <2>1. IsFiniteSet(enUso)
    BY LogAssumption, FS_Subset DEF LogInv, LogTypeOK
  <2>2. Cardinality(enUso') = Cardinality(enUso) + 1
    BY <1>1, <2>1, FS_AddElement
  <2>3. Cardinality(Activos) = Cardinality(enUso)
    BY LogActivos
  <2>4. (Cardinality(Activos) = Cardinality(enUso))'
    BY LogActivos, PTL
  <2> QED BY <2>2, <2>3, <2>4
<1>6. n \in AbstractoLog!Libres
  <2>1. AbstractoLog!Cardinality(Logs) = Cardinality(Logs)
    BY Zenon DEF AbstractoLog!Cardinality, Cardinality
  <2>2. AbstractoLog!Abiertos = enUso /\ \A x \in enUso : x \in Logs
    BY LogNumeros
  <2>3. n \notin AbstractoLog!EnUso
    BY <1>3, <2>2 DEF AbstractoLog!EnUso, CanalDe
  <2> QED BY <1>2, <2>1, <2>3 DEF AbstractoLog!Libres
<1>7. AbstractoLog!Abre(l, n)
  BY <1>1, <1>4, <1>5, <1>6, LogNumeros DEF AbstractoLog!Abre
<1> QED BY <1>6, <1>7 DEF AbstractoLog!Next

\* LgClose is Cierra.
LEMMA LgCloseCierra ==
  ASSUME "cerrado" \in ReglasLog, LogInv, LogInv', NEW l \in Logs, LgClose(l)
  PROVE  AbstractoLog!Next
<1>1. l \in enUso /\ enUso' = enUso \ {l} /\ numero' = numero
  BY DEF LgClose, Usa
<1>2. CanalDe' = [CanalDe EXCEPT ![l] = AbstractoLog!SinCanal]
  BY <1>1 DEF CanalDe, AbstractoLog!SinCanal, SinNumero
<1>3. Cardinality(Activos)' = Cardinality(Activos) - 1
  <2>1. IsFiniteSet(enUso)
    BY LogAssumption, FS_Subset DEF LogInv, LogTypeOK
  <2>2. Cardinality(enUso') = Cardinality(enUso) - 1
    BY <1>1, <2>1, FS_RemoveElement
  <2>3. Cardinality(Activos) = Cardinality(enUso)
    BY LogActivos
  <2>4. (Cardinality(Activos) = Cardinality(enUso))'
    BY LogActivos, PTL
  <2> QED BY <2>2, <2>3, <2>4
<1>4. AbstractoLog!Cierra(l)
  BY <1>1, <1>2, <1>3, LogNumeros DEF AbstractoLog!Cierra
<1> QED BY <1>4 DEF AbstractoLog!Next

\* zlLog implements Canales: a number is one log's until it is closed, and numbers are
\* reused, so that they stay below the number of logs there can be.
THEOREM LogKeepsChannels ==
  ASSUME TodasLasReglasLog \subseteq ReglasLog
  PROVE  LogSpec => LogImplementsCanales
<1>1. LogEmpieza => AbstractoLog!Init
  <2> SUFFICES ASSUME LogEmpieza PROVE AbstractoLog!Init
    OBVIOUS
  <2>1. LogInv /\ enUso = {}
    BY LogInicio DEF LogEmpieza
  <2>2. Cardinality(Activos) = 0
    BY <2>1, LogActivos, FS_EmptySet
  <2> QED BY <2>1, <2>2 DEF AbstractoLog!Init, AbstractoLog!SinCanal, SinNumero, CanalDe
<1>2. LogInv /\ LogInv' /\ [LogNext]_logVars => [AbstractoLog!Next]_(AbstractoLog!vars)
  <2> SUFFICES ASSUME LogInv, LogInv', [LogNext]_logVars
               PROVE  [AbstractoLog!Next]_(AbstractoLog!vars)
    OBVIOUS
  <2>1. ASSUME NEW l \in Logs, NEW fd \in Fopen, NEW nivel \in Niveles, LgInit(l, fd, nivel)
        PROVE  AbstractoLog!Next
    BY <2>1, LgInitAbre
  <2>2. ASSUME NEW l \in Logs, LgClose(l)
        PROVE  AbstractoLog!Next
    BY <2>2, LgCloseCierra DEF TodasLasReglasLog
  <2>3. ASSUME enUso' = enUso, numero' = numero
        PROVE  UNCHANGED AbstractoLog!vars
    <3>1. CanalDe' = CanalDe
      BY <2>3 DEF CanalDe
    <3>2. Cardinality(Activos) = Cardinality(enUso)
      BY LogActivos
    <3>3. (Cardinality(Activos) = Cardinality(enUso))'
      BY LogActivos, PTL
    <3> QED BY <2>3, <3>1, <3>2, <3>3 DEF AbstractoLog!vars
  <2>4. ASSUME NEW l \in Logs, NEW nivel \in Niveles, LgW(l, nivel)
        PROVE  enUso' = enUso /\ numero' = numero
    BY <2>4 DEF LgW, Escribe, usoVars
  <2>5. ASSUME NEW fd \in Fopen, NEW nivel \in Niveles, LogInit(fd, nivel)
        PROVE  enUso' = enUso /\ numero' = numero
    BY <2>5 DEF LogInit, usoVars
  <2>6. ASSUME NEW fd \in Fopen, PanicInit(fd)
        PROVE  enUso' = enUso /\ numero' = numero
    BY <2>6 DEF PanicInit, usoVars
  <2>7. ASSUME NEW nivel \in Niveles, LogW(nivel)
        PROVE  enUso' = enUso /\ numero' = numero
    BY <2>7 DEF LogW, Escribe, usoVars
  <2>8. CASE LogClose \/ zlLogFlushOn \/ zlLogFlushOff \/ Panic \/ UNCHANGED logVars
    <3>1. enUso' = enUso /\ numero' = numero
      BY <2>8 DEF LogClose, zlLogFlushOn, zlLogFlushOff, Panic, logVars, usoVars
    <3> QED BY <2>3, <3>1
  <2> QED BY <2>1, <2>2, <2>3, <2>4, <2>5, <2>6, <2>7, <2>8 DEF LogNext
<1> QED BY <1>1, <1>2, LogInvariant, PTL DEF LogSpec, LogImplementsCanales, AbstractoLog!Spec
=============================================================================
