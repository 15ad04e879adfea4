-------------------------------- MODULE Log ---------------------------------
(***************************************************************************)
(* zlLog.c: a growing table of log channels, each a FILE and a level, with *)
(* the slots of closed channels reused; the general log zlLogs; and the    *)
(* panic log, whose assertion ends the process.                            *)
(*                                                                         *)
(* Lines of text are abstracted to whether a FILE has some that are not on *)
(* disk yet; names, MaxLen and Pasa, which no function reads, are left out.*)
(***************************************************************************)
EXTENDS Nulo, Integers, Sequences, FiniteSets

CONSTANTS
  Logs,      \* the logs of the application, one channel each while in use
  Files,     \* the FILE structs fopen can return
  STDOUT,
  Niveles,   \* the levels asked for: channels of level 0 or less write nothing
  ReglasLog  \* what the application is careful about

TodasLasReglasLog == {"cerrado",    \* a channel number is not used after LgClose
                      "reinicia"}   \* a log that is open is not opened again

ASSUME LogAssumption == /\ IsFiniteSet(Logs)
                        /\ NULL \notin Files \cup {STDOUT} /\ STDOUT \notin Files
                        /\ Niveles \subseteq Int
                        /\ ReglasLog \subseteq TodasLasReglasLog

VARIABLES
  zlLog,       \* the table; zlLogNum is its length
  zlLogs,      \* the general log
  MiPanic,     \* the FILE of the panic log
  zlLogFlush,
  abiertos,    \* the FILEs that are open
  pendiente,   \* those with lines that are not on disk
  numero,      \* what LgInit answered to each log, SinNumero before the first
  enUso,       \* the logs opened and not closed
  pedido,      \* history: the FILE and level each log in use was opened with
  ubLog,       \* undefined behaviour met
  vivo         \* FALSE when Panic has ended the process

generalVars == <<zlLogs, MiPanic, zlLogFlush>>
ficheroVars == <<abiertos, pendiente>>
usoVars == <<numero, enUso, pedido>>
logVars == <<zlLog, generalVars, ficheroVars, usoVars, ubLog, vivo>>

SinNumero == -1

\* zlLog_t
Canal(activo, fd, nivel) == [Activo |-> activo, LogFd |-> fd, LogLevel |-> nivel]

zlLog0 == Canal(FALSE, NULL, 0)

Salidas == Files \cup {STDOUT, NULL}

Canales == [Activo : BOOLEAN, LogFd : Salidas, LogLevel : Niveles \cup {0}]

zlLogNum == Len(zlLog)

Numeros == 0 .. zlLogNum - 1

EnTabla(n) == zlLog[n + 1]

LogEmpieza == /\ zlLog = <<>>
              /\ zlLogs = zlLog0
              /\ MiPanic = NULL
              /\ zlLogFlush = FALSE
              /\ abiertos = {STDOUT}
              /\ pendiente = {}
              /\ numero = [l \in Logs |-> SinNumero]
              /\ enUso = {}
              /\ pedido = [l \in Logs |-> zlLog0]
              /\ ubLog = FALSE
              /\ vivo = TRUE

Llama == vivo /\ ~ubLog

-----------------------------------------------------------------------------
Libres == {n \in Numeros : ~EnTabla(n).Activo}

\* Mutant of Crea: the search stops one slot early.
CreaSinElUltimo == LET libres == Libres \ {zlLogNum - 1}
                   IN IF libres = {}
                      THEN zlLogNum
                      ELSE CHOOSE n \in libres : \A otro \in libres : n <= otro

\* Mutant of Crea: with no free slot, the last one is handed out again.
CreaPisa == IF Libres = {}
            THEN IF zlLogNum = 0 THEN 0 ELSE zlLogNum - 1
            ELSE CHOOSE n \in Libres : \A otro \in Libres : n <= otro

\* zlLogCrea: the number of the first free slot, or the one past the end.
Crea == IF Libres = {}
        THEN zlLogNum
        ELSE CHOOSE n \in Libres : \A otro \in Libres : n <= otro

\* The slot that zlLogCrea leaves: an old one as it was, a new one empty.
Hueco(n) == [(IF n \in Numeros THEN EnTabla(n) ELSE zlLog0) EXCEPT !.Activo = TRUE]

Pon(n, canal) == IF n \in Numeros
                 THEN [zlLog EXCEPT ![n + 1] = canal]
                 ELSE Append(zlLog, canal)

\* fopen(FileName, "a"): a FILE that is not open, or a failure; stdout when there
\* is no name.
Fopen == (Files \ abiertos) \cup {STDOUT, NULL}

\* Nothing is opened, and the FILE is left alone, for a level that writes nothing;
\* a failure of fopen silences the log.
Abierto(canal, fd, nivel) ==
  CASE nivel <= 0             -> [canal EXCEPT !.LogLevel = nivel]
    [] nivel > 0 /\ fd = NULL -> [canal EXCEPT !.LogLevel = 0, !.LogFd = NULL]
    [] OTHER                  -> [canal EXCEPT !.LogLevel = nivel, !.LogFd = fd]

Abre(canal) == abiertos' = abiertos \cup ({canal.LogFd} \ {NULL})

LgInit(l, fd, nivel) ==
  /\ Llama /\ l \notin enUso /\ fd \in Fopen
  /\ LET canal == Abierto(Hueco(Crea), fd, nivel)
     IN /\ zlLog' = Pon(Crea, canal)
        /\ Abre(canal)
        /\ pedido' = [pedido EXCEPT ![l] = canal]
  /\ numero' = [numero EXCEPT ![l] = Crea]
  /\ enUso' = enUso \cup {l}
  /\ UNCHANGED <<generalVars, pendiente, ubLog, vivo>>

\* LogInit, and LogInitStd, which is LogInit(NULL, nivel).
LogInit(fd, nivel) ==
  /\ Llama /\ fd \in Fopen
  /\ "reinicia" \in ReglasLog => zlLogs.LogFd = NULL
  /\ zlLogs' = Abierto(zlLogs, fd, nivel)
  /\ Abre(zlLogs')
  /\ UNCHANGED <<zlLog, MiPanic, zlLogFlush, pendiente, usoVars, ubLog, vivo>>

\* A failure of fopen ends the process with exit, which writes what is pending.
PanicInit(fd) ==
  /\ Llama /\ fd \in Fopen \ {STDOUT}
  /\ "reinicia" \in ReglasLog => MiPanic = NULL
  /\ MiPanic' = fd
  /\ abiertos' = abiertos \cup ({fd} \ {NULL})
  /\ vivo' = (fd # NULL)
  /\ pendiente' = IF fd # NULL THEN pendiente ELSE {}
  /\ UNCHANGED <<zlLog, zlLogs, zlLogFlush, usoVars, ubLog>>

-----------------------------------------------------------------------------
\* What closing a log does to its FILE: fclose writes what is pending, on a FILE
\* that must be open; stdout is left alone.
Fclose(canal) ==
  IF canal.LogLevel > 0 /\ canal.LogFd \notin {NULL, STDOUT}
  THEN /\ ubLog' = (canal.LogFd \notin abiertos)
       /\ abiertos' = abiertos \ {canal.LogFd}
       /\ pendiente' = pendiente \ {canal.LogFd}
  ELSE UNCHANGED <<ubLog, ficheroVars>>

\* A log uses the number it was given, as long as it is its own or for ever.
Usa(l) == /\ Llama
          /\ numero[l] # SinNumero
          /\ "cerrado" \in ReglasLog => l \in enUso

\* Mutant of LgClose: the FILE is not closed.
LgCloseSinFclose(l) ==
  /\ Usa(l)
  /\ zlLog' = [zlLog EXCEPT ![numero[l] + 1] = zlLog0]
  /\ enUso' = enUso \ {l}
  /\ UNCHANGED <<generalVars, ficheroVars, numero, pedido, ubLog, vivo>>

\* The number is in the table: it was, and the table does not shrink.
LgClose(l) ==
  /\ Usa(l)
  /\ zlLog' = [zlLog EXCEPT ![numero[l] + 1] = zlLog0]
  /\ Fclose(EnTabla(numero[l]))
  /\ enUso' = enUso \ {l}
  /\ UNCHANGED <<generalVars, numero, pedido, vivo>>

LogClose ==
  /\ Llama
  /\ zlLogs' = zlLog0
  /\ Fclose(zlLogs)
  /\ UNCHANGED <<zlLog, MiPanic, zlLogFlush, usoVars, vivo>>

-----------------------------------------------------------------------------
\* validaNumLog, validaLog
Valida(canal, nivel) == canal.LogFd # NULL /\ canal.LogLevel > 0 /\ nivel <= canal.LogLevel

Escribe(canal, nivel) ==
  /\ Valida(canal, nivel)
  /\ ubLog' = (canal.LogFd \notin abiertos)
  /\ pendiente' = IF zlLogFlush THEN pendiente \ {canal.LogFd}
                                ELSE pendiente \cup {canal.LogFd}
  /\ UNCHANGED <<zlLog, generalVars, abiertos, usoVars, vivo>>

LgW(l, nivel) == Usa(l) /\ Escribe(EnTabla(numero[l]), nivel)

\* LogW, and LgW(-1).
LogW(nivel) == Llama /\ Escribe(zlLogs, nivel)

zlLogFlushOn == /\ Llama /\ zlLogFlush' = TRUE
                /\ UNCHANGED <<zlLog, zlLogs, MiPanic, ficheroVars, usoVars, ubLog, vivo>>

zlLogFlushOff == /\ Llama /\ zlLogFlush' = FALSE
                 /\ UNCHANGED <<zlLog, zlLogs, MiPanic, ficheroVars, usoVars, ubLog, vivo>>

\* A Panic whose expression is false: the line goes to MiPanic, or to stderr, and
\* assert aborts, which does not write what is pending in the other FILEs.
Panic ==
  /\ Llama
  /\ vivo' = FALSE
  /\ ubLog' = (MiPanic # NULL /\ MiPanic \notin abiertos)
  /\ UNCHANGED <<zlLog, generalVars, ficheroVars, usoVars>>

LogNext == \/ \E l \in Logs : \/ \E fd \in Fopen, nivel \in Niveles : LgInit(l, fd, nivel)
                              \/ LgClose(l)
                              \/ \E nivel \in Niveles : LgW(l, nivel)
           \/ \E fd \in Fopen, nivel \in Niveles : LogInit(fd, nivel)
           \/ \E fd \in Fopen : PanicInit(fd)
           \/ LogClose
           \/ \E nivel \in Niveles : LogW(nivel)
           \/ zlLogFlushOn
           \/ zlLogFlushOff
           \/ Panic

LogSpec == LogEmpieza /\ [][LogNext]_logVars

-----------------------------------------------------------------------------
\* The variables hold what their C types and the comments above allow.
LogTypeOK == /\ zlLog \in Seq(Canales)
             /\ zlLogs \in Canales
             /\ MiPanic \in Files \cup {NULL}
             /\ zlLogFlush \in BOOLEAN
             /\ abiertos \subseteq Files \cup {STDOUT}
             /\ pendiente \subseteq Files \cup {STDOUT}
             /\ numero \in [Logs -> Nat \cup {SinNumero}]
             /\ enUso \subseteq Logs
             /\ pedido \in [Logs -> Canales]
             /\ ubLog \in BOOLEAN
             /\ vivo \in BOOLEAN

\* A log in use has its slot, with the FILE and the level it was opened with,
\* however often the slots around it were closed and handed out again.
ChannelKeepsFile == \A l \in enUso : numero[l] \in Numeros /\ EnTabla(numero[l]) = pedido[l]

\* The FILEs that are open are those of the logs that are open, no two of which have
\* the same one: none is left open when its log is closed or its slot reused, and
\* none was written to or closed after fclose.
FilesOwnedOnce ==
  /\ ~ubLog
  /\ abiertos = {STDOUT} \cup (({EnTabla(n).LogFd : n \in Numeros}
                                  \cup {zlLogs.LogFd, MiPanic}) \ {NULL})
  /\ \A n \in Numeros : EnTabla(n).LogFd \in Files
       => /\ EnTabla(n).LogFd \notin {zlLogs.LogFd, MiPanic}
          /\ \A otro \in Numeros \ {n} : EnTabla(otro).LogFd # EnTabla(n).LogFd
  /\ zlLogs.LogFd \in Files => zlLogs.LogFd # MiPanic

\* A line that is not on disk yet will be, if the application closes its logs: the
\* FILE is that of a log it has open, at a level for which closing calls fclose.
PendingIsSaved ==
  vivo => \A fd \in pendiente \ {STDOUT} :
            \E canal \in {zlLogs} \cup {EnTabla(numero[l]) : l \in enUso} :
               canal.LogFd = fd /\ canal.LogLevel > 0

\* The numbers given to the logs are channels, see Canales.
Activos == {n \in Numeros : EnTabla(n).Activo}

CanalDe == [l \in Logs |-> IF l \in enUso THEN numero[l] ELSE SinNumero]

AbstractoLog == INSTANCE Canales WITH
                Items <- Logs, canalDe <- CanalDe, activos <- Cardinality(Activos)

\* zlLog keeps the promise of Canales, like zlListap.
LogImplementsCanales == AbstractoLog!Spec

\* Every slot is free and empty, or that of one log in use; and the table does not
\* grow beyond the logs there are.
SlotsOwned ==
  /\ \A n \in Numeros : IF EnTabla(n).Activo
                        THEN \E l \in enUso : numero[l] = n
                        ELSE EnTabla(n) = zlLog0
  /\ \A l \in enUso : pedido[l].Activo
  /\ \A l, otro \in enUso : numero[l] = numero[otro] => l = otro
  /\ zlLogNum <= Cardinality(Logs)

\* Closing a log that has a FILE closes the FILE.
SeCierra(canal) == canal.LogFd \in Files => canal.LogLevel > 0

\* What every step preserves: ChannelKeepsFile needs the slots to be owned, and
\* FilesOwnedOnce needs the free ones to be empty and the others to be closed by level.
LogInv == /\ LogTypeOK
          /\ ChannelKeepsFile
          /\ FilesOwnedOnce
          /\ PendingIsSaved
          /\ SlotsOwned
          /\ SeCierra(zlLogs)
          /\ \A n \in Numeros : SeCierra(EnTabla(n))
=============================================================================
