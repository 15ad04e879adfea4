---------------------------- MODULE Bibliotecas -----------------------------
(***************************************************************************)
(* The utilities of zlStd.ws, the lists without handles, the timers of     *)
(* zlEvtTimer, and the libraries of libevent.ws.old with their tests.      *)
(* They do not use each other: a program uses one of them, and the state   *)
(* of the others stays as it was.                                          *)
(***************************************************************************)
EXTENDS Funciones, Ean13, Temporizador, Fechas, BufRead, Dir, Lista1, Enlazada,
        ClienteViejo, ServidorViejo, SocketViejo, Pruebas, PruebaTimer, PruebaSocket

VARIABLE programa    \* which one

viejosVars == <<viejoVars, respuestaVars, servidorVars, vNLog, vLista>>
vars == <<funVars, eanVars, tempVars, fechaVars, bufVars, dirVars, listaVars, enlazadaVars,
          timerVars, viejosVars, pVars, pruebaTimerVars, pruebaSocketVars, programa>>

Servidores == {"servidor viejo", "socket viejo"}
Viejos == Servidores \cup {"cliente viejo"}
Programas == {"funciones", "ean13", "temporizador", "fechas", "lector", "carpeta",
              "lista", "enlazada", "timers", "pruebas", "prueba timer", "prueba socket"}
             \cup Viejos

\* What the programs start with; those that are not run have one of their states.
Empieza(ps, estados) ==
  IF programa \in ps THEN estados ELSE {CHOOSE estado \in estados : TRUE}

Init == /\ programa \in Programas
        /\ codigo \in Empieza({"ean13"}, Codigos)
        /\ ahora \in Empieza({"fechas"}, Momentos)
        /\ texto \in Empieza({"lector"}, Textos)
        /\ tipo \in Empieza({"carpeta"}, [Nombres -> TiposFile])
        /\ prueba \in Empieza({"pruebas"}, Guiones)
        /\ vRegistra \in IF programa \in Servidores THEN BOOLEAN ELSE {FALSE}
        /\ FunInit /\ EanInit /\ TempInit /\ FechaInit
        /\ BufInit /\ DirInit /\ ListaInit /\ EnlazadaInit /\ TimerInit
        /\ ViejoInit /\ ClienteInit /\ RegistroInit /\ SocketInit
        /\ PruebaInit /\ PruebaTimerInit /\ PruebaSocketInit

Next ==
  /\ UNCHANGED programa
  /\ \/ programa = "funciones" /\ FunNext
     \/ programa = "ean13" /\ EanNext
     \/ programa = "temporizador" /\ TempNext
     \/ programa = "fechas" /\ FechaNext
     \/ programa = "lector" /\ BufNext
     \/ programa = "carpeta" /\ DirNext
     \/ programa = "lista" /\ ListaNext
     \/ programa = "enlazada" /\ EnlazadaNext
     \/ programa = "timers" /\ TimerNext
     \/ programa = "cliente viejo" /\ ClienteNext
     \/ programa = "servidor viejo" /\ ServidorNext
     \/ programa = "socket viejo" /\ SocketNext
     \/ programa = "pruebas" /\ PruebaNext
     \/ programa = "prueba timer" /\ PruebaTimerNext
     \/ programa = "prueba socket" /\ PruebaSocketNext
  /\ IF programa = "funciones" THEN TRUE ELSE UNCHANGED funVars
  /\ IF programa = "ean13" THEN TRUE ELSE UNCHANGED eanVars
  /\ IF programa = "temporizador" THEN TRUE ELSE UNCHANGED tempVars
  /\ IF programa = "fechas" THEN TRUE ELSE UNCHANGED fechaVars
  /\ IF programa = "lector" THEN TRUE ELSE UNCHANGED bufVars
  /\ IF programa = "carpeta" THEN TRUE ELSE UNCHANGED dirVars
  /\ IF programa = "lista" THEN TRUE ELSE UNCHANGED listaVars
  /\ IF programa = "enlazada" THEN TRUE ELSE UNCHANGED enlazadaVars
  /\ IF programa \in {"timers", "prueba timer"} THEN TRUE ELSE UNCHANGED timerVars
  /\ IF programa \in Viejos THEN TRUE ELSE UNCHANGED viejoVars
  /\ IF programa = "cliente viejo" THEN TRUE ELSE UNCHANGED respuestaVars
  /\ IF programa \in Servidores THEN TRUE ELSE UNCHANGED servidorVars
  /\ IF programa = "socket viejo" THEN TRUE ELSE UNCHANGED <<vNLog, vLista>>
  /\ IF programa = "pruebas" THEN TRUE ELSE UNCHANGED pVars
  /\ IF programa = "prueba timer" THEN TRUE ELSE UNCHANGED pruebaTimerVars
  /\ IF programa = "prueba socket" THEN TRUE ELSE UNCHANGED pruebaSocketVars

\* The fairness of each module, for the program that runs: what the loop does with a
\* connection that is to be closed, and the callbacks that return.
Sale(s) ==
  \/ /\ programa = "cliente viejo" /\ ClienteSale(s)
     /\ UNCHANGED <<servidorVars, vNLog, vLista>>
  \/ /\ programa = "servidor viejo" /\ zlServerSocketWriteClose_cb(s)
     /\ UNCHANGED <<respuestaVars, vNLog, vLista>>
  \/ /\ programa = "socket viejo" /\ SocketSale(s)
     /\ UNCHANGED respuestaVars
Vuelven ==
  \/ /\ programa = "cliente viejo" /\ ClienteVuelven
     /\ UNCHANGED <<servidorVars, vNLog, vLista>>
  \/ /\ programa = "servidor viejo" /\ ServidorVuelven
     /\ UNCHANGED <<respuestaVars, vNLog, vLista>>
  \/ /\ programa = "socket viejo" /\ zlEvtSocketVuelve
     /\ UNCHANGED respuestaVars
VuelveFinDe(s) ==
  /\ programa = "socket viejo" /\ zlEvtSocketVuelveFin(s)
  /\ UNCHANGED respuestaVars

Fairness ==
  /\ \A s \in Cxs : SF_viejosVars(Sale(s)) /\ SF_viejosVars(VuelveFinDe(s))
  /\ SF_viejosVars(Vuelven)
  /\ \A t \in Timers : SF_timerVars(programa = "timers" /\ libera[t] /\ Lanza(t))
  /\ WF_timerVars(programa = "timers" /\ Vuelve)
  /\ WF_bufVars(programa = "lector" /\ zlrBufReadNext)
  /\ WF_pVars(programa = "pruebas" /\ PruebaNext)
  /\ WF_<<timerVars, pruebaTimerVars>>(programa = "prueba timer" /\ PruebaTimerNext)
  /\ WF_pruebaSocketVars(programa = "prueba socket" /\ PruebaSocketNext)

Spec == Init /\ [][Next]_vars /\ Fairness

-----------------------------------------------------------------------------
\* A program keeps to its own library, so that each of these says what it says alone.
DatesAreRight == DaysAgoIsRight /\ MonthBeforeIsRight /\ FieldsAreOfNow /\ TimeOfDate

\* A walk sees all that a list has, and what is linked can be walked both ways.
ListsAreRight == WalkSeesAll /\ ListIsLinked

\* Only SocketViejo has sockets with a log of their own.
RegisterIsKept == RegisterIsExact /\ (programa = "socket viejo" => SocketKeepsLog)

\* A program that reads a buffer comes to its end.
ReaderEnds == programa = "lector" => ReaderGoesAway

\* The same of the timers that free themselves.
TimersGoAway == programa = "timers" => LiberaGoesAway

\* A connection whose last output the application asked to be followed by the close is
\* freed, or the application takes the order back, where that can be done.
CloseIsDone == programa \in Viejos => \A s \in Cxs : s \in vCierra ~> s \notin vCierra

\* No assertion of the repository's tests fails.
TestsHold == ServerTestsHold /\ TimerTestHolds /\ SocketTestHolds

\* A program of tests comes to the end of them.
TestEnds == /\ programa = "pruebas" => ServerTestsEnd
            /\ programa = "prueba timer" => TimerTestEnds
            /\ programa = "prueba socket" => SocketTestEnds
=============================================================================
