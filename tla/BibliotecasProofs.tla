------------------------- MODULE BibliotecasProofs --------------------------
(***************************************************************************)
(* Proofs about the timers, the libraries of libevent.ws.old and the tests *)
(* of the repository: nothing is used that was freed, and the registers of *)
(* the connections are exact, for any number of timers, connections and    *)
(* files; and about all the programs, each with its own library.           *)
(***************************************************************************)
EXTENDS Bibliotecas, UtilidadesProofs

-----------------------------------------------------------------------------
\* The timers of zlEvtTimer.

\* Whoever holds a pointer holds it to a timer that is there, and the application has
\* none to a timer that the library is to free.
TimerInv ==
  /\ TypeOK
  /\ ub = "no"
  /\ \A t \in conocidos : mem[t] = "vivo" /\ ~(libera[t] /\ (pendiente[t] \/ corriendo = t))
  /\ \A t \in Timers : pendiente[t] => mem[t] = "vivo"
  /\ corriendo # NULL /\ libera[corriendo] => mem[corriendo] = "vivo"

\* TimerInv is inductive for an application that forgets the Libera timers that it has
\* activated.
LEMMA TimerInvPaso ==
  ASSUME "libera" \in Reglas, TimerInv, [TimerNext]_timerVars
  PROVE  TimerInv'
<1>1. NULL \notin Timers
  BY TimerAssumption
<1>2. ASSUME NEW t \in Timers, NEW conLibera \in BOOLEAN, NEW activa \in BOOLEAN,
             Nuevo(t, conLibera, activa)
      PROVE  TimerInv'
  BY <1>1, <1>2 DEF TimerInv, TypeOK, Nuevo, Olvida
<1>3. ASSUME NEW t \in Timers, zlEvtTimerActiva(t)
      PROVE  TimerInv'
  BY <1>1, <1>3 DEF TimerInv, TypeOK, zlEvtTimerActiva, PonPendiente, Usa, Olvida
<1>4. ASSUME NEW t \in Timers, zlEvtTimerDesactiva(t)
      PROVE  TimerInv'
  BY <1>1, <1>4 DEF TimerInv, TypeOK, zlEvtTimerDesactiva, PonPendiente, Usa
<1>5. ASSUME NEW t \in Timers, zlEvtTimerFree(t)
      PROVE  TimerInv'
  BY <1>1, <1>5 DEF TimerInv, TypeOK, zlEvtTimerFree, Usa
<1>6. ASSUME NEW t \in Timers, Lanza(t)
      PROVE  TimerInv'
  BY <1>1, <1>6 DEF TimerInv, TypeOK, Lanza
<1>7. CASE VuelveInterno
  BY <1>1, <1>7 DEF TimerInv, TypeOK, VuelveInterno
<1>8. CASE VuelveInternoFree
  BY <1>1, <1>8 DEF TimerInv, TypeOK, VuelveInternoFree
<1>9. CASE UNCHANGED timerVars
  BY <1>9 DEF TimerInv, TypeOK, timerVars
<1> QED BY <1>2, <1>3, <1>4, <1>5, <1>6, <1>7, <1>8, <1>9 DEF TimerNext, Vuelve

\* The timers of an application that forgets the Libera timers it has activated, which
\* zlEvtTimer.c asks of it, keep TimerInv.
THEOREM TimerInvariant ==
  ASSUME "libera" \in Reglas
  PROVE  TimerSpec => []TimerInv
<1>1. TimerInit => TimerInv
  BY TimerAssumption DEF TimerInit, TimerInv, TypeOK
<1>2. TimerInv /\ [TimerNext]_timerVars => TimerInv'
  BY TimerInvPaso
<1> QED BY <1>1, <1>2, PTL DEF TimerSpec

\* No timer is used, or freed again, after it is gone.
THEOREM TimerNoUB ==
  ASSUME "libera" \in Reglas
  PROVE  TimerSpec => []NoUB
<1>1. TimerInv => NoUB
  BY DEF TimerInv, NoUB
<1> QED BY <1>1, TimerInvariant, PTL

\* A step that takes one timer from a state of the table to another.
LEMMA TablaPasa ==
  ASSUME NEW t \in Timers, NEW unos, NEW este,
         EstadoDe(t) \in unos, EstadoDe(t)' = este,
         \A x \in Timers \ {t} : EstadoDe(x)' = EstadoDe(x)
  PROVE  Tabla!Pasa(t, unos, este)
<1> DEFINE estado == [x \in Timers |-> EstadoDe(x)]
<1>1. estado[t] \in unos
  OBVIOUS
<1>2. estado' = [x \in Timers |-> EstadoDe(x)']
  OBVIOUS
<1>3. estado' = [estado EXCEPT ![t] = este]
  BY <1>2
<1> QED BY <1>1, <1>3 DEF Tabla!Pasa

\* A step of the code is a step of the table or a stutter.
LEMMA TablaPaso ==
  ASSUME "libera" \in Reglas, TimerInv, [TimerNext]_timerVars
  PROVE  [Tabla!Next]_([t \in Timers |-> EstadoDe(t)])
<1> DEFINE estado == [t \in Timers |-> EstadoDe(t)]
<1>1. NULL \notin Timers
  BY TimerAssumption
<1>2. ASSUME \A x \in Timers : EstadoDe(x)' = EstadoDe(x)
      PROVE  UNCHANGED estado
  <2>1. estado' = [x \in Timers |-> EstadoDe(x)']
    OBVIOUS
  <2> QED BY <1>2, <2>1
<1>3. ASSUME NEW t \in Timers, NEW conLibera \in BOOLEAN, NEW activa \in BOOLEAN,
             Nuevo(t, conLibera, activa)
      PROVE  Tabla!Inicializar(t) \/ Tabla!InicializarYActivar(t)
  <2>1. /\ EstadoDe(t) = "None"
        /\ EstadoDe(t)' = IF activa THEN "Activo" ELSE "Desactivado"
        /\ \A x \in Timers \ {t} : EstadoDe(x)' = EstadoDe(x)
    BY <1>3 DEF TimerInv, TypeOK, Nuevo, EstadoDe
  <2>2. CASE activa
    BY <2>1, <2>2, TablaPasa DEF Tabla!InicializarYActivar
  <2>3. CASE ~activa
    BY <2>1, <2>3, TablaPasa DEF Tabla!Inicializar
  <2> QED BY <2>2, <2>3
<1>4. ASSUME NEW t \in Timers, zlEvtTimerActiva(t)
      PROVE  Tabla!Activar(t)
  <2>1. EstadoDe(t) \in Tabla!Creado
    BY <1>4 DEF TimerInv, TypeOK, zlEvtTimerActiva, PonPendiente, Usa, EstadoDe, Tabla!Creado
  <2>2. /\ EstadoDe(t)' = "Activo"
        /\ \A x \in Timers \ {t} : EstadoDe(x)' = EstadoDe(x)
    BY <1>4 DEF TimerInv, TypeOK, zlEvtTimerActiva, PonPendiente, Usa, EstadoDe
  <2> QED BY <2>1, <2>2, TablaPasa DEF Tabla!Activar
<1>5. ASSUME NEW t \in Timers, zlEvtTimerDesactiva(t)
      PROVE  Tabla!Desactivar(t)
  <2>1. EstadoDe(t) \in Tabla!Creado
    BY <1>5 DEF TimerInv, TypeOK, zlEvtTimerDesactiva, PonPendiente, Usa, EstadoDe, Tabla!Creado
  <2>2. /\ EstadoDe(t)' = "Desactivado"
        /\ \A x \in Timers \ {t} : EstadoDe(x)' = EstadoDe(x)
    BY <1>5 DEF TimerInv, TypeOK, zlEvtTimerDesactiva, PonPendiente, Usa, EstadoDe
  <2> QED BY <2>1, <2>2, TablaPasa DEF Tabla!Desactivar
<1>6. ASSUME NEW t \in Timers, zlEvtTimerFree(t)
      PROVE  Tabla!Liberar(t)
  <2>1. EstadoDe(t) \in Tabla!Creado
    BY <1>6 DEF TimerInv, TypeOK, zlEvtTimerFree, Usa, EstadoDe, Tabla!Creado
  <2>2. /\ EstadoDe(t)' = "None"
        /\ \A x \in Timers \ {t} : EstadoDe(x)' = EstadoDe(x)
    BY <1>6 DEF TimerInv, TypeOK, zlEvtTimerFree, Usa, EstadoDe
  <2> QED BY <2>1, <2>2, TablaPasa DEF Tabla!Liberar
<1>7. ASSUME NEW t \in Timers, Lanza(t)
      PROVE  Tabla!Lanzar(t)
  <2>1. EstadoDe(t) = "Activo"
    BY <1>7 DEF TimerInv, TypeOK, Lanza, EstadoDe
  <2>2. /\ EstadoDe(t)' = "Lanzado"
        /\ \A x \in Timers \ {t} : EstadoDe(x)' = EstadoDe(x)
    BY <1>1, <1>7 DEF TimerInv, TypeOK, Lanza, EstadoDe
  <2> QED BY <2>1, <2>2, TablaPasa DEF Tabla!Lanzar
<1>8. ASSUME VuelveInterno
      PROVE  (\E t \in Timers : Tabla!TerminarLanzado(t)) \/ UNCHANGED estado
  <2>1. PICK t \in Timers : t = corriendo
    BY <1>8 DEF TimerInv, TypeOK, VuelveInterno
  <2>2. \A x \in Timers \ {t} : EstadoDe(x)' = EstadoDe(x)
    BY <1>1, <1>8, <2>1 DEF TimerInv, TypeOK, VuelveInterno, EstadoDe
  <2>3. CASE EstadoDe(t) = "Lanzado"
    <3>1. EstadoDe(t)' = "Desactivado"
      BY <1>1, <1>8, <2>1, <2>3 DEF TimerInv, TypeOK, VuelveInterno, EstadoDe
    <3> QED BY <2>2, <2>3, <3>1, TablaPasa DEF Tabla!TerminarLanzado
  <2>4. CASE EstadoDe(t) # "Lanzado"
    <3>1. EstadoDe(t)' = EstadoDe(t)
      BY <1>1, <1>8, <2>1, <2>4 DEF TimerInv, TypeOK, VuelveInterno, EstadoDe
    <3> QED BY <1>2, <2>2, <3>1
  <2> QED BY <2>3, <2>4
<1>9. ASSUME VuelveInternoFree
      PROVE  \E t \in Timers : Tabla!Liberar(t)
  <2>1. PICK t \in Timers : t = corriendo
    BY <1>9 DEF TimerInv, TypeOK, VuelveInternoFree
  <2>2. EstadoDe(t) \in Tabla!Creado
    BY <1>1, <1>9, <2>1 DEF TimerInv, TypeOK, VuelveInternoFree, EstadoDe, Tabla!Creado
  <2>3. /\ EstadoDe(t)' = "None"
        /\ \A x \in Timers \ {t} : EstadoDe(x)' = EstadoDe(x)
    BY <1>1, <1>9, <2>1 DEF TimerInv, TypeOK, VuelveInternoFree, EstadoDe
  <2> QED BY <2>2, <2>3, TablaPasa DEF Tabla!Liberar
<1>10. CASE UNCHANGED timerVars
  <2>1. \A x \in Timers : EstadoDe(x)' = EstadoDe(x)
    BY <1>10 DEF timerVars, EstadoDe
  <2> QED BY <1>2, <2>1
<1> QED BY <1>3, <1>4, <1>5, <1>6, <1>7, <1>8, <1>9, <1>10 DEF TimerNext, Vuelve, Tabla!Next

\* The code moves each timer as the table of zlEvtTimer.c says, whatever the functions of
\* the timers do, with one launch for each activation.
THEOREM TimerKeepsTable ==
  ASSUME "libera" \in Reglas
  PROVE  TimerSpec => ImplementsTabla
<1>1. TimerInit => Tabla!Init
  BY DEF TimerInit, Tabla!Init, EstadoDe
<1>2. TimerInv /\ [TimerNext]_timerVars => [Tabla!Next]_([t \in Timers |-> EstadoDe(t)])
  BY TablaPaso
<1> QED BY <1>1, <1>2, TimerInvariant, PTL DEF TimerSpec, ImplementsTabla, Tabla!Spec

-----------------------------------------------------------------------------
\* The clients of zlSocketClient.c and zlSocketClient1.c: callbacks come from the loop,
\* so that there is one frame at most.

VMarcos == [aviso : {"NADA", "CONNECT", "FIN"}, s : Cxs \cup {NULL}]

\* The callback about s that is under way.
EnAviso(aviso, s) == vPila # <<>> /\ vPila[1].aviso = aviso /\ vPila[1].s = s

ClienteTipo ==
  /\ vMem \in [Cxs -> {"libre", "vivo"}]
  /\ vConectado \in [Cxs -> BOOLEAN]
  /\ vCierra \subseteq Cxs
  /\ vPila = <<>> \/ \E m \in VMarcos : vPila = <<m>>
  /\ tiempoRespuesta \subseteq Cxs /\ clientes1 \subseteq Cxs
  /\ timerRespuesta \in [Cxs -> {"no", "pendiente", "pasado"}]

\* A timer that runs has its client; a client that is to be closed has none that runs;
\* and the client of a callback that the library reads afterwards is there, which of
\* zlSocketClient1 is any, with a time or without.
ClienteInv ==
  /\ ClienteTipo
  /\ ~vUb
  /\ \A s \in Cxs :
       /\ timerRespuesta[s] = "pendiente" => vMem[s] = "vivo"
       /\ vMem[s] = "vivo" /\ timerRespuesta[s] # "no"
            => s \in tiempoRespuesta /\ vConectado[s]
       /\ s \in vCierra => /\ vMem[s] = "vivo"
                           /\ s \in tiempoRespuesta => timerRespuesta[s] = "pasado"
       /\ EnAviso("FIN", s) => vMem[s] = "vivo" /\ timerRespuesta[s] # "pendiente"
       /\ s \in tiempoRespuesta => s \in clientes1
       /\ EnAviso("CONNECT", s) /\ s \in clientes1
            => vMem[s] = "vivo" /\ vConectado[s] /\ timerRespuesta[s] = "no"
  /\ vPila # <<>> /\ vPila[1].aviso \in {"CONNECT", "FIN"} => vPila[1].s \in Cxs

\* ClienteInv is inductive for an application that keeps the rules about clients.
LEMMA ClienteInvPaso ==
  ASSUME {"fin", "connect", "respuesta"} \subseteq ReglasViejas,
         ClienteInv, [ClienteNext]_clienteVars
  PROVE  ClienteInv'
<1>1. /\ vPila # <<>> => Len(vPila) = 1 /\ VCima = vPila[1] /\ VResto = <<>>
      /\ \A aviso, s : VAvisando(aviso, s) <=> EnAviso(aviso, s)
      /\ \A k \in 1 .. Len(vPila) : k = 1
  <2>1. CASE vPila = <<>>
    BY <2>1 DEF VAvisando, EnAviso
  <2>2. CASE \E m \in VMarcos : vPila = <<m>>
    <3>1. Len(vPila) = 1 /\ vPila # <<>>
      BY <2>2
    <3>2. VCima = vPila[1] /\ VResto = <<>>
      BY <2>2, <3>1 DEF VCima, VResto
    <3> QED BY <3>1, <3>2 DEF VAvisando, EnAviso
  <2> QED BY <2>1, <2>2 DEF ClienteInv, ClienteTipo
<1>2. ASSUME NEW s \in Cxs, NEW es1 \in BOOLEAN, NEW conTiempo \in BOOLEAN,
             conTiempo => es1, ClienteLanza(s, es1, conTiempo)
      PROVE  ClienteInv'
  BY <1>1, <1>2 DEF ClienteInv, ClienteTipo, ClienteLanza, Pon, VReserva, EnAviso
<1>3. ASSUME NEW s \in Cxs,
             \/ clienteGenericRead_cb(s)
             \/ clienteGenericEvent_cbConnect(s)
             \/ clienteGenericEvent_cbFin(s)
             \/ clienteGeneric1Event_cbFin(s)
             \/ clienteGeneric1TimerRespuesta_cb(s)
      PROVE  ClienteInv'
  <2>1. CASE clienteGenericRead_cb(s)
    BY <1>1, <2>1 DEF ClienteInv, ClienteTipo, clienteGenericRead_cb, VBucle,
       VAvisaYNada, VAvisa, conexionVars, respuestaVars, EnAviso, VMarcos
  <2>2. CASE clienteGenericEvent_cbConnect(s)
    BY <1>1, <2>2 DEF ClienteInv, ClienteTipo, clienteGenericEvent_cbConnect, VBucle,
       VAvisa, respuestaVars, EnAviso, VMarcos
  <2>3. CASE clienteGenericEvent_cbFin(s)
    BY <1>1, <2>3 DEF ClienteInv, ClienteTipo, clienteGenericEvent_cbFin, VBucle,
       VAvisa, conexionVars, respuestaVars, EnAviso, VMarcos
  <2>4. CASE clienteGeneric1Event_cbFin(s)
    BY <1>1, <2>4 DEF ClienteInv, ClienteTipo, clienteGeneric1Event_cbFin, VBucle,
       VAvisa, conexionVars, EnAviso, VMarcos
  <2>5. CASE clienteGeneric1TimerRespuesta_cb(s)
    BY <1>1, <2>5 DEF ClienteInv, ClienteTipo, clienteGeneric1TimerRespuesta_cb, VBucle,
       VAvisaYNada, VAvisa, conexionVars, EnAviso, VMarcos
  <2> QED BY <1>3, <2>1, <2>2, <2>3, <2>4, <2>5
<1>4. ASSUME NEW s \in Cxs, clienteGenericWrite_cb(s)
      PROVE  ClienteInv'
  BY <1>1, <1>4 DEF ClienteInv, ClienteTipo, clienteGenericWrite_cb, VBucle, VLibera, VDevuelve,
     EnAviso, respuestaVars
<1>5. ASSUME NEW s \in Cxs, NEW cierra \in BOOLEAN,
             clienteGenericWriteCommandCierre(s, cierra)
      PROVE  ClienteInv'
  BY <1>1, <1>5 DEF ClienteInv, ClienteTipo, clienteGenericWriteCommandCierre, Escribible,
     EnAviso, respuestaVars
<1>6. ASSUME NEW s \in Cxs, clienteGenericFree(s)
      PROVE  ClienteInv'
  <2>1. /\ ~EnAviso("FIN", s)
        /\ ~(s \in clientes1 /\ EnAviso("CONNECT", s))
        /\ timerRespuesta[s] # "pendiente"
        /\ VLibera(s) /\ vMem[s] = "vivo"
        /\ UNCHANGED <<vPila, respuestaVars>>
    BY <1>1, <1>6 DEF clienteGenericFree, Escribible
  <2> QED BY <2>1 DEF ClienteInv, ClienteTipo, VLibera, VDevuelve, EnAviso, respuestaVars
<1>7. CASE clienteGeneric1VuelveConnect
  <2>1. /\ vPila # <<>> /\ VCima.s \in Cxs /\ VCima.s \in clientes1
        /\ EnAviso("CONNECT", VCima.s)
        /\ vPila' = <<>>
        /\ UNCHANGED <<vMem, vConectado, vCierra, clientes1, tiempoRespuesta>>
    BY <1>1, <1>7 DEF ClienteInv, clienteGeneric1VuelveConnect, VuelveDe, EnAviso,
       conexionVars
  <2>2. PICK s \in Cxs : s = VCima.s
    BY <2>1
  <2>3. \A otro \in Cxs : ~EnAviso("FIN", otro)' /\ ~EnAviso("CONNECT", otro)'
    BY <2>1 DEF EnAviso
  <2>4. vMem[s] = "vivo" /\ vConectado[s] /\ timerRespuesta[s] = "no"
    BY <2>1, <2>2 DEF ClienteInv
  <2>5. ~vUb'
    BY <1>7, <2>2, <2>4 DEF clienteGeneric1VuelveConnect
  <2>6. timerRespuesta' = [timerRespuesta EXCEPT ![s] = IF s \in tiempoRespuesta THEN "pendiente" ELSE @]
    BY <1>7, <2>2 DEF clienteGeneric1VuelveConnect
  <2>7. ClienteTipo'
    BY <2>1, <2>6 DEF ClienteInv, ClienteTipo
  <2>8. s \in tiempoRespuesta => s \notin vCierra
    BY <2>4 DEF ClienteInv
  <2> QED BY <2>1, <2>3, <2>4, <2>5, <2>6, <2>7, <2>8 DEF ClienteInv, ClienteTipo
<1>12. CASE clienteGenericVuelveConnect
  <2>1. /\ vPila' = <<>>
        /\ UNCHANGED <<vMem, vConectado, vCierra, vUb, clientes1, tiempoRespuesta, timerRespuesta>>
    BY <1>1, <1>12 DEF clienteGenericVuelveConnect, VuelveDe, conexionVars, respuestaVars
  <2> QED BY <2>1 DEF ClienteInv, ClienteTipo, EnAviso
<1>8. CASE ClienteVuelveFin
  <2>1. /\ vPila # <<>> /\ VCima.s \in Cxs
        /\ EnAviso("FIN", VCima.s)
        /\ vPila' = <<>>
    BY <1>1, <1>8 DEF ClienteInv, ClienteVuelveFin, VuelveDe, EnAviso
  <2>2. PICK s \in Cxs : s = VCima.s
    BY <2>1
  <2>3. \A otro \in Cxs : ~EnAviso("FIN", otro)' /\ ~EnAviso("CONNECT", otro)'
    BY <2>1 DEF EnAviso
  <2> QED BY <1>8, <2>1, <2>2, <2>3 DEF ClienteInv, ClienteTipo, ClienteVuelveFin, VLibera,
            VDevuelve, respuestaVars
<1>9. CASE ClienteVuelve
  BY <1>1, <1>9 DEF ClienteInv, ClienteTipo, ClienteVuelve, VVuelveYNada, VuelveDe,
     EnAviso, conexionVars, respuestaVars
<1>10. CASE UNCHANGED clienteVars
  BY <1>10 DEF ClienteInv, ClienteTipo, EnAviso, clienteVars, viejoVars, conexionVars,
     respuestaVars
<1>11. ASSUME NEW s \in Cxs, clienteGenericLanza(s) \/ clienteGeneric1Lanza(s)
       PROVE  ClienteInv'
  BY <1>2, <1>11 DEF clienteGenericLanza, clienteGeneric1Lanza
<1> QED BY <1>3, <1>4, <1>5, <1>6, <1>7, <1>8, <1>9, <1>10, <1>11, <1>12 DEF ClienteNext

\* The clients of an application that frees none in the callback of its end, nor one of
\* zlSocketClient1 in CONNECT or while its timer runs, keep ClienteInv.
THEOREM ClienteInvariant ==
  ASSUME {"fin", "connect", "respuesta"} \subseteq ReglasViejas
  PROVE  ClienteSpec => []ClienteInv
<1>1. ViejoInit /\ ClienteInit => ClienteInv
  BY DEF ViejoInit, ClienteInit, ClienteInv, ClienteTipo, EnAviso
<1>2. ClienteInv /\ [ClienteNext]_clienteVars => ClienteInv'
  BY ClienteInvPaso
<1> QED BY <1>1, <1>2, PTL DEF ClienteSpec

\* No client is used after it is freed: not by its answer timer, nor by the functions
\* that go on after a callback.
THEOREM ClienteOldNoUB ==
  ASSUME {"fin", "connect", "respuesta"} \subseteq ReglasViejas
  PROVE  ClienteSpec => []OldNoUB
<1>1. ClienteInv => OldNoUB
  BY DEF ClienteInv, OldNoUB
<1> QED BY <1>1, ClienteInvariant, PTL

-----------------------------------------------------------------------------
\* The server of zlEvtSockSer0.lib: its callbacks too come from the loop.

\* The server is there, or has gone after its connections.
ServidorSinPerder == vServidor # "libre" \/ "servidor" \in ReglasViejas

\* A connection that is alive has its server, if none was freed under its connections;
\* and that of a callback of its end, which the library frees afterwards, is alive.
ServidorInvViejo ==
  /\ vMem \in [Cxs -> {"libre", "vivo"}]
  /\ vPila = <<>> \/ \E m \in VMarcos : vPila = <<m>>
  /\ ServidorSinPerder =>
       /\ ~vUb
       /\ \A s \in Cxs : vMem[s] = "vivo" => vServidor = "escucha"
  /\ \A s \in Cxs : EnAviso("FIN", s) => vMem[s] = "vivo"
  /\ vPila # <<>> /\ vPila[1].aviso = "FIN" => vPila[1].s \in Cxs

\* What a function does that neither frees nor makes a connection.
LEMMA ServidorMismasConexiones ==
  ASSUME ServidorInvViejo, UNCHANGED vMem,
         ServidorSinPerder' => ServidorSinPerder /\ ~vUb',
         ServidorSinPerder' => vServidor' = vServidor \/ \A s \in Cxs : vMem[s] = "libre",
         \/ UNCHANGED vPila
         \/ vPila' = <<>>
         \/ \E m \in VMarcos : /\ vPila' = <<m>>
                               /\ m.aviso = "FIN" => m.s \in Cxs /\ vMem[m.s] = "vivo"
  PROVE  ServidorInvViejo'
BY DEF ServidorInvViejo, EnAviso

\* From the loop, a callback that is told this of s.
LEMMA UnSoloMarco ==
  ASSUME NEW aviso \in {"NADA", "CONNECT", "FIN"}, NEW s \in Cxs \cup {NULL},
         vPila = <<>>, VAvisa(aviso, s)
  PROVE  \E m \in VMarcos : vPila' = <<m>> /\ m.aviso = aviso /\ m.s = s
<1>1. [aviso |-> aviso, s |-> s] \in VMarcos /\ vPila' = <<[aviso |-> aviso, s |-> s]>>
  BY DEF VAvisa, VMarcos
<1> QED BY <1>1

\* ServidorInvViejo is inductive for an application that frees no connection in the
\* callback of its end, whenever it frees the server.
LEMMA ServidorInvPaso ==
  ASSUME "fin" \in ReglasViejas,
         ServidorInvViejo, [ServidorNext]_servidorViejoVars
  PROVE  ServidorInvViejo'
<1>1. /\ vPila # <<>> => VCima = vPila[1] /\ VResto = <<>>
      /\ \A aviso, s : EnAviso(aviso, s) => VAvisando(aviso, s)
  <2>1. CASE vPila = <<>>
    BY <2>1 DEF EnAviso
  <2>2. CASE \E m \in VMarcos : vPila = <<m>>
    <3>1. Len(vPila) = 1 /\ vPila # <<>>
      BY <2>2
    <3>2. VCima = vPila[1] /\ VResto = <<>>
      BY <2>2, <3>1 DEF VCima, VResto
    <3> QED BY <3>1, <3>2 DEF VAvisando, EnAviso
  <2> QED BY <2>1, <2>2 DEF ServidorInvViejo
<1>2. ASSUME VAvisaYNada, VBucle
      PROVE  \E m \in VMarcos : vPila' = <<m>> /\ m.aviso = "NADA"
  BY <1>2, UnSoloMarco DEF VAvisaYNada, VBucle
<1>3. /\ vMem \in [Cxs -> {"libre", "vivo"}]
      /\ ServidorSinPerder => ~vUb /\ \A s \in Cxs : vMem[s] = "vivo" => vServidor = "escucha"
      /\ UNCHANGED vServidor => (ServidorSinPerder' <=> ServidorSinPerder)
  BY DEF ServidorInvViejo, ServidorSinPerder
<1>4. CASE \/ zlServerSocketInicia \/ zlServerSocketLanza \/ serverMainTimeoutBind
  <2>1. /\ UNCHANGED <<vMem, vUb>> /\ ~vUb
        /\ vServidor \in {"no", "creado", "intenta"}
        /\ UNCHANGED vPila \/ (VAvisaYNada /\ VBucle)
    BY <1>4 DEF zlServerSocketInicia, zlServerSocketLanza, serverMainTimeoutBind,
       TimeoutBind, Estado, conexionVars, VBucle
  <2>2. ServidorSinPerder
    BY <2>1 DEF ServidorSinPerder
  <2>3. \A s \in Cxs : vMem[s] = "libre"
    BY <1>3, <2>1, <2>2
  <2> QED BY <1>2, <2>1, <2>2, <2>3, ServidorMismasConexiones
<1>5. CASE zlServerSocketFree
  <2>1. UNCHANGED <<vMem, vPila>> /\ vServidor' = "libre"
    BY <1>5 DEF zlServerSocketFree, LiberaListener, conexionVars
  <2>2. CASE "servidor" \in ReglasViejas
    <3>1. ~vUb' /\ \A s \in Cxs : vMem[s] # "vivo"
      BY <1>5, <2>2 DEF zlServerSocketFree, LiberaListener
    <3>2. \A s \in Cxs : vMem[s] = "libre"
      BY <1>3, <3>1
    <3>3. ServidorSinPerder
      BY <2>2 DEF ServidorSinPerder
    <3> QED BY <2>1, <3>1, <3>2, <3>3, ServidorMismasConexiones
  <2>3. CASE "servidor" \notin ReglasViejas
    <3>1. ~ServidorSinPerder'
      BY <2>1, <2>3 DEF ServidorSinPerder
    <3> QED BY <2>1, <3>1, ServidorMismasConexiones
  <2> QED BY <2>2, <2>3
<1>6. ASSUME NEW s \in Cxs, zlServerSocketAccept_cb(s)
      PROVE  ServidorInvViejo'
  <2>1. /\ vServidor = "escucha" /\ vServidor' = "escucha" /\ ~vUb'
        /\ vMem' = [vMem EXCEPT ![s] = "vivo"]
        /\ VAvisaYNada /\ VBucle
    BY <1>6 DEF zlServerSocketAccept_cb, VReserva, VBucle
  <2> QED BY <1>2, <1>3, <2>1 DEF ServidorInvViejo, EnAviso
<1>7. ASSUME NEW s \in Cxs, zlServerSocketRead_cb(s) \/ zlServerSocketWrite_cb(s)
      PROVE  ServidorInvViejo'
  <2>1. /\ UNCHANGED <<vMem, vServidor>>
        /\ vMem[s] = "vivo" /\ vUb' = (vServidor = "libre")
        /\ VAvisaYNada /\ VBucle
    BY <1>7 DEF zlServerSocketRead_cb, zlServerSocketWrite_cb, Evento, SinServidor, conexionVars
  <2>2. ServidorSinPerder' => ServidorSinPerder /\ ~vUb'
    BY <1>3, <2>1
  <2> QED BY <1>2, <2>1, <2>2, ServidorMismasConexiones
<1>8. ASSUME NEW s \in Cxs, zlServerSocketWriteClose_cb(s) \/ zlServerSocketEvent_cb(s)
      PROVE  ServidorInvViejo'
  <2>1. /\ UNCHANGED <<vMem, vServidor>> /\ vMem[s] = "vivo" /\ vUb' = (vServidor = "libre")
        /\ VAvisa("FIN", s) /\ vPila = <<>>
    BY <1>8 DEF zlServerSocketWriteClose_cb, zlServerSocketEvent_cb, Evento,
       SinServidor, conexionVars, VBucle
  <2>2. \E m \in VMarcos : vPila' = <<m>> /\ m.s = s
    BY <2>1, UnSoloMarco
  <2>3. ServidorSinPerder' => ServidorSinPerder /\ ~vUb'
    BY <1>3, <2>1
  <2> QED BY <2>1, <2>2, <2>3, ServidorMismasConexiones
<1>9. ASSUME NEW s \in Cxs, zlConexionCommandClose(s)
      PROVE  ServidorInvViejo'
  <2>1. /\ UNCHANGED <<vServidor, vPila>> /\ ~EnAviso("FIN", s)
        /\ vMem[s] = "vivo" /\ vUb' = (vServidor = "libre")
        /\ vMem' = [vMem EXCEPT ![s] = "libre"]
    BY <1>1, <1>9 DEF zlConexionCommandClose, Escribible, Quita, VDevuelve, SinServidor
  <2>2. ServidorSinPerder' => ServidorSinPerder /\ ~vUb'
    BY <1>3, <2>1
  <2> QED BY <1>3, <2>1, <2>2 DEF ServidorInvViejo, EnAviso
<1>10. ASSUME NEW s \in Cxs, NEW cierra \in BOOLEAN, zlServerSocketWriteCommand(s, cierra)
       PROVE  ServidorInvViejo'
  BY <1>3, <1>10, ServidorMismasConexiones DEF zlServerSocketWriteCommand
<1>11. CASE VuelveFin
  <2>1. PICK s \in Cxs : /\ VCima.s = s /\ vMem[s] = "vivo" /\ vPila # <<>>
    BY <1>1, <1>11 DEF ServidorInvViejo, VuelveFin, VuelveDe, EnAviso
  <2>2. /\ vServidor' = vServidor /\ vUb' = (vServidor = "libre") /\ vPila' = <<>>
        /\ vMem' = [vMem EXCEPT ![s] = "libre"]
    BY <1>1, <1>11, <2>1 DEF VuelveFin, Quita, VDevuelve, SinServidor
  <2>3. ServidorSinPerder' => ServidorSinPerder /\ ~vUb'
    BY <1>3, <2>1, <2>2
  <2> QED BY <1>3, <2>2, <2>3 DEF ServidorInvViejo, EnAviso
<1>12. CASE ServidorVuelve
  <2>1. UNCHANGED <<vMem, vServidor, vUb>> /\ vPila' = <<>>
    BY <1>1, <1>12 DEF ServidorVuelve, VVuelveYNada, VuelveDe, conexionVars, servidorVars
  <2> QED BY <1>3, <2>1, ServidorMismasConexiones
<1>13. CASE LogAppInit \/ LogAppClose \/ UNCHANGED servidorViejoVars
  <2>1. UNCHANGED <<vMem, vServidor, vUb, vPila>>
    BY <1>13 DEF LogAppInit, LogAppClose, servidorViejoVars, servidorVars, viejoVars,
       conexionVars
  <2> QED BY <1>3, <2>1, ServidorMismasConexiones
<1> QED BY <1>4, <1>5, <1>6, <1>7, <1>8, <1>9, <1>10, <1>11, <1>12, <1>13 DEF ServidorNext

\* As long as the server has not been freed, nothing that was freed is used, wherever
\* the application frees connections but in the callback of their end; and nor is it
\* afterwards, if the application frees the server once, and when no connection is left.
\* (Four of the tests free it before, in close_i: see ServerOutlivesConnections.)
THEOREM ServidorOldNoUB ==
  ASSUME "fin" \in ReglasViejas
  PROVE  ServidorSpec => [](vServidor # "libre" \/ "servidor" \in ReglasViejas => OldNoUB)
<1>1. ViejoInit /\ RegistroInit => ServidorInvViejo
  BY DEF ViejoInit, RegistroInit, ServidorInvViejo, EnAviso
<1>2. ServidorInvViejo /\ [ServidorNext]_servidorViejoVars => ServidorInvViejo'
  BY ServidorInvPaso
<1>3. ServidorInvViejo => (vServidor # "libre" \/ "servidor" \in ReglasViejas => OldNoUB)
  BY DEF ServidorInvViejo, ServidorSinPerder, OldNoUB
<1> QED BY <1>1, <1>2, <1>3, PTL DEF ServidorSpec

-----------------------------------------------------------------------------
\* The sockets of zlEvtSocket.lib, which the application may close in the middle of the
\* callback of another: the stack has any depth.

\* The socket that a waiting function is to free is alive, and no other function is to
\* free it.
VPilaInv ==
  /\ vMem \in [Cxs -> {"libre", "vivo"}]
  /\ vPila \in Seq(VMarcos)
  /\ \A k \in 1 .. Len(vPila) :
       vPila[k].aviso = "FIN" => vPila[k].s \in Cxs /\ vMem[vPila[k].s] = "vivo"
  /\ \A j, k \in 1 .. Len(vPila) :
       vPila[j].aviso = "FIN" /\ vPila[k].aviso = "FIN" /\ vPila[j].s = vPila[k].s => j = k

\* Another callback, the end of a socket that is alive and that nobody else is to free,
\* or none of that.
LEMMA VPilaAvisa ==
  ASSUME VPilaInv, NEW aviso \in {"NADA", "FIN"}, NEW s \in Cxs \cup {NULL},
         VAvisa(aviso, s),
         vMem' \in [Cxs -> {"libre", "vivo"}],
         \A x \in Cxs : vMem[x] = "vivo" => vMem'[x] = "vivo",
         aviso = "FIN" => s \in Cxs /\ vMem[s] = "vivo" /\ ~VAvisando("FIN", s)
  PROVE  VPilaInv'
<1>1. [aviso |-> aviso, s |-> s] \in VMarcos
  BY DEF VMarcos
<1>2. /\ vPila' \in Seq(VMarcos)
      /\ Len(vPila') = Len(vPila) + 1
      /\ \A k \in 1 .. Len(vPila) : vPila'[k] = vPila[k]
      /\ vPila'[Len(vPila) + 1] = [aviso |-> aviso, s |-> s]
  BY <1>1, AppendProperties DEF VPilaInv, VAvisa
<1>3. Len(vPila) \in Nat
  BY DEF VPilaInv
<1>4. \A k \in 1 .. Len(vPila') : k \in 1 .. Len(vPila) \/ k = Len(vPila) + 1
  BY <1>2, <1>3
<1>5. \A k \in 1 .. Len(vPila) : aviso = "FIN" /\ vPila[k].aviso = "FIN" => vPila[k].s # s
  BY DEF VAvisando
<1>6. \A k \in 1 .. Len(vPila') :
        vPila'[k].aviso = "FIN" => vPila'[k].s \in Cxs /\ vMem'[vPila'[k].s] = "vivo"
  BY <1>2, <1>4 DEF VPilaInv
<1>7. ASSUME NEW j \in 1 .. Len(vPila'), NEW k \in 1 .. Len(vPila'),
             vPila'[j].aviso = "FIN", vPila'[k].aviso = "FIN", vPila'[j].s = vPila'[k].s
      PROVE  j = k
  BY <1>2, <1>4, <1>5, <1>7 DEF VPilaInv
<1> QED BY <1>2, <1>6, <1>7 DEF VPilaInv

\* The function on top goes on, and may free its socket.
LEMMA VPilaVuelve ==
  ASSUME VPilaInv, vPila # <<>>, vPila' = VResto,
         vMem' \in [Cxs -> {"libre", "vivo"}],
         \A x \in Cxs : vMem[x] = "vivo" /\ ~(VCima.aviso = "FIN" /\ VCima.s = x)
                          => vMem'[x] = "vivo"
  PROVE  VPilaInv'
<1>1. Len(vPila) \in Nat /\ Len(vPila) > 0
  BY EmptySeq DEF VPilaInv
<1>2. /\ vPila' \in Seq(VMarcos)
      /\ Len(vPila') = Len(vPila) - 1
      /\ \A k \in 1 .. Len(vPila) - 1 : vPila'[k] = vPila[k]
  <2>1. \A k \in 1 .. Len(vPila) - 1 : vPila[k] \in VMarcos
    BY <1>1, ElementOfSeq DEF VPilaInv
  <2>2. VResto = [k \in 1 .. Len(vPila) - 1 |-> vPila[k]]
    BY <1>1, SubSeqProperties DEF VResto
  <2> QED BY <1>1, <2>1, <2>2, IsASeq, LenProperties
<1>3. \A k \in 1 .. Len(vPila') : k \in 1 .. Len(vPila) /\ k # Len(vPila)
  BY <1>1, <1>2
<1>4. \A k \in 1 .. Len(vPila') : vPila'[k] = vPila[k]
  BY <1>2
<1>5. ASSUME NEW k \in 1 .. Len(vPila'), vPila'[k].aviso = "FIN"
      PROVE  vPila'[k].s \in Cxs /\ vMem'[vPila'[k].s] = "vivo"
  <2>1. vPila[k].aviso = "FIN" /\ k \in 1 .. Len(vPila) /\ k # Len(vPila)
    BY <1>3, <1>4, <1>5
  <2>2. vPila[k].s \in Cxs /\ vMem[vPila[k].s] = "vivo"
    BY <2>1 DEF VPilaInv
  <2>3. Len(vPila) \in 1 .. Len(vPila)
    BY <1>1
  <2>4. ~(VCima.aviso = "FIN" /\ VCima.s = vPila[k].s)
    BY <2>1, <2>3 DEF VPilaInv, VCima
  <2> QED BY <1>4, <2>2, <2>4
<1>6. \A j, k \in 1 .. Len(vPila') :
        vPila'[j].aviso = "FIN" /\ vPila'[k].aviso = "FIN" /\ vPila'[j].s = vPila'[k].s => j = k
  BY <1>3, <1>4 DEF VPilaInv
<1> QED BY <1>2, <1>5, <1>6 DEF VPilaInv

\* A list that a socket or the server may use has its memory.
ListaViva ==
  /\ vServidor \in {"creado", "intenta", "escucha"} => vLista
  /\ vRegistra /\ (\E s \in Cxs : vMem[s] = "vivo") => vLista

SocketInvViejo == VPilaInv /\ ListaViva /\ (ServidorSinPerder => ~vUb)

\* A program that has met undefined behaviour is dead.
LEMMA SocketMuerto == vUb => ~SocketNext
BY DEF SocketNext, zlEvtSocketServerData, zlServerSocketLanzaData, zlEvtSocketTimeoutBind_cb,
   Estado, TimeoutBind, zlEvtSocketServerFree, LiberaListener, zlEvtSocketCreaCliente,
   zlEvtSocketAccept_cb, zlEvtSocketRead_cb, zlEvtSocketWrite_cb, zlEvtSocketWriteClose_cb,
   zlEvtSocketEvent_cbFin, zlEvtSocketEvent_cbConnect, LlegaA, VBucle, zlEvtSocketCloseCommand,
   Escribible, zlEvtSocketVuelveFin, VuelveDe, zlEvtSocketWriteCommand, zlEvtSocketVuelve,
   VVuelveYNada, zlEvtSocketListFree

\* SocketInvViejo is inductive for an application that frees the list last of all and
\* closes no socket in the callback of its end.
LEMMA SocketInvPaso ==
  ASSUME {"fin", "lista"} \subseteq ReglasViejas,
         SocketInvViejo, [SocketNext]_socketViejoVars
  PROVE  SocketInvViejo'
<1>a. CASE vUb
  <2>1. UNCHANGED socketViejoVars
    BY <1>a, SocketMuerto
  <2> QED BY <2>1 DEF socketViejoVars, viejoVars, conexionVars, servidorVars, ajustes,
     SocketInvViejo, ListaViva, VPilaInv, ServidorSinPerder
<1>b. SUFFICES ASSUME ~vUb PROVE SocketInvViejo'
  BY <1>a
<1>1. /\ VPilaInv /\ ListaViva /\ ~vUb
      /\ vMem \in [Cxs -> {"libre", "vivo"}]
      /\ VBucle => \A s \in Cxs : ~VAvisando("FIN", s)
  BY <1>b DEF SocketInvViejo, VPilaInv, VBucle, VAvisando
<1>2. ASSUME UNCHANGED vMem, VAvisaYNada
      PROVE  VPilaInv'
  BY <1>1, <1>2, VPilaAvisa DEF VAvisaYNada
<1>3. ASSUME UNCHANGED <<vMem, vPila>>
      PROVE  VPilaInv'
  BY <1>1, <1>3 DEF VPilaInv
<1>4. CASE \/ zlEvtSocketServerData \/ zlServerSocketLanzaData \/ zlEvtSocketTimeoutBind_cb
  <2>1. UNCHANGED <<vMem, vUb, vRegistra, vLista>> /\ (UNCHANGED vPila \/ VAvisaYNada)
    BY <1>4 DEF zlEvtSocketServerData, zlServerSocketLanzaData, zlEvtSocketTimeoutBind_cb,
       TimeoutBind, Estado, conexionVars, Iguales, ajustes
  <2>2. vServidor' \in {"creado", "intenta", "escucha"} => vLista
    BY <1>1, <1>4 DEF ListaViva, zlEvtSocketServerData, zlServerSocketLanzaData,
       zlEvtSocketTimeoutBind_cb, TimeoutBind, Estado
  <2>3. ListaViva'
    BY <1>1, <2>1, <2>2 DEF ListaViva
  <2> QED BY <1>1, <1>2, <1>3, <2>1, <2>3 DEF SocketInvViejo
<1>5. ASSUME NEW s \in Cxs, zlEvtSocketCreaCliente(s) \/ zlEvtSocketAccept_cb(s)
      PROVE  SocketInvViejo'
  <2>1. /\ vMem' = [vMem EXCEPT ![s] = "vivo"]
        /\ UNCHANGED <<vServidor, vRegistra, vLista>>
        /\ vUb' = (vRegistra /\ ~vLista) /\ vLista
        /\ UNCHANGED vPila \/ VAvisaYNada
    BY <1>1, <1>5 DEF zlEvtSocketCreaCliente, zlEvtSocketAccept_cb, Crea, VReserva, ajustes,
       ListaViva
  <2>2. /\ vMem' \in [Cxs -> {"libre", "vivo"}]
        /\ \A x \in Cxs : vMem[x] = "vivo" => vMem'[x] = "vivo"
    BY <1>1, <2>1
  <2>3. CASE UNCHANGED vPila
    <3>1. VPilaInv'
      BY <1>1, <2>2, <2>3 DEF VPilaInv
    <3> QED BY <2>1, <3>1 DEF SocketInvViejo, ListaViva
  <2>4. CASE VAvisaYNada
    <3>1. VPilaInv'
      BY <1>1, <2>2, <2>4, VPilaAvisa DEF VAvisaYNada
    <3> QED BY <2>1, <3>1 DEF SocketInvViejo, ListaViva
  <2> QED BY <2>1, <2>3, <2>4
<1>6. ASSUME NEW s \in Cxs,
             \/ zlEvtSocketRead_cb(s)
             \/ zlEvtSocketWrite_cb(s)
             \/ zlEvtSocketEvent_cbConnect(s)
      PROVE  SocketInvViejo'
  <2>1. UNCHANGED <<vMem, vUb, vServidor, vRegistra, vLista>> /\ VAvisaYNada
    BY <1>6 DEF zlEvtSocketRead_cb, zlEvtSocketWrite_cb, zlEvtSocketEvent_cbConnect, LlegaA,
       servidorVars, ajustes
  <2> QED BY <1>1, <1>2, <2>1 DEF SocketInvViejo, ListaViva
<1>7. ASSUME NEW s \in Cxs,
             \/ zlEvtSocketWriteClose_cb(s)
             \/ zlEvtSocketEvent_cbFin(s)
             \/ zlEvtSocketCloseCommand(s)
      PROVE  SocketInvViejo'
  <2>1. /\ UNCHANGED <<vMem, vUb, vServidor, vRegistra, vLista>>
        /\ VAvisa("FIN", s) /\ vMem[s] = "vivo" /\ ~VAvisando("FIN", s)
    BY <1>1, <1>7 DEF zlEvtSocketWriteClose_cb, zlEvtSocketEvent_cbFin, LlegaA,
       zlEvtSocketCloseCommand, Escribible, Iguales, conexionVars, servidorVars, ajustes
  <2>2. VPilaInv'
    BY <1>1, <2>1, VPilaAvisa
  <2> QED BY <1>1, <2>1, <2>2 DEF SocketInvViejo, ListaViva
<1>8. ASSUME NEW s \in Cxs, zlEvtSocketVuelveFin(s)
      PROVE  SocketInvViejo'
  <2>1. vPila # <<>> /\ VCima.aviso = "FIN" /\ VCima.s = s /\ vPila' = VResto
    BY <1>8 DEF zlEvtSocketVuelveFin, VuelveDe
  <2>2. Len(vPila) \in 1 .. Len(vPila)
    BY <1>1, <2>1, EmptySeq DEF VPilaInv
  <2>3. vMem[s] = "vivo"
    BY <1>1, <2>1, <2>2 DEF VPilaInv, VCima
  <2>4. /\ vMem' = [vMem EXCEPT ![s] = "libre"] /\ ~vUb'
        /\ UNCHANGED <<vServidor, vRegistra, vLista>>
    BY <1>1, <1>8, <2>3 DEF zlEvtSocketVuelveFin, VDevuelve, ListaViva, ajustes
  <2>5. VPilaInv'
    BY <1>1, <2>1, <2>4, VPilaVuelve
  <2> QED BY <1>1, <2>4, <2>5 DEF SocketInvViejo, ListaViva
<1>9. CASE zlEvtSocketVuelve
  <2>1. /\ vPila # <<>> /\ vPila' = VResto
        /\ UNCHANGED <<vMem, vUb, vServidor, vRegistra, vLista>> /\ VCima.aviso = "NADA"
    BY <1>9 DEF zlEvtSocketVuelve, VVuelveYNada, VuelveDe, conexionVars, servidorVars, ajustes,
       Iguales
  <2>2. VPilaInv'
    BY <1>1, <2>1, VPilaVuelve
  <2> QED BY <1>1, <2>1, <2>2 DEF SocketInvViejo, ListaViva
<1>10. ASSUME NEW s \in Cxs, NEW cierra \in BOOLEAN, zlEvtSocketWriteCommand(s, cierra)
       PROVE  SocketInvViejo'
  BY <1>1, <1>3, <1>10
  DEF zlEvtSocketWriteCommand, Iguales, ajustes, SocketInvViejo, ListaViva
<1>11. CASE zlEvtSocketListFree
  BY <1>1, <1>3, <1>11 DEF zlEvtSocketListFree, viejoVars, conexionVars, servidorVars, ajustes,
     SocketInvViejo, ListaViva
<1>12. CASE UNCHANGED socketViejoVars
  BY <1>1, <1>3, <1>12 DEF socketViejoVars, viejoVars, conexionVars, servidorVars, ajustes,
     SocketInvViejo, ListaViva
<1>13. CASE zlEvtSocketServerFree
  <2>1. /\ UNCHANGED <<vMem, vPila, vRegistra, vLista>> /\ vServidor' = "libre"
        /\ "servidor" \in ReglasViejas => ~vUb'
    BY <1>13 DEF zlEvtSocketServerFree, LiberaListener, conexionVars, Iguales, ajustes
  <2>2. ListaViva'
    BY <1>1, <2>1 DEF ListaViva
  <2> QED BY <1>3, <2>1, <2>2 DEF SocketInvViejo, ServidorSinPerder
<1> QED BY <1>4, <1>5, <1>6, <1>7, <1>8, <1>9, <1>10, <1>11, <1>12, <1>13 DEF SocketNext

\* No socket is freed twice, and the list is not used after it is freed, however deep the
\* application closes sockets inside callbacks; nor is the listener, if it is freed once.
THEOREM SocketOldNoUB ==
  ASSUME {"fin", "lista"} \subseteq ReglasViejas
  PROVE  SocketSpec => [](vServidor # "libre" \/ "servidor" \in ReglasViejas => OldNoUB)
<1>1. ViejoInit /\ RegistroInit /\ SocketInit => SocketInvViejo
  BY DEF ViejoInit, RegistroInit, SocketInit, SocketInvViejo, VPilaInv, ListaViva
<1>2. SocketInvViejo /\ [SocketNext]_socketViejoVars => SocketInvViejo'
  BY SocketInvPaso
<1>3. SocketInvViejo => (vServidor # "libre" \/ "servidor" \in ReglasViejas => OldNoUB)
  BY DEF SocketInvViejo, ServidorSinPerder, OldNoUB
<1> QED BY <1>1, <1>2, <1>3, PTL DEF SocketSpec

-----------------------------------------------------------------------------
\* The registers of connections of libevent.ws.old.

\* The lemmas of the log, for the logs of the slots and that of the application.
LgP == INSTANCE LogProofs WITH
         Logs <- 0 .. LogApp, Files <- FilesLog, STDOUT <- "stdout", Niveles <- {1},
         ReglasLog <- {"cerrado", "reinicia"},
         zlLog <- vLog, abiertos <- vAbiertos, numero <- vNumero, enUso <- vEnUso,
         pedido <- vPedido, zlLogs <- Quieto.general, MiPanic <- Quieto.panic,
         zlLogFlush <- Quieto.flush, pendiente <- {}, ubLog <- Quieto.ub, vivo <- Quieto.vivo

\* How many connections there can be.
LEMMA LogAppNat == LogApp \in Nat /\ IsFiniteSet(0 .. LogApp) /\ NULL \notin Cxs
<1>1. LogApp \in Nat
  BY FilesLogAssumption, FS_CardinalityType DEF LogApp
<1> QED BY <1>1, FS_Interval, FilesLogAssumption

\* LgP is Lg with theorems.
LEMMA MismoLog ==
  /\ LgP!Crea = Lg!Crea /\ LgP!Numeros = Lg!Numeros
  /\ \A n : LgP!EnTabla(n) = Lg!EnTabla(n)
  /\ \A n : LgP!Hueco(n) = Lg!Hueco(n)
  /\ \A n, canal : LgP!Pon(n, canal) = Lg!Pon(n, canal)
  /\ \A canal, fd, nivel : LgP!Abierto(canal, fd, nivel) = Lg!Abierto(canal, fd, nivel)
  /\ LgP!Llama = Lg!Llama /\ LgP!Fopen = Lg!Fopen
  /\ LgP!zlLog0 = Lg!zlLog0
<1>1. LgP!Numeros = Lg!Numeros /\ LgP!zlLogNum = Lg!zlLogNum
  BY DEF LgP!Numeros, Lg!Numeros, LgP!zlLogNum, Lg!zlLogNum
<1>2. \A n : LgP!EnTabla(n) = Lg!EnTabla(n)
  BY DEF LgP!EnTabla, Lg!EnTabla
<1>3. LgP!Libres = Lg!Libres
  BY <1>1, <1>2 DEF LgP!Libres, Lg!Libres
<1>4. LgP!Crea = Lg!Crea
  BY <1>1, <1>3 DEF LgP!Crea, Lg!Crea
<1>5. LgP!zlLog0 = Lg!zlLog0
  BY DEF LgP!zlLog0, Lg!zlLog0, LgP!Canal, Lg!Canal
<1>6. \A n : LgP!Hueco(n) = Lg!Hueco(n)
  BY <1>1, <1>2, <1>5 DEF LgP!Hueco, Lg!Hueco
<1>7. \A n, canal : LgP!Pon(n, canal) = Lg!Pon(n, canal)
  BY <1>1 DEF LgP!Pon, Lg!Pon
<1>8. \A canal, fd, nivel : LgP!Abierto(canal, fd, nivel) = Lg!Abierto(canal, fd, nivel)
  BY Zenon DEF LgP!Abierto, Lg!Abierto
<1>9. LgP!Llama = Lg!Llama /\ LgP!Fopen = Lg!Fopen
  BY DEF LgP!Llama, Lg!Llama, LgP!Fopen, Lg!Fopen
<1> QED BY <1>1, <1>2, <1>4, <1>5, <1>6, <1>7, <1>8, <1>9

\* What module Log assumes of its constants.
LEMMA LogAsuncion == LgP!LogAssumption
<1>1. LgP!IsFiniteSet(0 .. LogApp)
  BY LogAppNat DEF LgP!IsFiniteSet, IsFiniteSet
<1> QED BY <1>1, FilesLogAssumption DEF LgP!LogAssumption, LgP!TodasLasReglasLog

\* A log that is opened, that of a new slot or that of the application, keeps LogInv.
LEMMA LogDeAbre ==
  ASSUME LgP!LogInv, NEW l \in 0 .. LogApp, Lg!LgInit(l, Fopen, 1)
  PROVE  LgP!LogInv'
<1>1. LgP!LogAssumption
  BY LogAsuncion
<1>2. LgP!LgInit(l, Fopen, 1)
  <2>1. /\ Lg!Llama /\ l \notin vEnUso /\ Fopen \in Lg!Fopen
        /\ vLog' = Lg!Pon(Lg!Crea, Lg!Abierto(Lg!Hueco(Lg!Crea), Fopen, 1))
        /\ Lg!Abre(Lg!Abierto(Lg!Hueco(Lg!Crea), Fopen, 1))
        /\ vPedido' = [vPedido EXCEPT ![l] = Lg!Abierto(Lg!Hueco(Lg!Crea), Fopen, 1)]
        /\ vNumero' = [vNumero EXCEPT ![l] = Lg!Crea]
        /\ vEnUso' = vEnUso \cup {l}
    BY DEF Lg!LgInit
  <2>2. UNCHANGED <<LgP!generalVars, {}, Quieto.ub, Quieto.vivo>>
    BY DEF LgP!generalVars, Quieto
  <2>3. LgP!Abre(Lg!Abierto(Lg!Hueco(Lg!Crea), Fopen, 1))
    BY <2>1 DEF Lg!Abre, LgP!Abre
  <2> QED BY <2>1, <2>2, <2>3, MismoLog DEF LgP!LgInit
<1>3. 1 \in {1} /\ Fopen \in LgP!Fopen
  BY MismoLog DEF Lg!LgInit
<1> QED BY <1>1, <1>2, <1>3, LgP!LgInitSegura

\* So does one that is closed, which only that of the application is.
LEMMA LogDeCierra ==
  ASSUME LgP!LogInv, NEW l \in 0 .. LogApp, Lg!LgClose(l)
  PROVE  LgP!LogInv'
<1>1. LgP!LogAssumption
  BY LogAsuncion
<1>2. LgP!LgClose(l)
  <2>1. /\ Lg!Usa(l)
        /\ vLog' = [vLog EXCEPT ![vNumero[l] + 1] = Lg!zlLog0]
        /\ Lg!Fclose(Lg!EnTabla(vNumero[l]))
        /\ vEnUso' = vEnUso \ {l}
        /\ UNCHANGED <<vNumero, vPedido>>
    BY DEF Lg!LgClose
  <2>2. UNCHANGED <<LgP!generalVars, Quieto.vivo>>
    BY DEF LgP!generalVars, Quieto
  <2>3. LgP!Fclose(Lg!EnTabla(vNumero[l]))
    BY <2>1 DEF Lg!Fclose, LgP!Fclose, Lg!ficheroVars, LgP!ficheroVars
  <2>4. LgP!Usa(l)
    BY <2>1, MismoLog DEF Lg!Usa, LgP!Usa, Lg!SinNumero, LgP!SinNumero
  <2> QED BY <2>1, <2>2, <2>3, <2>4, MismoLog DEF LgP!LgClose
<1>3. "cerrado" \in {"cerrado", "reinicia"}
  OBVIOUS
<1> QED BY <1>1, <1>2, <1>3, LgP!LgCloseSegura

\* And what opens and closes none.
LEMMA LogIgual ==
  ASSUME LgP!LogInv, UNCHANGED logVars
  PROVE  LgP!LogInv'
<1>1. UNCHANGED <<vLog, Quieto.general, Quieto.panic, vAbiertos, LgP!usoVars>>
  BY DEF logVars, Quieto, LgP!usoVars
<1>2. /\ Quieto.ub' = FALSE /\ Quieto.flush' \in BOOLEAN /\ Quieto.vivo' \in BOOLEAN
      /\ Quieto.vivo' => Quieto.vivo
      /\ {}' \subseteq {}
  BY DEF Quieto
<1> QED BY <1>1, <1>2, LogAsuncion, LgP!TablaIgual

\* The slots of a register.
Ranuras == [item : Cxs \cup {NULL}, nLog : Int]

\* Slots and connections that are alive point to each other; there are no more slots than
\* connections, so that the number of a slot is never that of the application's log; and
\* the logs are as module Log has them.
RegistroInv ==
  /\ vRegistra \in BOOLEAN /\ vPrefijo \in BOOLEAN /\ (vPrefijo => vRegistra)
  /\ vMem \in [Cxs -> {"libre", "vivo"}]
  /\ vNItem \in [Cxs -> Int]
  /\ vRegistro \in Seq(Ranuras) /\ Len(vRegistro) <= LogApp
  /\ ~vRegistra => vRegistro = <<>>
  /\ \A i \in 1 .. Len(vRegistro) :
       vRegistro[i].item # NULL
         => vMem[vRegistro[i].item] = "vivo" /\ vNItem[vRegistro[i].item] = i - 1
  /\ \A s \in Cxs : vRegistra /\ vMem[s] = "vivo"
       => vNItem[s] + 1 \in 1 .. Len(vRegistro) /\ vRegistro[vNItem[s] + 1].item = s
  /\ vPrefijo => \A i \in 1 .. Len(vRegistro) :
                   i - 1 \in vEnUso /\ vRegistro[i].nLog = vNumero[i - 1]
  /\ LgP!LogInv

\* The size of an interval of slots.
LEMMA Tramo ==
  ASSUME NEW n \in Nat
  PROVE  IsFiniteSet(1 .. n) /\ Cardinality(1 .. n) = n
BY FS_Interval

\* What is in a register.
LEMMA RanurasDe ==
  ASSUME NEW r \in Seq(Ranuras)
  PROVE  /\ Len(r) \in Nat /\ DOMAIN r = 1 .. Len(r)
         /\ \A i \in 1 .. Len(r) : r[i] \in Ranuras /\ r[i].item \in Cxs \cup {NULL}
                                   /\ r[i].nLog \in Int
<1>1. Len(r) \in Nat /\ DOMAIN r = 1 .. Len(r)
  BY LenProperties
<1>2. \A i \in 1 .. Len(r) : r[i] \in Ranuras
  BY <1>1, ElementOfSeq
<1>3. \A x \in Ranuras : x.item \in Cxs \cup {NULL} /\ x.nLog \in Int
  BY DEF Ranuras
<1> QED BY <1>1, <1>2, <1>3

\* A connection that comes finds an empty slot, or has the next: when all are taken, those
\* who have them are others, and fewer than the connections there can be.
LEMMA HuecoLibre ==
  ASSUME RegistroInv, NEW s \in Cxs, vMem[s] = "libre"
  PROVE  /\ Hueco \in 1 .. Len(vRegistro) + 1 /\ Hueco <= LogApp
         /\ Hueco \in 1 .. Len(vRegistro) => vRegistro[Hueco].item = NULL
<1>1. /\ Len(vRegistro) \in Nat /\ DOMAIN vRegistro = 1 .. Len(vRegistro)
      /\ \A i \in 1 .. Len(vRegistro) : vRegistro[i].item \in Cxs \cup {NULL}
      /\ Len(vRegistro) <= LogApp /\ LogApp \in Nat
  BY RanurasDe, LogAppNat DEF RegistroInv
<1>2. CASE Huecos = {}
  <2>1. Hueco = Len(vRegistro) + 1
    BY <1>2 DEF Hueco
  <2> DEFINE f == [i \in 1 .. Len(vRegistro) |-> vRegistro[i].item]
             otras == Cxs \ {s}
  <2>2. \A i \in 1 .. Len(vRegistro) : vRegistro[i].item # NULL /\ vRegistro[i].item # s
                                    /\ vNItem[vRegistro[i].item] = i - 1
    BY <1>1, <1>2 DEF RegistroInv, Huecos
  <2>3. f \in [1 .. Len(vRegistro) -> otras]
        /\ \A i, j \in 1 .. Len(vRegistro) : f[i] = f[j] => i = j
    BY <1>1, <2>2
  <2>4. IsFiniteSet(otras) /\ Cardinality(otras) = LogApp - 1
    BY FilesLogAssumption, FS_RemoveElement DEF LogApp
  <2>5. IsFiniteSet(1 .. Len(vRegistro)) /\ Cardinality(1 .. Len(vRegistro)) = Len(vRegistro)
    BY <1>1, Tramo
  <2>6. ~(LogApp - 1 < Len(vRegistro))
    <3> HIDE DEF f, otras
    <3> QED BY <2>3, <2>4, <2>5, FS_PigeonHole
  <2> QED BY <1>1, <2>1, <2>6
<1>3. CASE Huecos # {}
  <2>1. Huecos \in SUBSET Nat
    BY <1>1 DEF Huecos
  <2>2. \E i \in Huecos : \A otro \in Huecos : i <= otro
    BY <1>3, <2>1, Lista!Minimo
  <2>3. Hueco \in Huecos
    BY <1>3, <2>2 DEF Hueco
  <2> QED BY <1>1, <2>3 DEF Huecos
<1> QED BY <1>2, <1>3

\* zlRegistroConexionAdd and zlEvtSocketListAdd: the slot has the connection, with the log
\* it had or a new one, and nothing changes in the others.
LEMMA AnotaHace ==
  ASSUME RegistroInv, NEW s \in Cxs, vMem[s] = "libre", Anota(s)
  PROVE  /\ vRegistro' \in Seq(Ranuras)
         /\ Len(vRegistro') = IF Hueco = Len(vRegistro) + 1 THEN Hueco ELSE Len(vRegistro)
         /\ Hueco \in 1 .. Len(vRegistro')
         /\ vRegistro'[Hueco].item = s
         /\ \A i \in 1 .. Len(vRegistro) :
              /\ i # Hueco => vRegistro'[i].item = vRegistro[i].item
              /\ vRegistro'[i].nLog = vRegistro[i].nLog
         /\ vPrefijo => \A i \in 1 .. Len(vRegistro') :
                          i - 1 \in vEnUso' /\ vRegistro'[i].nLog = vNumero'[i - 1]
         /\ LgP!LogInv'
<1>1. /\ Len(vRegistro) \in Nat /\ DOMAIN vRegistro = 1 .. Len(vRegistro)
      /\ \A i \in 1 .. Len(vRegistro) : vRegistro[i] \in Ranuras
      /\ Hueco \in 1 .. Len(vRegistro) + 1 /\ Hueco <= LogApp /\ LogApp \in Nat
      /\ vRegistro \in Seq(Ranuras) /\ LgP!LogInv
      /\ vPrefijo => \A i \in 1 .. Len(vRegistro) :
                   i - 1 \in vEnUso /\ vRegistro[i].nLog = vNumero[i - 1]
  BY RanurasDe, LogAppNat, HuecoLibre DEF RegistroInv
<1>2. CASE Hueco \in DOMAIN vRegistro
  <2>1. vRegistro' = [vRegistro EXCEPT ![Hueco].item = s] /\ UNCHANGED logVars
    BY <1>2 DEF Anota
  <2> DEFINE ranura == [vRegistro[Hueco] EXCEPT !.item = s]
  <2>2. ranura \in Ranuras /\ ranura.item = s /\ ranura.nLog = vRegistro[Hueco].nLog
    BY <1>1, <1>2 DEF Ranuras
  <2>3. vRegistro' = [vRegistro EXCEPT ![Hueco] = ranura]
    BY <2>1
  <2> HIDE DEF ranura
  <2>4. /\ vRegistro' \in Seq(Ranuras) /\ Len(vRegistro') = Len(vRegistro)
        /\ \A i \in 1 .. Len(vRegistro) :
             vRegistro'[i] = IF i = Hueco THEN ranura ELSE vRegistro[i]
    BY <1>1, <1>2, <2>2, <2>3, ExceptSeq
  <2>5. LgP!LogInv'
    BY <1>1, <2>1, LogIgual
  <2>6. UNCHANGED <<vEnUso, vNumero>>
    BY <2>1 DEF logVars
  <2>7. \A i \in 1 .. Len(vRegistro) :
          /\ i # Hueco => vRegistro'[i].item = vRegistro[i].item
          /\ vRegistro'[i].nLog = vRegistro[i].nLog
    BY <2>2, <2>4
  <2>8. Hueco \in 1 .. Len(vRegistro) /\ Hueco # Len(vRegistro) + 1
        /\ vRegistro'[Hueco].item = s
    BY <1>1, <1>2, <2>2, <2>4
  <2> QED BY <1>1, <2>4, <2>5, <2>6, <2>7, <2>8
<1>3. CASE Hueco \notin DOMAIN vRegistro
  <2>1. Hueco = Len(vRegistro) + 1 /\ Hueco - 1 \in 0 .. LogApp /\ Hueco - 1 = Len(vRegistro)
    BY <1>1, <1>3
  <2>2. CASE vPrefijo
    <3>1. /\ Lg!LgInit(Hueco - 1, Fopen, 1)
          /\ vRegistro' = Append(vRegistro, [item |-> s, nLog |-> Lg!Crea])
      BY <1>3, <2>2 DEF Anota
    <3>2. LgP!LogInv'
      BY <1>1, <2>1, <3>1, LogDeAbre
    <3>3. /\ vEnUso' = vEnUso \cup {Hueco - 1}
          /\ vNumero' = [vNumero EXCEPT ![Hueco - 1] = Lg!Crea]
      BY <3>1 DEF Lg!LgInit
    <3>4. Lg!Crea \in Int /\ vNumero \in [0 .. LogApp -> Nat \cup {-1}]
      <4>1. vLog \in Seq(LgP!Canales) /\ vNumero \in [0 .. LogApp -> Nat \cup {-1}]
        BY <1>1 DEF LgP!LogInv, LgP!LogTypeOK, LgP!SinNumero
      <4>2. LgP!Crea \in Nat
        BY <4>1, LogAsuncion, LgP!CreaLibre
      <4> QED BY <4>1, <4>2, MismoLog
    <3>5. vNumero'[Hueco - 1] = Lg!Crea
      BY <2>1, <3>3, <3>4
    <3>6. ASSUME NEW i \in 1 .. Len(vRegistro)
          PROVE  i - 1 \in vEnUso' /\ vRegistro[i].nLog = vNumero'[i - 1]
      <4>1. i - 1 \in 0 .. LogApp /\ i - 1 # Hueco - 1
        BY <1>1, <2>1
      <4>2. i - 1 \in vEnUso /\ vRegistro[i].nLog = vNumero[i - 1]
        BY <1>1, <2>2
      <4> QED BY <3>3, <3>4, <4>1, <4>2
    <3> DEFINE ranura == [item |-> s, nLog |-> Lg!Crea]
    <3>7. ranura \in Ranuras /\ ranura.item = s /\ ranura.nLog = Lg!Crea
      BY <3>4 DEF Ranuras
    <3>8. vRegistro' = Append(vRegistro, ranura)
      BY <3>1
    <3> HIDE DEF ranura
    <3>9. /\ vRegistro' \in Seq(Ranuras) /\ Len(vRegistro') = Len(vRegistro) + 1
          /\ vRegistro'[Len(vRegistro) + 1] = ranura
          /\ \A i \in 1 .. Len(vRegistro) : vRegistro'[i] = vRegistro[i]
      BY <1>1, <3>7, <3>8, AppendProperties
    <3>10. \A i \in 1 .. Len(vRegistro') :
             i - 1 \in vEnUso' /\ vRegistro'[i].nLog = vNumero'[i - 1]
      <4>1. ASSUME NEW i \in 1 .. Len(vRegistro')
            PROVE  i - 1 \in vEnUso' /\ vRegistro'[i].nLog = vNumero'[i - 1]
        <5>1. CASE i = Hueco
          <6>1. vRegistro'[i].nLog = Lg!Crea
            BY <2>1, <3>7, <3>9, <5>1
          <6> QED BY <3>3, <3>5, <5>1, <6>1
        <5>2. CASE i # Hueco
          <6>1. i \in 1 .. Len(vRegistro)
            BY <1>1, <2>1, <3>9, <5>2
          <6> QED BY <3>6, <3>9, <6>1
        <5> QED BY <5>1, <5>2
      <4> QED BY <4>1
    <3> QED BY <1>1, <2>1, <3>2, <3>7, <3>9, <3>10
  <2>3. CASE ~vPrefijo
    <3> DEFINE ranura == [item |-> s, nLog |-> -1]
    <3>1. vRegistro' = Append(vRegistro, ranura) /\ UNCHANGED logVars
      BY <1>3, <2>3 DEF Anota
    <3>2. ranura \in Ranuras /\ ranura.item = s
      BY DEF Ranuras
    <3> HIDE DEF ranura
    <3>3. /\ vRegistro' \in Seq(Ranuras) /\ Len(vRegistro') = Len(vRegistro) + 1
          /\ vRegistro'[Len(vRegistro) + 1] = ranura
          /\ \A i \in 1 .. Len(vRegistro) : vRegistro'[i] = vRegistro[i]
      BY <1>1, <3>1, <3>2, AppendProperties
    <3>4. LgP!LogInv'
      BY <1>1, <3>1, LogIgual
    <3> QED BY <1>1, <2>1, <2>3, <3>2, <3>3, <3>4
  <2> QED BY <2>2, <2>3 
<1> QED BY <1>2, <1>3

\* A connection that is accepted or made.
LEMMA RegistroEntra ==
  ASSUME RegistroInv, NEW s \in Cxs, vMem[s] = "libre", vMem' = [vMem EXCEPT ![s] = "vivo"],
         Entra(s), UNCHANGED ajustes
  PROVE  /\ RegistroInv'
         /\ vNItem' \in [Cxs -> Int] /\ \A x \in Cxs \ {s} : vNItem'[x] = vNItem[x]
         /\ \A i \in 1 .. Len(vRegistro) : vRegistro'[i].nLog = vRegistro[i].nLog
         /\ vRegistra => vNItem'[s] + 1 = Hueco
<1>0. /\ Len(vRegistro) \in Nat /\ LogApp \in Nat /\ NULL \notin Cxs
      /\ vNItem \in [Cxs -> Int] /\ vMem \in [Cxs -> {"libre", "vivo"}]
      /\ vMem' \in [Cxs -> {"libre", "vivo"}]
      /\ vMem'[s] = "vivo" /\ \A x \in Cxs \ {s} : vMem'[x] = vMem[x]
      /\ UNCHANGED <<vRegistra, vPrefijo>>
      /\ \A i \in 1 .. Len(vRegistro) : vRegistro[i].item \in Cxs \cup {NULL}
  BY RanurasDe, LogAppNat DEF RegistroInv, ajustes
<1>1. CASE ~vRegistra
  <2>1. vNItem' = [vNItem EXCEPT ![s] = -1] /\ UNCHANGED <<vRegistro, logVars>>
    BY <1>1 DEF Entra
  <2>2. LgP!LogInv'
    BY <2>1, LogIgual DEF RegistroInv
  <2>3. Len(vRegistro) = 0
    BY <1>1 DEF RegistroInv
  <2>4. vNItem' \in [Cxs -> Int] /\ \A x \in Cxs \ {s} : vNItem'[x] = vNItem[x]
    BY <1>0, <2>1
  <2>5. RegistroInv'
    BY <1>0, <1>1, <2>1, <2>2, <2>3, <2>4 DEF RegistroInv
  <2> QED BY <1>1, <2>1, <2>4, <2>5
<1>2. CASE vRegistra
  <2>1. Anota(s)
    BY <1>2 DEF Entra
  <2>2. vNItem' = [vNItem EXCEPT ![s] = Hueco - 1]
    BY <2>1 DEF Anota
  <2>3. Hueco \in Int /\ Hueco \in 1 .. Len(vRegistro) + 1 /\ Hueco <= LogApp
        /\ (Hueco \in 1 .. Len(vRegistro) => vRegistro[Hueco].item = NULL)
    BY <1>0, HuecoLibre
  <2>4. /\ vNItem' \in [Cxs -> Int] /\ \A x \in Cxs \ {s} : vNItem'[x] = vNItem[x]
        /\ vNItem'[s] = Hueco - 1 /\ vNItem'[s] + 1 = Hueco
    BY <1>0, <2>2, <2>3
  <2>5. PICK h \in Int : h = Hueco
    BY <2>3
  <2>6. /\ vRegistro' \in Seq(Ranuras)
        /\ Len(vRegistro') = IF h = Len(vRegistro) + 1 THEN h ELSE Len(vRegistro)
        /\ h \in 1 .. Len(vRegistro')
        /\ vRegistro'[h].item = s
        /\ \A i \in 1 .. Len(vRegistro) :
             /\ i # h => vRegistro'[i].item = vRegistro[i].item
             /\ vRegistro'[i].nLog = vRegistro[i].nLog
        /\ vPrefijo => \A i \in 1 .. Len(vRegistro') :
                         i - 1 \in vEnUso' /\ vRegistro'[i].nLog = vNumero'[i - 1]
        /\ LgP!LogInv'
    BY <2>1, <2>5, AnotaHace
  <2>7. Len(vRegistro') <= LogApp
    BY <2>3, <2>5, <2>6 DEF RegistroInv
  <2>8. ASSUME NEW i \in 1 .. Len(vRegistro'), vRegistro'[i].item # NULL
        PROVE  vMem'[vRegistro'[i].item] = "vivo" /\ vNItem'[vRegistro'[i].item] = i - 1
    <3>1. CASE i = h
      BY <1>0, <2>4, <2>5, <2>6, <3>1
    <3>2. CASE i # h
      <4>1. i \in 1 .. Len(vRegistro) /\ vRegistro'[i].item = vRegistro[i].item
        BY <1>0, <2>6, <3>2
      <4>2. vRegistro[i].item \in Cxs \ {s}
        BY <1>0, <2>8, <4>1 DEF RegistroInv
      <4> QED BY <1>0, <2>4, <2>8, <4>1, <4>2 DEF RegistroInv
    <3> QED BY <3>1, <3>2
  <2>9. ASSUME NEW x \in Cxs, vMem'[x] = "vivo"
        PROVE  vNItem'[x] + 1 \in 1 .. Len(vRegistro') /\ vRegistro'[vNItem'[x] + 1].item = x
    <3>1. CASE x = s
      BY <2>4, <2>5, <2>6, <3>1
    <3>2. CASE x # s
      <4>1. /\ vNItem'[x] = vNItem[x] /\ vNItem[x] + 1 \in 1 .. Len(vRegistro)
            /\ vRegistro[vNItem[x] + 1].item = x
        BY <1>0, <1>2, <2>4, <2>9, <3>2 DEF RegistroInv
      <4>2. vNItem[x] + 1 # h
        BY <1>0, <2>3, <2>5, <4>1
      <4>3. vNItem[x] + 1 \in 1 .. Len(vRegistro')
        BY <1>0, <2>3, <2>5, <2>6, <4>1
      <4> QED BY <2>6, <4>1, <4>2, <4>3
    <3> QED BY <3>1, <3>2
  <2>10. RegistroInv'
    BY <1>0, <1>2, <2>4, <2>6, <2>7, <2>8, <2>9 DEF RegistroInv
  <2> QED BY <2>4, <2>5, <2>6, <2>10
<1> QED BY <1>1, <1>2

\* A connection that is freed: its slot is empty, with its log.
LEMMA RegistroSale ==
  ASSUME RegistroInv, NEW s \in Cxs, vMem[s] = "vivo", vMem' = [vMem EXCEPT ![s] = "libre"],
         Borra(vNItem[s]) \/ (~vRegistra /\ UNCHANGED registroVars), UNCHANGED ajustes
  PROVE  /\ RegistroInv' /\ UNCHANGED vNItem
         /\ \A i \in 1 .. Len(vRegistro) : vRegistro'[i].nLog = vRegistro[i].nLog
<1>0. /\ Len(vRegistro) \in Nat /\ DOMAIN vRegistro = 1 .. Len(vRegistro)
      /\ vNItem \in [Cxs -> Int] /\ vMem \in [Cxs -> {"libre", "vivo"}]
      /\ vMem' \in [Cxs -> {"libre", "vivo"}]
      /\ vMem'[s] = "libre" /\ \A x \in Cxs \ {s} : vMem'[x] = vMem[x]
      /\ UNCHANGED <<vRegistra, vPrefijo>>
      /\ \A i \in 1 .. Len(vRegistro) : vRegistro[i] \in Ranuras
      /\ \A i \in 1 .. Len(vRegistro) : vRegistro[i].item \in Cxs \cup {NULL}
  BY RanurasDe DEF RegistroInv, ajustes
<1>1. UNCHANGED <<vNItem, logVars, vEnUso, vNumero>>
  BY DEF Borra, registroVars, logVars
<1>2. LgP!LogInv'
  BY <1>1, LogIgual DEF RegistroInv
<1>3. CASE ~vRegistra
  <2>1. vRegistro = <<>> /\ Len(vRegistro) = 0 /\ vRegistro' = vRegistro
    BY <1>0, <1>3 DEF RegistroInv, Borra, registroVars
  <2> QED BY <1>0, <1>1, <1>2, <1>3, <2>1 DEF RegistroInv
<1>4. CASE vRegistra
  <2>1. PICK h \in 1 .. Len(vRegistro) : vNItem[s] + 1 = h /\ vRegistro[h].item = s
    BY <1>0, <1>4 DEF RegistroInv
  <2> DEFINE ranura == [vRegistro[h] EXCEPT !.item = NULL]
  <2>2. ranura \in Ranuras /\ ranura.item = NULL /\ ranura.nLog = vRegistro[h].nLog
    BY <1>0 DEF Ranuras
  <2>3. vRegistro' = [vRegistro EXCEPT ![h] = ranura]
    BY <1>0, <1>4, <2>1 DEF Borra
  <2> HIDE DEF ranura
  <2>4. /\ vRegistro' \in Seq(Ranuras) /\ Len(vRegistro') = Len(vRegistro)
        /\ \A i \in 1 .. Len(vRegistro) :
             vRegistro'[i] = IF i = h THEN ranura ELSE vRegistro[i]
    BY <2>2, <2>3, ExceptSeq DEF RegistroInv
  <2>5. \A i \in 1 .. Len(vRegistro) :
          /\ vRegistro'[i].item = IF i = h THEN NULL ELSE vRegistro[i].item
          /\ vRegistro'[i].nLog = vRegistro[i].nLog
    BY <2>2, <2>4
  <2>6. ASSUME NEW i \in 1 .. Len(vRegistro'), vRegistro'[i].item # NULL
        PROVE  vMem'[vRegistro'[i].item] = "vivo" /\ vNItem'[vRegistro'[i].item] = i - 1
    <3>1. i \in 1 .. Len(vRegistro) /\ i # h /\ vRegistro'[i].item = vRegistro[i].item
      BY <2>4, <2>5, <2>6
    <3>2. vMem[vRegistro[i].item] = "vivo" /\ vNItem[vRegistro[i].item] = i - 1
      BY <2>6, <3>1 DEF RegistroInv
    <3>3. vRegistro[i].item \in Cxs \ {s}
      <4>1. vRegistro[i].item \in Cxs
        BY <1>0, <2>6, <3>1
      <4>2. vRegistro[i].item # s
        BY <1>0, <2>1, <3>1, <3>2
      <4> QED BY <4>1, <4>2
    <3> QED BY <1>0, <1>1, <3>1, <3>2, <3>3
  <2>7. ASSUME NEW x \in Cxs, vMem'[x] = "vivo"
        PROVE  vNItem'[x] + 1 \in 1 .. Len(vRegistro') /\ vRegistro'[vNItem'[x] + 1].item = x
    <3>1. x # s /\ vMem[x] = "vivo"
      BY <1>0, <2>7
    <3>2. vNItem[x] + 1 \in 1 .. Len(vRegistro) /\ vRegistro[vNItem[x] + 1].item = x
      BY <1>4, <3>1 DEF RegistroInv
    <3>3. vNItem[x] + 1 # h
      BY <2>1, <3>1, <3>2
    <3> QED BY <1>1, <2>4, <2>5, <3>2, <3>3
  <2>8. vPrefijo => \A i \in 1 .. Len(vRegistro') :
                      i - 1 \in vEnUso' /\ vRegistro'[i].nLog = vNumero'[i - 1]
    BY <1>1, <2>4, <2>5 DEF RegistroInv
  <2>9. RegistroInv'
    BY <1>0, <1>1, <1>2, <1>4, <2>4, <2>6, <2>7, <2>8 DEF RegistroInv
  <2> QED BY <1>1, <2>5, <2>9
<1> QED BY <1>3, <1>4

\* What neither makes nor frees a connection.
LEMMA RegistroIgual ==
  ASSUME RegistroInv, UNCHANGED <<vMem, ajustes, registroVars>>
  PROVE  RegistroInv'
<1>1. UNCHANGED <<vRegistra, vPrefijo, vRegistro, vNItem, vEnUso, vNumero, logVars>>
  BY DEF ajustes, registroVars, logVars
<1>2. LgP!LogInv'
  BY <1>1, LogIgual DEF RegistroInv
<1> QED BY <1>1, <1>2 DEF RegistroInv

\* The application opens or closes a log of its own, which is that of no slot.
LEMMA RegistroLogApp ==
  ASSUME RegistroInv, LogAppInit \/ LogAppClose
  PROVE  RegistroInv'
<1>0. /\ Len(vRegistro) \in Nat /\ LogApp \in Nat /\ LogApp \in 0 .. LogApp
      /\ Len(vRegistro) <= LogApp /\ LgP!LogInv
  BY RanurasDe, LogAppNat DEF RegistroInv
<1>1. UNCHANGED <<vMem, vRegistra, vPrefijo, vRegistro, vNItem>>
  BY DEF LogAppInit, LogAppClose, viejoVars, conexionVars, ajustes
<1>2. CASE LogAppInit
  <2>1. Lg!LgInit(LogApp, Fopen, 1)
    BY <1>2 DEF LogAppInit
  <2>2. LgP!LogInv'
    BY <1>0, <2>1, LogDeAbre
  <2>3. /\ vEnUso' = vEnUso \cup {LogApp}
        /\ vNumero' = [vNumero EXCEPT ![LogApp] = Lg!Crea]
    BY <2>1 DEF Lg!LgInit
  <2>4. vNumero \in [0 .. LogApp -> Nat \cup {LgP!SinNumero}]
    BY <1>0 DEF LgP!LogInv, LgP!LogTypeOK
  <2>5. \A i \in 1 .. Len(vRegistro) : i - 1 \in 0 .. LogApp /\ i - 1 # LogApp
    BY <1>0
  <2>6. vPrefijo => \A i \in 1 .. Len(vRegistro) :
                      i - 1 \in vEnUso' /\ vRegistro[i].nLog = vNumero'[i - 1]
    BY <2>3, <2>4, <2>5 DEF RegistroInv
  <2> QED BY <1>1, <2>2, <2>6 DEF RegistroInv
<1>3. CASE LogAppClose
  <2>1. Lg!LgClose(LogApp)
    BY <1>3 DEF LogAppClose
  <2>2. LgP!LogInv'
    BY <1>0, <2>1, LogDeCierra
  <2>3. vEnUso' = vEnUso \ {LogApp} /\ vNumero' = vNumero
    BY <2>1 DEF Lg!LgClose
  <2>5. \A i \in 1 .. Len(vRegistro) : i - 1 # LogApp
    BY <1>0
  <2>6. vPrefijo => \A i \in 1 .. Len(vRegistro) :
                      i - 1 \in vEnUso' /\ vRegistro[i].nLog = vNumero'[i - 1]
    BY <2>3, <2>5 DEF RegistroInv
  <2> QED BY <1>1, <2>2, <2>6 DEF RegistroInv
<1> QED BY <1>2, <1>3

\* RegistroInv says what RegisterIsExact asks for.
LEMMA RegistroExacto == RegistroInv => RegisterIsExact
<1> SUFFICES ASSUME RegistroInv PROVE RegisterIsExact
  OBVIOUS
<1>0. Len(vRegistro) \in Nat /\ DOMAIN vRegistro = 1 .. Len(vRegistro)
  BY RanurasDe DEF RegistroInv
<1>1. /\ \A l \in vEnUso : LgP!EnTabla(vNumero[l]) = vPedido[l]
      /\ \A l, otro \in vEnUso : vNumero[l] = vNumero[otro] => l = otro
  BY DEF RegistroInv, LgP!LogInv, LgP!ChannelKeepsFile, LgP!SlotsOwned
<1>2. \A l \in vEnUso : Lg!EnTabla(vNumero[l]) = vPedido[l]
  BY <1>1, MismoLog
<1>3. ASSUME vPrefijo, NEW i \in DOMAIN vRegistro
      PROVE  /\ i - 1 \in vEnUso
             /\ vRegistro[i].nLog = vNumero[i - 1]
             /\ Lg!EnTabla(vRegistro[i].nLog) = vPedido[i - 1]
             /\ \A l \in vEnUso \ {i - 1} : vNumero[l] # vRegistro[i].nLog
  <2>1. i - 1 \in vEnUso /\ vRegistro[i].nLog = vNumero[i - 1]
    BY <1>0, <1>3 DEF RegistroInv
  <2> QED BY <1>1, <1>2, <2>1
<1>4. \A i \in DOMAIN vRegistro :
        vRegistro[i].item # NULL
          => vMem[vRegistro[i].item] = "vivo" /\ vNItem[vRegistro[i].item] = i - 1
  BY <1>0 DEF RegistroInv
<1>5. \A s \in Cxs : vRegistra /\ vMem[s] = "vivo" => vRegistro[vNItem[s] + 1].item = s
  BY DEF RegistroInv
<1> QED BY <1>3, <1>4, <1>5 DEF RegisterIsExact

\* And holds of a register without slots.
LEMMA RegistroEmpieza == ViejoInit /\ RegistroInit => RegistroInv
<1> SUFFICES ASSUME ViejoInit, RegistroInit PROVE RegistroInv
  OBVIOUS
<1>1. LgP!LogInv
  <2>1. LgP!LogEmpieza
    BY DEF RegistroInit, LgP!LogEmpieza, Quieto, LgP!zlLog0, LgP!Canal, Lg!zlLog0, Lg!Canal,
       LgP!SinNumero
  <2> QED BY <2>1, LogAsuncion, LgP!LogInicio
<1>2. Len(vRegistro) = 0 /\ 0 <= LogApp /\ vRegistro \in Seq(Ranuras)
  BY LogAppNat, EmptySeq DEF RegistroInit
<1>3. /\ vRegistra \in BOOLEAN /\ vPrefijo \in BOOLEAN /\ (vPrefijo => vRegistra)
      /\ vRegistro = <<>>
  <2>1. vRegistra \in BOOLEAN /\ vPrefijo \in {FALSE, vRegistra} /\ vRegistro = <<>>
    BY Zenon DEF RegistroInit
  <2>2. CASE vPrefijo = FALSE
    BY <2>1, <2>2, Zenon
  <2>3. CASE vPrefijo = vRegistra
    BY <2>1, <2>3, Zenon
  <2> QED BY <2>1, <2>2, <2>3, Zenon
<1>4. /\ vMem \in [Cxs -> {"libre", "vivo"}] /\ \A s \in Cxs : vMem[s] # "vivo"
      /\ vNItem \in [Cxs -> Int]
  BY DEF ViejoInit, RegistroInit
<1>5. 1 .. Len(vRegistro) = {}
  BY <1>2
<1> QED BY <1>1, <1>2, <1>3, <1>4, <1>5 DEF RegistroInv

\* Every step of the server keeps it.
LEMMA ServidorRegistroPaso ==
  ASSUME "fin" \in ReglasViejas,
         ServidorInvViejo, RegistroInv, [ServidorNext]_servidorViejoVars
  PROVE  RegistroInv'
<1>1. CASE \/ zlServerSocketInicia \/ zlServerSocketLanza \/ serverMainTimeoutBind
           \/ zlServerSocketFree \/ ServidorVuelve \/ UNCHANGED servidorViejoVars
  <2>1. UNCHANGED <<vMem, ajustes, registroVars>>
    BY <1>1 DEF zlServerSocketInicia, zlServerSocketLanza, serverMainTimeoutBind, TimeoutBind,
       Estado, zlServerSocketFree, LiberaListener, ServidorVuelve, VVuelveYNada,
       servidorViejoVars, servidorVars, viejoVars, conexionVars
  <2> QED BY <2>1, RegistroIgual
<1>2. ASSUME NEW s \in Cxs,
             \/ zlServerSocketRead_cb(s) \/ zlServerSocketWrite_cb(s)
             \/ zlServerSocketWriteClose_cb(s) \/ zlServerSocketEvent_cb(s)
             \/ \E cierra \in BOOLEAN : zlServerSocketWriteCommand(s, cierra)
      PROVE  RegistroInv'
  <2>1. UNCHANGED <<vMem, ajustes, registroVars>>
    BY <1>2 DEF zlServerSocketRead_cb, zlServerSocketWrite_cb, zlServerSocketWriteClose_cb,
       zlServerSocketEvent_cb, Evento, zlServerSocketWriteCommand, conexionVars
  <2> QED BY <2>1, RegistroIgual
<1>3. ASSUME NEW s \in Cxs, zlServerSocketAccept_cb(s)
      PROVE  RegistroInv'
  <2>1. /\ vMem[s] = "libre" /\ vMem' = [vMem EXCEPT ![s] = "vivo"]
        /\ Entra(s) /\ UNCHANGED ajustes
    BY <1>3 DEF zlServerSocketAccept_cb, VReserva
  <2> QED BY <2>1, RegistroEntra
<1>4. ASSUME NEW s \in Cxs, vMem[s] = "vivo", Quita(s)
      PROVE  RegistroInv'
  <2>1. /\ vMem' = [vMem EXCEPT ![s] = "libre"] /\ UNCHANGED ajustes
        /\ zlRegistroConexionItemFree(vNItem[s])
    BY <1>4 DEF Quita, VDevuelve
  <2>2. Borra(vNItem[s]) \/ (~vRegistra /\ UNCHANGED registroVars)
    <3>1. vRegistra => vNItem[s] >= 0
      BY <1>4, RanurasDe DEF RegistroInv
    <3> QED BY <2>1, <3>1 DEF zlRegistroConexionItemFree, RegistroInv
  <2> QED BY <1>4, <2>1, <2>2, RegistroSale
<1>5. ASSUME NEW s \in Cxs, zlConexionCommandClose(s)
      PROVE  RegistroInv'
  BY <1>4, <1>5 DEF zlConexionCommandClose, Escribible
<1>6. CASE VuelveFin
  <2>1. VCima.s \in Cxs /\ vMem[VCima.s] = "vivo"
    <3>1. PICK m \in VMarcos : vPila = <<m>>
      BY <1>6 DEF VuelveFin, VuelveDe, ServidorInvViejo
    <3>2. VCima = m /\ m.aviso = "FIN" /\ vPila # <<>> /\ vPila[1] = m
      BY <1>6, <3>1 DEF VuelveFin, VuelveDe, VCima
    <3> QED BY <3>1, <3>2 DEF ServidorInvViejo, EnAviso
  <2> QED BY <1>4, <1>6, <2>1 DEF VuelveFin
<1>7. CASE LogAppInit \/ LogAppClose
  BY <1>7, RegistroLogApp
<1> QED BY <1>1, <1>2, <1>3, <1>5, <1>6, <1>7 DEF ServidorNext

\* The register of a server has each connection that is alive in its slot and no other,
\* and each slot keeps its log, that nobody else has, whatever connections come and go and
\* whatever logs the application opens and closes: for any number of connections.
THEOREM ServidorKeepsRegister ==
  ASSUME "fin" \in ReglasViejas
  PROVE  ServidorSpec => []RegisterIsExact
<1>1. ViejoInit /\ RegistroInit => ServidorInvViejo /\ RegistroInv
  BY RegistroEmpieza DEF ViejoInit, RegistroInit, ServidorInvViejo, EnAviso
<1>2. ServidorInvViejo /\ RegistroInv /\ [ServidorNext]_servidorViejoVars
        => (ServidorInvViejo /\ RegistroInv)'
  BY ServidorInvPaso, ServidorRegistroPaso
<1> QED BY <1>1, <1>2, RegistroExacto, PTL DEF ServidorSpec

\* A socket has the log of its slot copied into it.
LogsDeSockets ==
  /\ vNLog \in [Cxs -> Int]
  /\ \A s \in Cxs : vMem[s] = "vivo" /\ vRegistra => vNLog[s] = vRegistro[vNItem[s] + 1].nLog

\* The slot keeps the log as long as the socket lives: so do the steps of sockets.
LEMMA SocketRegistroPaso ==
  ASSUME {"fin", "lista"} \subseteq ReglasViejas,
         SocketInvViejo, RegistroInv, LogsDeSockets, [SocketNext]_socketViejoVars
  PROVE  RegistroInv' /\ LogsDeSockets'
<1>0. ASSUME UNCHANGED <<vMem, ajustes, registroVars, vNLog>>
      PROVE  RegistroInv' /\ LogsDeSockets'
  BY <1>0, RegistroIgual DEF LogsDeSockets, ajustes, registroVars
<1>1. CASE \/ zlEvtSocketServerData \/ zlServerSocketLanzaData \/ zlEvtSocketTimeoutBind_cb
           \/ zlEvtSocketServerFree
  BY <1>0, <1>1 DEF zlEvtSocketServerData, zlServerSocketLanzaData, zlEvtSocketTimeoutBind_cb,
     TimeoutBind, Estado, zlEvtSocketServerFree, LiberaListener, Iguales, conexionVars
<1>2. CASE zlEvtSocketVuelve \/ zlEvtSocketListFree \/ UNCHANGED socketViejoVars
  BY <1>0, <1>2 DEF zlEvtSocketVuelve, VVuelveYNada, zlEvtSocketListFree, Iguales,
     socketViejoVars, servidorVars, viejoVars, conexionVars
<1>3. ASSUME NEW s \in Cxs,
             \/ zlEvtSocketRead_cb(s) \/ zlEvtSocketWrite_cb(s)
             \/ zlEvtSocketWriteClose_cb(s) \/ zlEvtSocketEvent_cbFin(s)
             \/ zlEvtSocketEvent_cbConnect(s) \/ zlEvtSocketCloseCommand(s)
             \/ \E cierra \in BOOLEAN : zlEvtSocketWriteCommand(s, cierra)
      PROVE  RegistroInv' /\ LogsDeSockets'
  BY <1>0, <1>3 DEF zlEvtSocketRead_cb, zlEvtSocketWrite_cb, zlEvtSocketWriteClose_cb,
     zlEvtSocketEvent_cbFin, zlEvtSocketEvent_cbConnect, LlegaA, zlEvtSocketCloseCommand,
     zlEvtSocketWriteCommand, Iguales, servidorVars, conexionVars
<1>4. ASSUME NEW s \in Cxs, zlEvtSocketCreaCliente(s) \/ zlEvtSocketAccept_cb(s)
      PROVE  RegistroInv' /\ LogsDeSockets'
  <2>1. /\ vMem[s] = "libre" /\ vMem' = [vMem EXCEPT ![s] = "vivo"]
        /\ Entra(s) /\ UNCHANGED ajustes
        /\ vNLog' = [vNLog EXCEPT ![s] = IF vRegistra THEN vRegistro'[Hueco].nLog ELSE -1]
    BY <1>4 DEF zlEvtSocketCreaCliente, zlEvtSocketAccept_cb, Crea, VReserva,
       zlEvtSocketListAdd
  <2>2. /\ RegistroInv'
        /\ vNItem' \in [Cxs -> Int] /\ \A x \in Cxs \ {s} : vNItem'[x] = vNItem[x]
        /\ \A i \in 1 .. Len(vRegistro) : vRegistro'[i].nLog = vRegistro[i].nLog
        /\ vRegistra => vNItem'[s] + 1 = Hueco
    BY <2>1, RegistroEntra
  <2>3. vRegistra' = vRegistra
    BY <2>1 DEF ajustes
  <2>4. vRegistra => vRegistro'[Hueco].nLog \in Int
    <3>1. vRegistro' \in Seq(Ranuras)
      BY <2>2 DEF RegistroInv
    <3>2. vRegistra => vNItem'[s] + 1 \in 1 .. Len(vRegistro')
      BY <2>1, <2>2, <2>3 DEF RegistroInv
    <3> QED BY <2>2, <3>1, <3>2, RanurasDe
  <2>5. /\ vNLog' \in [Cxs -> Int]
        /\ vRegistra => vNLog'[s] = vRegistro'[vNItem'[s] + 1].nLog
        /\ \A x \in Cxs \ {s} : vNLog'[x] = vNLog[x] /\ vMem'[x] = vMem[x]
    BY <2>1, <2>2, <2>4 DEF LogsDeSockets, RegistroInv
  <2>6. ASSUME NEW x \in Cxs, vMem'[x] = "vivo", vRegistra
        PROVE  vNLog'[x] = vRegistro'[vNItem'[x] + 1].nLog
    <3>1. CASE x = s
      BY <2>5, <2>6, <3>1
    <3>2. CASE x # s
      <4>1. vMem[x] = "vivo" /\ vNItem'[x] = vNItem[x] /\ vNLog'[x] = vNLog[x]
        BY <2>2, <2>5, <2>6, <3>2
      <4>2. vNItem[x] + 1 \in 1 .. Len(vRegistro) /\ vNLog[x] = vRegistro[vNItem[x] + 1].nLog
        BY <2>6, <4>1 DEF RegistroInv, LogsDeSockets
      <4> QED BY <2>2, <4>1, <4>2
    <3> QED BY <3>1, <3>2
  <2> QED BY <2>2, <2>3, <2>5, <2>6 DEF LogsDeSockets
<1>5. ASSUME NEW s \in Cxs, zlEvtSocketVuelveFin(s)
      PROVE  RegistroInv' /\ LogsDeSockets'
  <2>1. /\ vMem' = [vMem EXCEPT ![s] = "libre"] /\ UNCHANGED <<ajustes, vNLog>>
        /\ zlEvtSocketListFreeItem(vNItem[s])
        /\ vPila # <<>> /\ VCima.aviso = "FIN" /\ VCima.s = s
    BY <1>5 DEF zlEvtSocketVuelveFin, VDevuelve, VuelveDe
  <2>2. vMem[s] = "vivo"
    <3>1. Len(vPila) \in 1 .. Len(vPila)
      BY <2>1, EmptySeq DEF SocketInvViejo, VPilaInv
    <3> QED BY <2>1, <3>1 DEF SocketInvViejo, VPilaInv, VCima
  <2>3. Borra(vNItem[s]) \/ (~vRegistra /\ UNCHANGED registroVars)
    BY <2>1 DEF zlEvtSocketListFreeItem
  <2>4. /\ RegistroInv' /\ UNCHANGED vNItem
        /\ \A i \in 1 .. Len(vRegistro) : vRegistro'[i].nLog = vRegistro[i].nLog
    BY <2>1, <2>2, <2>3, RegistroSale
  <2>5. ASSUME NEW x \in Cxs, vMem'[x] = "vivo", vRegistra
        PROVE  vNLog'[x] = vRegistro'[vNItem'[x] + 1].nLog
    <3>1. vMem[x] = "vivo"
      BY <2>1, <2>2, <2>5 DEF RegistroInv
    <3>2. vNItem[x] + 1 \in 1 .. Len(vRegistro) /\ vNLog[x] = vRegistro[vNItem[x] + 1].nLog
      BY <2>5, <3>1 DEF RegistroInv, LogsDeSockets
    <3> QED BY <2>1, <2>4, <3>2
  <2> QED BY <2>1, <2>4, <2>5 DEF LogsDeSockets, ajustes
<1> QED BY <1>1, <1>2, <1>3, <1>4, <1>5 DEF SocketNext

\* The same of the list of zlEvtSocket.lib; and the log that a socket was given when it was
\* made is that of its slot as long as it lives, also when others had the slot before it.
THEOREM SocketKeepsRegister ==
  ASSUME {"fin", "lista"} \subseteq ReglasViejas
  PROVE  SocketSpec => [](RegisterIsExact /\ SocketKeepsLog)
<1>1. ViejoInit /\ RegistroInit /\ SocketInit => SocketInvViejo /\ RegistroInv /\ LogsDeSockets
  <2>1. ViejoInit /\ RegistroInit /\ SocketInit => SocketInvViejo
    BY EmptySeq DEF ViejoInit, RegistroInit, SocketInit, SocketInvViejo, VPilaInv, ListaViva
  <2>2. ViejoInit /\ SocketInit => LogsDeSockets
    BY DEF ViejoInit, SocketInit, LogsDeSockets
  <2> QED BY <2>1, <2>2, RegistroEmpieza
<1>2. SocketInvViejo /\ RegistroInv /\ LogsDeSockets /\ [SocketNext]_socketViejoVars
        => (SocketInvViejo /\ RegistroInv /\ LogsDeSockets)'
  BY SocketInvPaso, SocketRegistroPaso
<1>3. LogsDeSockets => SocketKeepsLog
  BY DEF LogsDeSockets, SocketKeepsLog
<1> QED BY <1>1, <1>2, <1>3, RegistroExacto, PTL DEF SocketSpec

-----------------------------------------------------------------------------
\* The tests of zlEvtSockSer0.lib, with a thread for each client.

\* The server's side of a client, and its own.
PConexiones == [estado : {"no", "cola", "abierta", "cerrada"},
                texto : {"no", "enviado", "leido"},
                queda : Int, sale : Int, cierra : BOOLEAN, red : Int]
PClientes == [hilo : {"no", "lee", "leido", "fin"}, leido : Int, retEstado : Int,
              terminado : Int, abierto : BOOLEAN]

\* What the scripts have alike.
LEMMA LosGuiones ==
  ASSUME NEW g \in Guiones
  PROVE  /\ g.clientes \subseteq {1, 2}
         /\ g.senal \notin {"varios", "timer"} => g.clientes = {1}
         /\ g.senal = "timer" => g.clientes = {}
         /\ g.senal = "varios" => g = testVariosClientes
         /\ g.senal = "varios" <=> g.lee = "multi"
         /\ g.senal = "cierra" <=> g.responde = "eco"
         /\ g.senal = "texto" => g.responde = "ecoYCierra"
         /\ g.lee = "Read" <=> g.responde \in {"eco", "ecoYCierra"}
         /\ "evento" \in g.alCerrar => g.responde = "eco"
         /\ g.lanza = "bind" <=> g.senal = "varios"
BY DEF Guiones, Guion, testCliente, testClienteCloseServer, testClienteLargo1,
   testClienteLargo2, testVariosClientes, testCierre

\* The tests where one client calls for the judgement.
DeUno(g) == g.senal \notin {"varios", "timer"}

\* What the server has written so far, and what the client must have read in the end.
Producido(g, x) == IF g.lee = "Read" THEN 1
                   ELSE IF g.responde = "archivo" THEN Total ELSE Trozos - x.queda
Esperado(g) == IF g.lee = "Read" THEN 1 ELSE Total

\* Nothing of what the server writes is lost on the way; a connection does not end before
\* its output, nor does its client stop reading before the last of it.
ParBien(g, x, y) ==
  /\ x.sale >= 0 /\ x.red >= 0
  /\ x.texto # "leido" => /\ x.sale = 0 /\ x.red = 0 /\ y.leido = 0
                          /\ ~x.cierra /\ x.queda = -1 /\ x.estado # "cerrada"
  /\ x.texto = "leido" =>
       /\ x.estado \in {"abierta", "cerrada"}
       /\ y.leido + x.red + x.sale = Producido(g, x)
       /\ g.responde = "trozos" => x.queda \in -1 .. Trozos /\ (x.cierra <=> x.queda = -1)
       /\ g.responde # "trozos"
            => x.queda = -1 /\ (x.cierra <=> g.responde \in {"archivo", "ecoYCierra"})
  /\ x.estado = "abierta" /\ x.cierra => x.sale >= 1
  /\ x.estado = "cerrada" => x.sale = 0 /\ (x.cierra \/ y.hilo = "fin")
  /\ x.estado = "cerrada" /\ y.hilo = "lee" => x.red >= 1
  /\ y.hilo \in {"leido", "fin"} => y.retEstado > 0 /\ y.leido = Esperado(g)
  /\ y.hilo = "lee" /\ g.lee = "Read" => y.leido = 0
  /\ ~y.abierto => y.hilo = "fin" /\ g.responde = "eco"
  /\ y.terminado # 0 => y.hilo \in {"leido", "fin"}

\* No test has failed; nobody has read before the bind; and the event of SIGUSR1 goes after
\* the thread of the only client has ended, or both clients have been looked at.
PruebaInv ==
  /\ prueba \in Guiones
  /\ pConexion \in [{1, 2} -> PConexiones]
  /\ pCliente \in [{1, 2} -> PClientes]
  /\ pSenal \in Nat /\ pEvento \in BOOLEAN
  /\ ~pMal
  /\ \A c \in Clientes : ParBien(prueba, pConexion[c], pCliente[c])
  /\ pServidor = "intenta"
       => \A c \in Clientes : /\ pConexion[c].estado = "no" /\ pConexion[c].texto = "no"
                              /\ pCliente[c].hilo = "no"
  /\ DeUno(prueba) /\ (pSenal > 0 \/ ~pEvento) => pCliente[1].hilo = "fin"
  /\ prueba.senal = "varios" /\ ~pEvento => \A c \in Clientes : pCliente[c].terminado = 2
  /\ pMuerto = "senal" => prueba.senal = "varios" /\ ~pEvento

\* What one connection or its client do.
LEMMA UnoCambia ==
  ASSUME PruebaInv, pEvento' \in BOOLEAN, NEW c \in Clientes, NEW x \in PConexiones, NEW y \in PClientes,
         prueba' = prueba, pServidor' # "intenta", ~pMal', pSenal' \in Nat,
         pConexion' = [pConexion EXCEPT ![c] = x],
         pCliente' = [pCliente EXCEPT ![c] = y],
         ParBien(prueba, x, y),
         DeUno(prueba) /\ (pSenal' > 0 \/ ~pEvento') => y.hilo = "fin",
         prueba.senal = "varios" /\ ~pEvento' => ~pEvento /\ y.terminado = pCliente[c].terminado,
         pMuerto' = "senal" => prueba.senal = "varios" /\ ~pEvento'
  PROVE  PruebaInv'
<1>1. Clientes \subseteq {1, 2} /\ (DeUno(prueba) => Clientes = {1}) /\ Clientes' = Clientes
  BY LosGuiones DEF PruebaInv, DeUno, Clientes
<1>2. /\ pConexion' \in [{1, 2} -> PConexiones] /\ pCliente' \in [{1, 2} -> PClientes]
      /\ pConexion'[c] = x /\ pCliente'[c] = y
      /\ \A d \in Clientes : d # c => pConexion'[d] = pConexion[d] /\ pCliente'[d] = pCliente[d]
  BY <1>1 DEF PruebaInv
<1>3. \A d \in Clientes : ParBien(prueba', pConexion'[d], pCliente'[d])
  BY <1>2 DEF PruebaInv
<1>4. DeUno(prueba) => c = 1
  BY <1>1
<1>5. prueba.senal = "varios" /\ ~pEvento' => \A d \in Clientes : pCliente'[d].terminado = 2
  BY <1>1, <1>2 DEF PruebaInv
<1> QED BY <1>1, <1>2, <1>3, <1>4, <1>5 DEF PruebaInv

\* What only changes the connection.
LEMMA ConexionCambia ==
  ASSUME PruebaInv, pEvento' \in BOOLEAN, NEW c \in Clientes, NEW x \in PConexiones,
         UNCHANGED <<prueba, pSenal, pCliente>>, pServidor' # "intenta", ~pMal',
         pMuerto' = pMuerto \/ pMuerto' # "senal",
         pConexion' = [pConexion EXCEPT ![c] = x],
         ParBien(prueba, x, pCliente[c]),
         pEvento' = pEvento \/ (prueba.responde = "eco" /\ pCliente[c].hilo = "fin")
  PROVE  PruebaInv'
<1>1. c \in {1, 2} /\ (DeUno(prueba) => c = 1) /\ (prueba.senal = "varios" => prueba.responde # "eco")
  BY LosGuiones DEF PruebaInv, DeUno, Clientes
<1>2. pCliente[c] \in PClientes /\ pCliente' = [pCliente EXCEPT ![c] = pCliente[c]]
  BY <1>1 DEF PruebaInv
<1>3. DeUno(prueba) /\ (pSenal' > 0 \/ ~pEvento') => pCliente[c].hilo = "fin"
  BY <1>1 DEF PruebaInv
<1>4. prueba.senal = "varios" /\ ~pEvento' => ~pEvento
  BY <1>1
<1>5. pMuerto' = "senal" => prueba.senal = "varios" /\ ~pEvento'
  BY <1>1 DEF PruebaInv
<1>6. pSenal' \in Nat /\ prueba' = prueba
  BY DEF PruebaInv
<1> QED BY <1>2, <1>3, <1>4, <1>5, <1>6, UnoCambia

\* The facts of c that the steps start from.
LEMMA DeUnCliente ==
  ASSUME PruebaInv, NEW c \in Clientes
  PROVE  /\ c \in {1, 2}
         /\ pConexion[c] \in PConexiones /\ pCliente[c] \in PClientes
         /\ ParBien(prueba, pConexion[c], pCliente[c])
         /\ pConexion[c].estado # "no" => pServidor # "intenta"
         /\ pCliente[c].hilo # "no" => pServidor # "intenta"
         /\ prueba \in Guiones
         /\ DeUno(prueba) /\ (pSenal > 0 \/ ~pEvento) => pCliente[c].hilo = "fin"
<1>1. c \in {1, 2} /\ (DeUno(prueba) => c = 1)
  BY LosGuiones DEF PruebaInv, DeUno, Clientes
<1> QED BY <1>1 DEF PruebaInv

\* What a thread reads was written, and it stops after the ETX, or the first text.
LEMMA LeeHiloPaso ==
  ASSUME PruebaInv, NEW c \in Clientes,
         \/ simpleClienteRead(c) \/ simpleClienteReadLargo(c) \/ simpleClienteReadLargo1(c)
         \/ multiClienteReadLargo(c)
  PROVE  PruebaInv'
<1> DEFINE x0 == pConexion[c]
           y0 == pCliente[c]
<1>1. /\ x0 \in PConexiones /\ y0 \in PClientes /\ ParBien(prueba, x0, y0)
      /\ y0.hilo # "no" => pServidor # "intenta"
      /\ DeUno(prueba) /\ (pSenal > 0 \/ ~pEvento) => y0.hilo = "fin"
      /\ c \in {1, 2} /\ prueba \in Guiones
  BY DeUnCliente
<1>2. /\ ~pMal /\ pSenal \in Nat /\ pEvento \in BOOLEAN
      /\ pMuerto = "senal" => prueba.senal = "varios" /\ ~pEvento
  BY DEF PruebaInv
<1>3. ASSUME NEW k \in Llega(c), NEW sigue \in BOOLEAN, LeeHilo(c, k, sigue),
             prueba.lee = "Read" => ~sigue,
             prueba.lee # "Read" => (sigue <=> ~VeETX(c, k)) \/ (sigue <=> ~VeETX(c, k) /\ k > 0)
      PROVE  PruebaInv'
  <2> DEFINE x == [x0 EXCEPT !.red = @ - k]
             y == [y0 EXCEPT !.leido = @ + k, !.retEstado = k,
                             !.hilo = IF sigue THEN "lee" ELSE "leido"]
  <2>1. /\ y0.hilo = "lee"
        /\ pConexion' = [pConexion EXCEPT ![c] = x]
        /\ pCliente' = [pCliente EXCEPT ![c] = y]
        /\ UNCHANGED <<prueba, pServidor, pEvento, pSenal, pMuerto, pMal>>
    BY <1>1, <1>3 DEF LeeHilo, PConexiones, PClientes, PruebaInv, fallos
  <2>2. x0.texto = "leido" /\ k \in 1 .. x0.red
    BY <1>1, <1>3, <2>1 DEF Llega, ParBien, PConexiones, PClientes
  <2>3. k \in Int /\ x \in PConexiones /\ y \in PClientes
        /\ x.red = x0.red - k /\ x.sale = x0.sale /\ x.estado = x0.estado /\ x.cierra = x0.cierra
        /\ x.texto = x0.texto /\ x.queda = x0.queda
        /\ y.leido = y0.leido + k /\ y.retEstado = k /\ y.hilo = (IF sigue THEN "lee" ELSE "leido")
        /\ y.terminado = y0.terminado /\ y.abierto = y0.abierto
    <3>1. k \in Int
      BY <2>2, <1>1 DEF PConexiones
    <3>2. x \in PConexiones
      <4>1. x0.red - k \in Int
        BY <1>1, <3>1 DEF PConexiones
      <4> QED BY <1>1, <4>1 DEF PConexiones
    <3>3. y \in PClientes
      <4>1. y0.leido + k \in Int /\ (IF sigue THEN "lee" ELSE "leido") \in {"no", "lee", "leido", "fin"}
        BY <1>1, <3>1 DEF PClientes
      <4> QED BY <1>1, <3>1, <4>1 DEF PClientes
    <3>4. x.red = x0.red - k /\ x.sale = x0.sale /\ x.estado = x0.estado /\ x.cierra = x0.cierra
          /\ x.texto = x0.texto /\ x.queda = x0.queda
      BY <1>1 DEF PConexiones
    <3>5. y.leido = y0.leido + k /\ y.retEstado = k /\ y.hilo = (IF sigue THEN "lee" ELSE "leido")
          /\ y.terminado = y0.terminado /\ y.abierto = y0.abierto
      BY <1>1 DEF PClientes
    <3> HIDE DEF x, y, x0, y0
    <3> QED BY <3>1, <3>2, <3>3, <3>4, <3>5
  <2>4. Trozos \in Nat /\ Total = Trozos + 1
    BY TrozosAssumption DEF Total
  <2>5. VeETX(c, k) <=> x0.cierra /\ x0.sale = 0 /\ x0.red = k
    BY <2>2 DEF VeETX
  <2>6. ParBien(prueba, x, y)
    <3>0. (prueba.lee = "Read" <=> prueba.responde \in {"eco", "ecoYCierra"})
      BY <1>1, LosGuiones
    <3>1. CASE prueba.lee = "Read"
      <4>1. y.hilo = "leido" /\ y.leido = 1 /\ x.red = 0 /\ x.sale = 0 /\ k = 1
        BY <1>1, <1>3, <2>1, <2>2, <2>3, <3>1 DEF ParBien, Producido, PConexiones, PClientes
      <4> HIDE DEF x0, y0, x, y
      <4> QED BY <1>1, <2>1, <2>2, <2>3, <3>0, <3>1, <4>1 DEF ParBien, Producido, Esperado
    <3>2. CASE prueba.lee # "Read"
      <4>1. sigue <=> ~VeETX(c, k)
        BY <1>3, <2>2, <3>2
      <4> HIDE DEF x0, y0, x, y
      <4>2. CASE sigue
        BY <1>1, <2>1, <2>2, <2>3, <2>5, <3>0, <3>2, <4>1, <4>2 DEF ParBien, Producido, PConexiones, PClientes
      <4>3. CASE ~sigue
        BY <1>1, <2>1, <2>2, <2>3, <2>4, <2>5, <3>0, <3>2, <4>1, <4>3 DEF ParBien, Producido, Esperado, PConexiones, PClientes
      <4> QED BY <4>2, <4>3
    <3> QED BY <3>1, <3>2
  <2> HIDE DEF x0, y0, x, y
  <2>7. ~(DeUno(prueba) /\ (pSenal' > 0 \/ ~pEvento'))
    BY <1>1, <2>1
  <2>8. /\ pServidor' # "intenta" /\ ~pMal' /\ pSenal' \in Nat /\ prueba' = prueba
        /\ pEvento' \in BOOLEAN
    BY <1>1, <1>2, <2>1
  <2>9. pMuerto' = "senal" => prueba.senal = "varios" /\ ~pEvento'
    BY <1>2, <2>1
  <2>10. prueba.senal = "varios" /\ ~pEvento' => ~pEvento /\ y.terminado = pCliente[c].terminado
    BY <2>1, <2>3 DEF y0
  <2> QED BY <2>1, <2>3, <2>6, <2>7, <2>8, <2>9, <2>10, UnoCambia
<1>4. CASE simpleClienteRead(c)
  BY <1>3, <1>4 DEF simpleClienteRead
<1>5. CASE simpleClienteReadLargo(c)
  BY <1>3, <1>5 DEF simpleClienteReadLargo
<1>6. CASE simpleClienteReadLargo1(c)
  BY <1>3, <1>6 DEF simpleClienteReadLargo1
<1>7. CASE prueba.lee = "multi" /\ \E k \in Llega(c) : LeeHilo(c, k, ~VeETX(c, k))
  BY <1>3, <1>7
<1>8. ASSUME pCliente[c].hilo = "leido", prueba.lee = "multi", pCliente[c].terminado = 0,
             pCliente' = [pCliente EXCEPT ![c].terminado = 1],
             UNCHANGED <<prueba, pServidor, pEvento, pSenal, pConexion, pMuerto, pMal>>
      PROVE  PruebaInv'
  <2> DEFINE y == [y0 EXCEPT !.terminado = 1]
  <2>1. /\ y \in PClientes /\ y.hilo = y0.hilo /\ y.leido = y0.leido /\ y.retEstado = y0.retEstado
        /\ y.terminado = 1 /\ y.abierto = y0.abierto
        /\ pCliente' = [pCliente EXCEPT ![c] = y]
    BY <1>1, <1>8 DEF PClientes, PruebaInv
  <2>2. pConexion' = [pConexion EXCEPT ![c] = x0]
    BY <1>1, <1>8 DEF PruebaInv
  <2>3. ParBien(prueba, x0, y)
    BY <1>1, <1>8, <2>1 DEF ParBien
  <2>4. prueba.senal = "varios" /\ ~DeUno(prueba)
    BY <1>1, <1>8, LosGuiones DEF DeUno
  <2>5. pEvento'
    BY <1>1, <1>8, <2>4 DEF PruebaInv
  <2>6. /\ pServidor' # "intenta" /\ ~pMal' /\ pSenal' \in Nat /\ prueba' = prueba
        /\ pEvento' \in BOOLEAN
    BY <1>1, <1>2, <1>8
  <2>7. pMuerto' = "senal" => prueba.senal = "varios" /\ ~pEvento'
    BY <1>2, <1>8
  <2> HIDE DEF x0, y
  <2> QED BY <1>1, <2>1, <2>2, <2>3, <2>4, <2>5, <2>6, <2>7, UnoCambia
<1> QED BY <1>4, <1>5, <1>6, <1>7, <1>8 DEF multiClienteReadLargo, fallos

\* Its signal, after what it read.
LEMMA MataPaso ==
  ASSUME PruebaInv, NEW c \in Clientes, pthread_kill(c)
  PROVE  PruebaInv'
<1> DEFINE x == pConexion[c]
           y0 == pCliente[c]
           y == [y0 EXCEPT !.hilo = "fin"]
<1>1. /\ x \in PConexiones /\ y0 \in PClientes /\ ParBien(prueba, x, y0)
      /\ y0.hilo # "no" => pServidor # "intenta"
      /\ DeUno(prueba) /\ (pSenal > 0 \/ ~pEvento) => y0.hilo = "fin"
      /\ c \in {1, 2} /\ prueba \in Guiones
  BY DeUnCliente
<1>2. /\ y \in PClientes /\ y.hilo = "fin" /\ y.leido = y0.leido /\ y.retEstado = y0.retEstado
      /\ y.terminado = y0.terminado /\ y.abierto = y0.abierto
  BY <1>1 DEF PClientes
<1>3. /\ y0.hilo = "leido" /\ UNCHANGED <<prueba, pServidor, pEvento, pConexion, pMal>>
      /\ pCliente' = [pCliente EXCEPT ![c] = y]
      /\ pSenal' \in IF pEvento THEN {1, pSenal + 1} ELSE {pSenal}
  BY DEF pthread_kill, PruebaInv, PClientes
<1>4. pConexion' = [pConexion EXCEPT ![c] = x]
  BY <1>1, <1>3 DEF PruebaInv
<1>5. ParBien(prueba, x, y)
  <2> HIDE DEF x, y, y0
  <2> QED BY <1>1, <1>2, <1>3 DEF ParBien
<1>6. pMuerto' = "senal" => prueba.senal = "varios" /\ ~pEvento'
  <2>1. pMuerto' = (IF pEvento THEN "no" ELSE "senal") /\ pEvento' = pEvento
    BY Zenon DEF pthread_kill
  <2>2. pEvento \/ prueba.senal = "varios"
    <3>1. prueba.senal # "timer"
      BY <1>1, LosGuiones DEF Clientes
    <3> QED BY <1>1, <1>3, <3>1 DEF DeUno
  <2> QED BY <2>1, <2>2
<1>7. pSenal' \in Nat
  BY <1>3 DEF PruebaInv
<1>8. prueba.senal = "varios" /\ ~pEvento' => ~pEvento /\ y.terminado = pCliente[c].terminado
  BY <1>2, <1>3
<1>9. pServidor' # "intenta" /\ ~pMal' /\ prueba' = prueba /\ pEvento' \in BOOLEAN
  BY <1>1, <1>3 DEF PruebaInv
<1> HIDE DEF x, y, y0
<1> QED BY <1>1, <1>2, <1>3, <1>4, <1>5, <1>6, <1>7, <1>8, <1>9, UnoCambia

\* The clients connect.
LEMMA BindPaso ==
  ASSUME PruebaInv, Bind
  PROVE  PruebaInv'
<1>1. /\ pServidor' = "escucha" /\ pServidor = "intenta"
      /\ UNCHANGED <<prueba, pEvento, pSenal, pMuerto, pMal>> /\ prueba \in Guiones
  BY DEF Bind, PruebaInv, fallos
<1>2. Clientes' = Clientes /\ Clientes \subseteq {1, 2}
  BY <1>1, LosGuiones DEF Clientes
<1>3. ASSUME NEW c \in {1, 2}
      PROVE  /\ pConexion'[c] \in PConexiones /\ pCliente'[c] \in PClientes
             /\ c \in Clientes => ParBien(prueba, pConexion'[c], pCliente'[c])
             /\ c \notin Clientes => pCliente'[c] = pCliente[c]
             /\ pCliente'[c].terminado = pCliente[c].terminado
             /\ c \in Clientes => pCliente[c].hilo = "no"
  <2>0. pConexion[c] \in PConexiones /\ pCliente[c] \in PClientes
    BY DEF PruebaInv
  <2>1. /\ pConexion'[c] = IF c \notin Clientes THEN pConexion[c]
                           ELSE IF prueba.lanza = "bind" THEN ConectaMulti(c)
                           ELSE ConectaSimple(c)
        /\ pCliente'[c] = IF c \in Clientes /\ prueba.lanza = "bind"
                          THEN LanzaHilo(c) ELSE pCliente[c]
    BY DEF Bind
  <2>2. CASE c \notin Clientes
    BY <2>0, <2>1, <2>2
  <2>3. CASE c \in Clientes
    <3>1. /\ pConexion[c].estado = "no" /\ pConexion[c].texto = "no" /\ pCliente[c].hilo = "no"
          /\ ParBien(prueba, pConexion[c], pCliente[c])
      BY <1>1, <2>3 DEF PruebaInv
    <3>2. CASE prueba.lanza = "bind"
      <4>1. /\ pConexion'[c] = [pConexion[c] EXCEPT !.estado = "cola", !.texto = "enviado"]
            /\ pCliente'[c] = [pCliente[c] EXCEPT !.hilo = "lee"]
        BY <2>1, <2>3, <3>2 DEF ConectaMulti, LanzaHilo
      <4>2. PICK x, y : x = pConexion'[c] /\ y = pCliente'[c]
        OBVIOUS
      <4>3. /\ x \in PConexiones /\ y \in PClientes
            /\ x.estado = "cola" /\ x.texto = "enviado" /\ x.queda = pConexion[c].queda
            /\ x.sale = pConexion[c].sale /\ x.red = pConexion[c].red
            /\ x.cierra = pConexion[c].cierra
            /\ y.hilo = "lee" /\ y.leido = pCliente[c].leido
            /\ y.terminado = pCliente[c].terminado /\ y.abierto = pCliente[c].abierto
        BY <2>0, <4>1, <4>2 DEF PConexiones, PClientes
      <4>4. ParBien(prueba, x, y)
        BY <3>1, <4>3 DEF ParBien
      <4> QED BY <2>3, <3>1, <4>2, <4>3, <4>4
    <3>3. CASE prueba.lanza # "bind"
      <4>1. /\ pConexion'[c] = [pConexion[c] EXCEPT !.estado = "cola"]
            /\ pCliente'[c] = pCliente[c]
        BY <2>1, <2>3, <3>3 DEF ConectaSimple
      <4> QED BY <2>0, <2>3, <3>1, <4>1 DEF ParBien, PConexiones, PClientes
    <3> QED BY <3>2, <3>3
  <2> QED BY <2>2, <2>3
<1>4. pConexion' \in [{1, 2} -> PConexiones] /\ pCliente' \in [{1, 2} -> PClientes]
  BY <1>3 DEF Bind
<1>5. DeUno(prueba) => pSenal = 0 /\ pEvento
  <2>1. DeUno(prueba) => 1 \in Clientes
    BY <1>1, LosGuiones DEF DeUno, Clientes
  <2> QED BY <1>1, <2>1 DEF PruebaInv
<1>6. prueba.senal = "varios" /\ ~pEvento => \A c \in Clientes : pCliente'[c].terminado = 2
  BY <1>2, <1>3 DEF PruebaInv
<1> QED BY <1>1, <1>2, <1>3, <1>4, <1>5, <1>6 DEF PruebaInv

\* And write.
LEMMA AceptaPaso ==
  ASSUME PruebaInv, NEW c \in Clientes, Accept(c)
  PROVE  PruebaInv'
<1> DEFINE x0 == pConexion[c]
           y0 == pCliente[c]
           x == [x0 EXCEPT !.estado = "abierta", !.texto = "enviado"]
           y == [y0 EXCEPT !.hilo = IF @ = "no" THEN "lee" ELSE @]
<1>1. /\ x0 \in PConexiones /\ y0 \in PClientes /\ ParBien(prueba, x0, y0)
      /\ DeUno(prueba) /\ (pSenal > 0 \/ ~pEvento) => y0.hilo = "fin"
      /\ c \in {1, 2} /\ prueba \in Guiones
  BY DeUnCliente
<1>2. /\ x \in PConexiones /\ y \in PClientes
      /\ x.sale = x0.sale /\ x.red = x0.red /\ x.queda = x0.queda /\ x.cierra = x0.cierra
      /\ x.estado = "abierta" /\ x.texto = "enviado"
      /\ y.hilo = (IF y0.hilo = "no" THEN "lee" ELSE y0.hilo)
      /\ y.leido = y0.leido /\ y.retEstado = y0.retEstado
      /\ y.terminado = y0.terminado /\ y.abierto = y0.abierto
  BY <1>1 DEF PConexiones, PClientes
<1>3. /\ UNCHANGED <<prueba, pServidor, pEvento, pSenal, pMuerto, pMal>>
      /\ x0.estado = "cola" /\ pServidor = "escucha"
      /\ pConexion' = [pConexion EXCEPT ![c] = x]
      /\ pCliente' = [pCliente EXCEPT ![c] = y]
  BY <1>1 DEF Accept, PruebaInv, PConexiones, PClientes, fallos
<1>4. /\ pServidor' # "intenta" /\ ~pMal' /\ pSenal' \in Nat /\ prueba' = prueba
      /\ pEvento' \in BOOLEAN
  BY <1>3 DEF PruebaInv
<1> HIDE DEF x, y, x0, y0
<1>5. ParBien(prueba, x, y)
  BY <1>1, <1>2, <1>3 DEF ParBien
<1>6. DeUno(prueba) /\ (pSenal' > 0 \/ ~pEvento') => y.hilo = "fin"
  BY <1>1, <1>2, <1>3
<1>7. pMuerto' = "senal" => prueba.senal = "varios" /\ ~pEvento'
  BY <1>3 DEF PruebaInv
<1>8. prueba.senal = "varios" /\ ~pEvento' => ~pEvento /\ y.terminado = pCliente[c].terminado
  BY <1>2, <1>3 DEF y0
<1> QED BY <1>2, <1>3, <1>4, <1>5, <1>6, <1>7, <1>8, UnoCambia

\* The steps that only change a connection that is open.
LEMMA AbiertaPaso ==
  ASSUME PruebaInv, NEW c \in Clientes,
         \/ readSocket_cb(c) \/ c1_readSocket_cb(c) \/ c2_writeFile(c) \/ c3_readSocket_cb(c)
         \/ Escribe(c) \/ c2_writeSocket_cb(c) \/ c3_writeSocket_cb(c)
         \/ WriteClose_cb(c) \/ closeSocket_cb(c)
  PROVE  PruebaInv'
<1> DEFINE y == pCliente[c]
<1>0. PICK x0 : x0 = pConexion[c]
  OBVIOUS
<1>1. /\ x0 \in PConexiones /\ y \in PClientes /\ ParBien(prueba, x0, y)
      /\ c \in {1, 2} /\ prueba \in Guiones
      /\ x0.estado # "no" => pServidor # "intenta"
  BY <1>0, DeUnCliente
<1>2. Trozos \in Nat /\ Total = Trozos + 1 /\ pConexion \in [{1, 2} -> PConexiones]
  BY TrozosAssumption DEF Total, PruebaInv
<1>3. /\ prueba.lee = "Read" <=> prueba.responde \in {"eco", "ecoYCierra"}
      /\ "evento" \in prueba.alCerrar => prueba.responde = "eco"
  BY <1>1, LosGuiones
<1>4. ASSUME NEW x \in PConexiones, x0.estado = "abierta",
             UNCHANGED <<prueba, pServidor, pEvento, pSenal, pCliente, pMuerto>>, ~pMal',
             pConexion' = [pConexion EXCEPT ![c] = x],
             ParBien(prueba, x, y)
      PROVE  PruebaInv'
  <2>1. pServidor' # "intenta" /\ pEvento' = pEvento /\ pEvento \in BOOLEAN
    BY <1>1, <1>4 DEF PruebaInv
  <2> QED BY <1>4, <2>1, ConexionCambia
<1>5. ~pMal /\ pEvento \in BOOLEAN
  BY DEF PruebaInv
<1>6. CASE readSocket_cb(c)
  <2>1. PICK x : x = [x0 EXCEPT !.texto = "leido", !.sale = 1]
    OBVIOUS
  <2>2. /\ x \in PConexiones /\ x.texto = "leido" /\ x.sale = 1
        /\ x.red = x0.red /\ x.estado = x0.estado /\ x.queda = x0.queda /\ x.cierra = x0.cierra
    <3>1. PICK s \in Int : s = 1
      BY <1>1, <1>2 DEF PConexiones
    <3>2. x = [x0 EXCEPT !.texto = "leido", !.sale = s]
      BY <2>1, <3>1
    <3>3. x \in PConexiones
      BY <1>1, <3>2 DEF PConexiones
    <3>4. /\ x.texto = "leido" /\ x.sale = 1
          /\ x.red = x0.red /\ x.estado = x0.estado /\ x.queda = x0.queda /\ x.cierra = x0.cierra
      BY <1>1, <3>1, <3>2 DEF PConexiones
    <3> QED BY <3>3, <3>4
  <2>3. /\ x0.estado = "abierta" /\ x0.texto = "enviado" /\ prueba.responde = "eco"
        /\ UNCHANGED <<prueba, pServidor, pEvento, pSenal, pCliente, pMuerto, pMal>>
        /\ pConexion' = [pConexion EXCEPT ![c] = x]
    BY <1>0, <1>6, <2>1 DEF readSocket_cb, Contesta, fallos
  <2>4. ParBien(prueba, x, y)
    BY <1>1, <1>3, <2>2, <2>3 DEF ParBien, Producido
  <2> QED BY <1>4, <1>5, <2>2, <2>3, <2>4
<1>7. CASE c1_readSocket_cb(c)
  <2>1. PICK x : x = [x0 EXCEPT !.texto = "leido", !.sale = 1, !.cierra = TRUE]
    OBVIOUS
  <2>2. /\ x \in PConexiones /\ x.texto = "leido" /\ x.sale = 1
        /\ x.red = x0.red /\ x.estado = x0.estado /\ x.queda = x0.queda /\ x.cierra
    <3>1. PICK s \in Int : s = 1
      BY <1>1, <1>2 DEF PConexiones
    <3>2. x = [x0 EXCEPT !.texto = "leido", !.sale = s, !.cierra = TRUE]
      BY <2>1, <3>1
    <3>3. x \in PConexiones
      BY <1>1, <3>2 DEF PConexiones
    <3>4. /\ x.texto = "leido" /\ x.sale = 1
          /\ x.red = x0.red /\ x.estado = x0.estado /\ x.queda = x0.queda /\ x.cierra
      BY <1>1, <3>1, <3>2 DEF PConexiones
    <3> QED BY <3>3, <3>4
  <2>3. /\ x0.estado = "abierta" /\ x0.texto = "enviado" /\ prueba.responde = "ecoYCierra"
        /\ UNCHANGED <<prueba, pServidor, pEvento, pSenal, pCliente, pMuerto, pMal>>
        /\ pConexion' = [pConexion EXCEPT ![c] = x]
    BY <1>0, <1>7, <2>1 DEF c1_readSocket_cb, Contesta, fallos
  <2>4. ParBien(prueba, x, y)
    BY <1>1, <1>3, <2>2, <2>3 DEF ParBien, Producido
  <2> QED BY <1>4, <1>5, <2>2, <2>3, <2>4
<1>8. CASE c2_writeFile(c)
  <2>1. PICK x : x = [x0 EXCEPT !.texto = "leido", !.sale = Total, !.cierra = TRUE]
    OBVIOUS
  <2>2. /\ x \in PConexiones /\ x.texto = "leido" /\ x.sale = Total
        /\ x.red = x0.red /\ x.estado = x0.estado /\ x.queda = x0.queda /\ x.cierra
    <3>1. PICK s \in Int : s = Total
      BY <1>1, <1>2 DEF PConexiones
    <3>2. x = [x0 EXCEPT !.texto = "leido", !.sale = s, !.cierra = TRUE]
      BY <2>1, <3>1
    <3>3. x \in PConexiones
      BY <1>1, <3>2 DEF PConexiones
    <3>4. /\ x.texto = "leido" /\ x.sale = Total
          /\ x.red = x0.red /\ x.estado = x0.estado /\ x.queda = x0.queda /\ x.cierra
      BY <1>1, <3>1, <3>2 DEF PConexiones
    <3> QED BY <3>3, <3>4
  <2>3. /\ x0.estado = "abierta" /\ x0.texto = "enviado" /\ prueba.responde = "archivo"
        /\ UNCHANGED <<prueba, pServidor, pEvento, pSenal, pCliente, pMuerto, pMal>>
        /\ pConexion' = [pConexion EXCEPT ![c] = x]
    BY <1>0, <1>8, <2>1 DEF c2_writeFile, Contesta, fallos
  <2>4. ParBien(prueba, x, y)
    BY <1>1, <1>2, <1>3, <2>2, <2>3 DEF ParBien, Producido
  <2> QED BY <1>4, <1>5, <2>2, <2>3, <2>4
<1>9. CASE c3_readSocket_cb(c)
  <2>1. PICK x : x = [x0 EXCEPT !.texto = "leido", !.queda = Trozos]
    OBVIOUS
  <2>2. /\ x \in PConexiones /\ x.texto = "leido" /\ x.queda = Trozos
        /\ x.red = x0.red /\ x.estado = x0.estado /\ x.sale = x0.sale /\ x.cierra = x0.cierra
    <3>1. PICK q \in Int : q = Trozos
      BY <1>1, <1>2 DEF PConexiones
    <3>2. x = [x0 EXCEPT !.texto = "leido", !.queda = q]
      BY <2>1, <3>1
    <3>3. x \in PConexiones
      BY <1>1, <3>2 DEF PConexiones
    <3>4. /\ x.texto = "leido" /\ x.queda = Trozos
          /\ x.red = x0.red /\ x.estado = x0.estado /\ x.sale = x0.sale /\ x.cierra = x0.cierra
      BY <1>1, <3>1, <3>2 DEF PConexiones
    <3> QED BY <3>3, <3>4
  <2>3. /\ x0.estado = "abierta" /\ x0.texto = "enviado" /\ prueba.responde = "trozos"
        /\ UNCHANGED <<prueba, pServidor, pEvento, pSenal, pCliente, pMuerto, pMal>>
        /\ pConexion' = [pConexion EXCEPT ![c] = x]
    BY <1>0, <1>9, <2>1 DEF c3_readSocket_cb, Contesta, fallos
  <2>4. ParBien(prueba, x, y)
    BY <1>1, <1>2, <1>3, <2>2, <2>3 DEF ParBien, Producido
  <2> QED BY <1>4, <1>5, <2>2, <2>3, <2>4
<1>10. CASE Escribe(c)
  <2>0. PICK k \in 1 .. x0.sale - 1 :
             pConexion' = [pConexion EXCEPT ![c].sale = @ - k, ![c].red = @ + k]
    BY <1>0, <1>10 DEF Escribe
  <2>1. PICK x : x = [x0 EXCEPT !.sale = @ - k, !.red = @ + k]
    OBVIOUS
  <2>2. /\ x \in PConexiones /\ x.sale = x0.sale - k /\ x.red = x0.red + k
        /\ x.texto = x0.texto /\ x.estado = x0.estado /\ x.queda = x0.queda /\ x.cierra = x0.cierra
    <3>1. x0.sale - k \in Int /\ x0.red + k \in Int
      BY <1>1, <2>0 DEF PConexiones
    <3>2. x \in PConexiones
      BY <1>1, <2>1, <3>1 DEF PConexiones
    <3>3. /\ x.sale = x0.sale - k /\ x.red = x0.red + k
          /\ x.texto = x0.texto /\ x.estado = x0.estado /\ x.queda = x0.queda /\ x.cierra = x0.cierra
      BY <1>1, <2>1, <3>1 DEF PConexiones
    <3> QED BY <3>2, <3>3
  <2>3. /\ x0.estado = "abierta"
        /\ UNCHANGED <<prueba, pServidor, pEvento, pSenal, pCliente, pMuerto, pMal>>
        /\ pConexion' = [pConexion EXCEPT ![c] = x]
    BY <1>0, <1>1, <1>2, <1>10, <2>0, <2>1 DEF Escribe, PConexiones
  <2>4. x0.texto = "leido" /\ k \in Int /\ k >= 1 /\ x0.sale - k >= 1 
        /\ x0.red \in Int /\ x0.sale \in Int /\ y.leido \in Int
    BY <1>1, <2>0 DEF ParBien, PConexiones, PClientes
  <2>5. ParBien(prueba, x, y)
    BY <1>1, <2>2, <2>3, <2>4 DEF ParBien, Producido
  <2> QED BY <1>4, <1>5, <2>2, <2>3, <2>5
<1>11. CASE c2_writeSocket_cb(c)
  <2>1. PICK x : x = [x0 EXCEPT !.red = @ + x0.sale, !.sale = 0]
    OBVIOUS
  <2>2. /\ x \in PConexiones /\ x.sale = 0 /\ x.red = x0.red + x0.sale
        /\ x.texto = x0.texto /\ x.estado = x0.estado /\ x.queda = x0.queda /\ x.cierra = x0.cierra
    <3>1. PICK r \in Int : r = x0.red + x0.sale
      BY <1>1, <1>2 DEF PConexiones
    <3>2. PICK s \in Int : s = 0
      BY <1>1, <1>2 DEF PConexiones
    <3>3. x = [x0 EXCEPT !.red = r, !.sale = s]
      BY <2>1, <3>1, <3>2
    <3>4. x \in PConexiones
      BY <1>1, <3>3 DEF PConexiones
    <3>5. /\ x.sale = 0 /\ x.red = x0.red + x0.sale
          /\ x.texto = x0.texto /\ x.estado = x0.estado /\ x.queda = x0.queda /\ x.cierra = x0.cierra
      BY <1>1, <3>1, <3>2, <3>3 DEF PConexiones
    <3> QED BY <3>4, <3>5
  <2>3. /\ x0.estado = "abierta" /\ ~x0.cierra /\ x0.sale > 0 /\ x0.queda < 0
        /\ UNCHANGED <<prueba, pServidor, pEvento, pSenal, pCliente, pMuerto>>
        /\ pConexion' = [pConexion EXCEPT ![c] = x]
    BY <1>0, <1>1, <1>2, <1>11, <2>1 DEF c2_writeSocket_cb, PConexiones
  <2>4. x0.texto = "leido" /\ prueba.responde # "archivo"
        /\ x0.red \in Int /\ x0.sale \in Int /\ y.leido \in Int
    BY <1>1, <2>3 DEF ParBien, PConexiones, PClientes
  <2>5. ParBien(prueba, x, y)
    BY <1>1, <2>2, <2>3, <2>4 DEF ParBien, Producido
  <2>6. ~pMal'
    BY <1>11, <2>4, Zenon DEF c2_writeSocket_cb
  <2> QED BY <1>4, <2>2, <2>3, <2>5, <2>6
<1>12. CASE c3_writeSocket_cb(c)
  <2>1. PICK x : x = [x0 EXCEPT !.red = @ + x0.sale, !.sale = 1, !.queda = @ - 1,
                                !.cierra = (x0.queda = 0)]
    OBVIOUS
  <2>2. /\ x \in PConexiones /\ x.sale = 1 /\ x.red = x0.red + x0.sale
        /\ x.texto = x0.texto /\ x.estado = x0.estado /\ x.queda = x0.queda - 1
        /\ x.cierra <=> x0.queda = 0
    <3>1. PICK r \in Int : r = x0.red + x0.sale
      BY <1>1, <1>2 DEF PConexiones
    <3>2. PICK s \in Int : s = 1
      BY <1>1, <1>2 DEF PConexiones
    <3>3. PICK q \in Int : q = x0.queda - 1
      BY <1>1, <1>2 DEF PConexiones
    <3>4. x = [x0 EXCEPT !.red = r, !.sale = s, !.queda = q, !.cierra = (x0.queda = 0)]
      BY <2>1, <3>1, <3>2, <3>3
    <3>5. x \in PConexiones
      BY <1>1, <3>4 DEF PConexiones
    <3>6. /\ x.sale = 1 /\ x.red = x0.red + x0.sale
          /\ x.texto = x0.texto /\ x.estado = x0.estado /\ x.queda = x0.queda - 1
          /\ x.cierra <=> x0.queda = 0
      BY <1>1, <3>1, <3>2, <3>3, <3>4 DEF PConexiones
    <3> QED BY <3>5, <3>6
  <2>3. /\ x0.estado = "abierta" /\ ~x0.cierra /\ x0.queda >= 0
        /\ UNCHANGED <<prueba, pServidor, pEvento, pSenal, pCliente, pMuerto, pMal>>
        /\ pConexion' = [pConexion EXCEPT ![c] = x]
    BY <1>0, <1>1, <1>2, <1>12, <2>1 DEF c3_writeSocket_cb, PConexiones
  <2>4. x0.texto = "leido" /\ prueba.responde = "trozos"
        /\ x0.red \in Int /\ x0.sale \in Int /\ y.leido \in Int /\ x0.queda \in Int
    BY <1>1, <2>3 DEF ParBien, PConexiones, PClientes
  <2>5. /\ y.leido + x0.red + x0.sale = Trozos - x0.queda /\ x0.queda \in -1 .. Trozos
        /\ x0.red >= 0 /\ x0.sale >= 0 /\ prueba.lee # "Read"
    BY <1>1, <1>3, <2>4 DEF ParBien, Producido
  <2>6. /\ y.leido + x.red + x.sale = Trozos - x.queda /\ x.queda \in -1 .. Trozos
        /\ x.red >= 0 /\ x.sale >= 1
        /\ x.cierra <=> x.queda = -1
    BY <1>2, <2>2, <2>3, <2>4, <2>5
  <2>7. ParBien(prueba, x, y)
    BY <1>1, <2>2, <2>3, <2>4, <2>5, <2>6 DEF ParBien, Producido
  <2> QED BY <1>4, <1>5, <2>2, <2>3, <2>7
<1>13. CASE WriteClose_cb(c)
  <2>1. PICK x : x = [x0 EXCEPT !.red = @ + x0.sale, !.sale = 0, !.estado = "cerrada"]
    OBVIOUS
  <2>2. /\ x \in PConexiones /\ x.sale = 0 /\ x.red = x0.red + x0.sale
        /\ x.texto = x0.texto /\ x.estado = "cerrada" /\ x.queda = x0.queda
        /\ x.cierra = x0.cierra
    <3>1. PICK r \in Int : r = x0.red + x0.sale
      BY <1>1, <1>2 DEF PConexiones
    <3>2. PICK s \in Int : s = 0
      BY <1>1, <1>2 DEF PConexiones
    <3>3. x = [x0 EXCEPT !.red = r, !.sale = s, !.estado = "cerrada"]
      BY <2>1, <3>1, <3>2
    <3>4. x \in PConexiones
      BY <1>1, <3>3 DEF PConexiones
    <3>5. /\ x.sale = 0 /\ x.red = x0.red + x0.sale
          /\ x.texto = x0.texto /\ x.estado = "cerrada" /\ x.queda = x0.queda
          /\ x.cierra = x0.cierra
      BY <1>1, <3>1, <3>2, <3>3 DEF PConexiones
    <3> QED BY <3>4, <3>5
  <2>3. /\ x0.estado = "abierta" /\ x0.cierra
        /\ UNCHANGED <<prueba, pSenal, pCliente, pMal>>
        /\ pConexion' = [pConexion EXCEPT ![c] = x] /\ AlCerrar
    BY <1>0, <1>1, <1>2, <1>13, <2>1 DEF WriteClose_cb, PConexiones
  <2>4. x0.texto = "leido" /\ prueba.responde # "eco" /\ x0.sale >= 1
        /\ x0.red \in Int /\ x0.sale \in Int /\ y.leido \in Int
    BY <1>1, <2>3 DEF ParBien, PConexiones, PClientes
  <2>5. ParBien(prueba, x, y)
    BY <1>1, <2>2, <2>3, <2>4 DEF ParBien, Producido
  <2>6. pServidor' # "intenta" /\ pEvento' = pEvento /\ pMuerto' # "senal"
    <3>1. pServidor # "intenta" /\ "evento" \notin prueba.alCerrar
      BY <1>1, <1>3, <2>3, <2>4
    <3>2. pEvento \in BOOLEAN
      BY DEF PruebaInv
    <3>3. pMuerto' # "senal"
      BY <2>3 DEF AlCerrar
    <3> QED BY <2>3, <3>1, <3>2, <3>3, Zenon DEF AlCerrar
  <2> QED BY <1>5, <2>2, <2>3, <2>5, <2>6, ConexionCambia
<1>14. CASE closeSocket_cb(c)
  <2>1. PICK x : x = [x0 EXCEPT !.estado = "cerrada"]
    OBVIOUS
  <2>2. /\ x \in PConexiones /\ x.sale = x0.sale /\ x.red = x0.red
        /\ x.texto = x0.texto /\ x.estado = "cerrada" /\ x.queda = x0.queda
        /\ x.cierra = x0.cierra
    <3>1. x \in PConexiones
      BY <1>1, <2>1 DEF PConexiones
    <3>2. /\ x.sale = x0.sale /\ x.red = x0.red
          /\ x.texto = x0.texto /\ x.estado = "cerrada" /\ x.queda = x0.queda
          /\ x.cierra = x0.cierra
      BY <1>1, <2>1 DEF PConexiones
    <3> QED BY <3>1, <3>2
  <2>3. /\ x0.estado = "abierta" /\ ~y.abierto
        /\ UNCHANGED <<prueba, pSenal, pCliente>>
        /\ pConexion' = [pConexion EXCEPT ![c] = x] /\ AlCerrar
        /\ pMal' = (y.leido # 1)
    BY <1>0, <1>14, <2>1 DEF closeSocket_cb
  <2>4. /\ y.hilo = "fin" /\ prueba.responde = "eco" /\ y.leido = 1
        /\ x0.red \in Int /\ x0.sale \in Int
    BY <1>1, <1>3, <2>3 DEF ParBien, Esperado, PConexiones, PClientes
  <2>5. ParBien(prueba, x, y)
    BY <1>1, <1>3, <2>2, <2>3, <2>4 DEF ParBien, Producido
  <2>6. pServidor' # "intenta" /\ ~pMal' /\ pEvento' \in BOOLEAN
    BY <1>1, <2>3, <2>4, Zenon DEF AlCerrar
  <2>7. pEvento' = pEvento \/ (prueba.responde = "eco" /\ y.hilo = "fin")
    BY <2>4
  <2>8. pMuerto' # "senal"
    BY <2>3 DEF AlCerrar
  <2> QED BY <2>2, <2>3, <2>5, <2>6, <2>7, <2>8, ConexionCambia
<1> QED BY <1>6, <1>7, <1>8, <1>9, <1>10, <1>11, <1>12, <1>13, <1>14

\* The callbacks of the signal, which judge what was read.
LEMMA SenalPaso ==
  ASSUME PruebaInv, sigusr1_cb \/ c1_sigusr1_cb \/ c2_sigusr1_cb \/ c4_sigusr1_cb
  PROVE  PruebaInv'
<1>1. /\ prueba \in Guiones /\ pSenal \in Nat /\ pEvento \in BOOLEAN /\ ~pMal
      /\ pMuerto = "senal" => prueba.senal = "varios" /\ ~pEvento
      /\ pConexion \in [{1, 2} -> PConexiones] /\ pCliente \in [{1, 2} -> PClientes]
      /\ \A c \in Clientes : ParBien(prueba, pConexion[c], pCliente[c])
  BY DEF PruebaInv
<1>2. /\ Clientes \subseteq {1, 2} /\ (DeUno(prueba) => Clientes = {1})
      /\ prueba.lee = "Read" <=> prueba.responde \in {"eco", "ecoYCierra"}
      /\ prueba.senal = "varios" <=> prueba.lee = "multi"
      /\ prueba.senal = "cierra" => prueba.responde = "eco"
      /\ prueba.senal = "texto" => prueba.responde = "ecoYCierra"
      /\ prueba.senal = "largo" => prueba.lee # "Read"
  <2>1. prueba \in Guiones
    BY <1>1
  <2>2. /\ prueba.clientes \subseteq {1, 2}
        /\ prueba.senal \notin {"varios", "timer"} => prueba.clientes = {1}
    BY <2>1, LosGuiones
  <2>3. /\ prueba.senal = "varios" <=> prueba.lee = "multi"
        /\ prueba.senal = "cierra" <=> prueba.responde = "eco"
        /\ prueba.senal = "texto" => prueba.responde = "ecoYCierra"
        /\ prueba.lee = "Read" <=> prueba.responde \in {"eco", "ecoYCierra"}
    BY <2>1, LosGuiones
  <2>4. prueba.senal = "largo" => prueba.lee # "Read"
    BY <2>1 DEF Guiones, Guion, testCliente, testClienteCloseServer, testClienteLargo1,
       testClienteLargo2, testVariosClientes, testCierre
  <2> QED BY <2>2, <2>3, <2>4 DEF Clientes, DeUno
<1>3. pEvento /\ pSenal > 0 /\ prueba' = prueba
  BY DEF Senal, sigusr1_cb, c1_sigusr1_cb, c2_sigusr1_cb, c4_sigusr1_cb, ABien
<1>4. DeUno(prueba) => /\ pCliente[1].hilo = "fin" /\ pServidor # "intenta"
                       /\ pCliente[1].retEstado > 0 /\ pCliente[1].leido = Esperado(prueba)
  <2> SUFFICES ASSUME DeUno(prueba)
               PROVE  /\ pCliente[1].hilo = "fin" /\ pServidor # "intenta"
                      /\ pCliente[1].retEstado > 0 /\ pCliente[1].leido = Esperado(prueba)
    OBVIOUS
  <2>1. 1 \in Clientes
    BY <1>2
  <2>2. pCliente[1].hilo = "fin"
    BY <1>3, <2>1, DeUnCliente
  <2>3. pServidor # "intenta"
    BY <2>1, <2>2, DeUnCliente
  <2>4. ParBien(prueba, pConexion[1], pCliente[1])
    BY <2>1, DeUnCliente
  <2> QED BY <2>2, <2>3, <2>4 DEF ParBien
<1>5. CASE sigusr1_cb
  <2>1. PICK y : y = [pCliente[1] EXCEPT !.abierto = FALSE]
    OBVIOUS
  <2>2. /\ prueba.senal = "cierra" /\ pSenal' = pSenal - 1
        /\ UNCHANGED <<prueba, pServidor, pEvento, pConexion, pMuerto, pMal>>
        /\ pCliente' = [pCliente EXCEPT ![1] = y]
    BY <1>1, <1>5, <2>1 DEF sigusr1_cb, Senal, PClientes, fallos
  <2>3. DeUno(prueba) /\ 1 \in Clientes /\ prueba.responde = "eco"
    BY <1>2, <2>2 DEF DeUno
  <2>4. y \in PClientes
    BY <1>1, <2>1 DEF PClientes
  <2>5. /\ y.hilo = pCliente[1].hilo /\ y.leido = pCliente[1].leido
        /\ y.retEstado = pCliente[1].retEstado /\ y.terminado = pCliente[1].terminado
    BY <1>1, <2>1 DEF PClientes
  <2>6. ParBien(prueba, pConexion[1], y)
    BY <1>1, <1>4, <2>3, <2>5 DEF ParBien
  <2>7. pConexion[1] \in PConexiones /\ pConexion' = [pConexion EXCEPT ![1] = pConexion[1]]
    BY <1>1, <2>2
  <2>8. /\ pServidor' # "intenta" /\ ~pMal' /\ pSenal' \in Nat /\ pEvento' \in BOOLEAN
        /\ pMuerto' # "senal" /\ y.hilo = "fin" /\ prueba.senal # "varios"
    BY <1>1, <1>3, <1>4, <2>2, <2>3, <2>5
  <2> QED BY <2>2, <2>3, <2>4, <2>6, <2>7, <2>8, UnoCambia
<1>6. CASE c1_sigusr1_cb \/ c2_sigusr1_cb
  <2>1. /\ LiberaEvento /\ UNCHANGED <<prueba, pServidor, pConexion, pCliente, pMuerto>>
        /\ DeUno(prueba)
    BY <1>6 DEF c1_sigusr1_cb, c2_sigusr1_cb, Senal, DeUno
  <2>2. ~pMal'
    <3>1. CASE c1_sigusr1_cb
      <4>1. pCliente[1].leido = 1
        BY <1>2, <1>4, <2>1, <3>1 DEF c1_sigusr1_cb, Senal, Esperado
      <4> QED BY <3>1, <4>1, Zenon DEF c1_sigusr1_cb
    <3>2. CASE c2_sigusr1_cb
      <4>1. pCliente[1].leido = Total /\ pCliente[1].retEstado > 0
        BY <1>2, <1>4, <2>1, <3>2 DEF c2_sigusr1_cb, Senal, Esperado
      <4>2. ~(pCliente[1].retEstado <= 0)
        <5>1. pCliente[1].retEstado \in Int
          BY <1>1 DEF PClientes
        <5> QED BY <4>1, <5>1
      <4> QED BY <3>2, <4>1, <4>2, Zenon DEF c2_sigusr1_cb
    <3> QED BY <1>6, <3>1, <3>2
  <2>3. pMuerto' # "senal" /\ pSenal' \in Nat /\ ~pEvento' /\ pEvento' \in BOOLEAN
    BY <1>1, <1>3, <2>1 DEF LiberaEvento
  <2> QED BY <1>1, <1>2, <1>4, <2>1, <2>2, <2>3 DEF PruebaInv, DeUno, Clientes
<1>7. CASE c4_sigusr1_cb
  <2> DEFINE comprobados == {c \in Clientes : pCliente[c].terminado = 1}
  <2>1. /\ prueba.senal = "varios" /\ ABien(comprobados)
        /\ UNCHANGED <<prueba, pConexion, pMuerto>>
    BY <1>7 DEF c4_sigusr1_cb, Senal, ABien
  <2>2. prueba.lee = "multi" /\ prueba.lee # "Read" /\ ~DeUno(prueba)
    BY <1>2, <2>1 DEF DeUno
  <2>3. ASSUME NEW c \in comprobados
        PROVE  ~(pCliente[c].retEstado <= 0) /\ pCliente[c].leido = Total
    <3>1. c \in Clientes /\ pCliente[c] \in PClientes /\ pCliente[c].terminado = 1
      BY <1>1, <1>2
    <3> QED BY <1>1, <2>2, <3>1 DEF ParBien, Esperado, PClientes
  <2>4. ~pMal'
    <3>1. ~(\E c \in comprobados : pCliente[c].retEstado <= 0 \/ pCliente[c].leido # Total)
      BY <2>3, Zenon
    <3>2. pMal' = (\E c \in comprobados : pCliente[c].retEstado <= 0 \/ pCliente[c].leido # Total)
      BY <2>1, Zenon DEF ABien
    <3> QED BY <3>1, <3>2, Zenon
  <2>5. pCliente' = [c \in {1, 2} |-> IF c \in comprobados
                                      THEN [pCliente[c] EXCEPT !.terminado = 2] ELSE pCliente[c]]
    BY <2>1, Zenon DEF ABien
  <2>6. ASSUME NEW c \in {1, 2}
        PROVE  /\ pCliente'[c] \in PClientes
               /\ c \in Clientes => ParBien(prueba, pConexion[c], pCliente'[c])
               /\ pCliente'[c].hilo = pCliente[c].hilo
    <3>1. CASE c \in comprobados
      <4>1. PICK y : y = [pCliente[c] EXCEPT !.terminado = 2]
        OBVIOUS
      <4>2. PICK dos \in Int : dos = 2
        OBVIOUS
      <4>3. y = [pCliente[c] EXCEPT !.terminado = dos]
        BY <4>1, <4>2
      <4>4. y \in PClientes
        BY <1>1, <4>3 DEF PClientes
      <4>5. /\ y.hilo = pCliente[c].hilo /\ y.leido = pCliente[c].leido
            /\ y.retEstado = pCliente[c].retEstado /\ y.abierto = pCliente[c].abierto
        BY <1>1, <4>1 DEF PClientes
      <4>6. ParBien(prueba, pConexion[c], pCliente[c]) /\ pCliente[c].terminado = 1
        BY <1>1, <3>1
      <4>7. ParBien(prueba, pConexion[c], y)
        BY <4>5, <4>6 DEF ParBien
      <4> QED BY <2>5, <3>1, <4>1, <4>4, <4>5, <4>7
    <3>2. CASE c \notin comprobados
      BY <1>1, <2>5, <3>2
    <3> QED BY <3>1, <3>2
  <2>7. pCliente' \in [{1, 2} -> PClientes]
    BY <2>5, <2>6
  <2>8. \/ /\ \A c \in Clientes : pCliente'[c].terminado = 2
           /\ pEvento' = FALSE /\ pSenal' = 0 /\ pServidor' = "libre"
        \/ pSenal' = pSenal - 1 /\ UNCHANGED <<pEvento, pServidor>>
    BY <2>1, Zenon DEF ABien, LiberaEvento
  <2>9. pSenal' \in Nat /\ pEvento' \in BOOLEAN /\ pMuerto' # "senal"
        /\ (~pEvento' => \A c \in Clientes : pCliente'[c].terminado = 2)
        /\ (pServidor' = "intenta" => pServidor = "intenta")
    <3>1. CASE /\ \A c \in Clientes : pCliente'[c].terminado = 2
               /\ pEvento' = FALSE /\ pSenal' = 0 /\ pServidor' = "libre"
      <4>1. pEvento' \in BOOLEAN /\ pSenal' \in Nat /\ pServidor' # "intenta"
        BY <3>1
      <4>2. pMuerto' # "senal"
        BY <1>1, <1>3, <2>1
      <4> QED BY <3>1, <4>1, <4>2, Zenon
    <3>2. CASE pSenal' = pSenal - 1 /\ UNCHANGED <<pEvento, pServidor>>
      <4>1. pSenal' \in Nat
        BY <1>1, <1>3, <3>2
      <4>2. pMuerto' # "senal"
        BY <1>1, <1>3, <2>1
      <4>3. pEvento' = pEvento /\ pServidor' = pServidor
        BY <3>2, Zenon
      <4> QED BY <1>1, <1>3, <4>1, <4>2, <4>3, Zenon
    <3> QED BY <2>8, <3>1, <3>2, Zenon
  <2>10. Clientes' = Clientes /\ Clientes \subseteq {1, 2} /\ prueba' = prueba
    BY <1>2, <1>3 DEF Clientes
  <2>11. \A c \in Clientes : /\ ParBien(prueba, pConexion'[c], pCliente'[c])
                            /\ pCliente'[c].hilo = pCliente[c].hilo
    BY <2>1, <2>6, <2>10
  <2>12. /\ pConexion' = pConexion
         /\ pServidor' = "intenta" => pServidor = "intenta"
         /\ pServidor = "intenta"
              => \A c \in Clientes : /\ pConexion[c].estado = "no" /\ pConexion[c].texto = "no"
                                     /\ pCliente[c].hilo = "no"
    BY <2>1, <2>9 DEF PruebaInv
  <2>13. pServidor' = "intenta"
           => \A c \in Clientes' : /\ pConexion'[c].estado = "no" /\ pConexion'[c].texto = "no"
                                   /\ pCliente'[c].hilo = "no"
    BY <2>10, <2>11, <2>12
  <2>14. \A c \in Clientes' : ParBien(prueba', pConexion'[c], pCliente'[c])
    BY <2>10, <2>11
  <2>15. prueba' \in Guiones /\ pConexion' \in [{1, 2} -> PConexiones] /\ ~DeUno(prueba')
    BY <1>1, <2>2, <2>10, <2>12
  <2>16. ~pEvento' => \A c \in Clientes' : pCliente'[c].terminado = 2
    BY <2>9, <2>10
  <2> QED BY <2>4, <2>7, <2>9, <2>13, <2>14, <2>15, <2>16 DEF PruebaInv
<1> QED BY <1>5, <1>6, <1>7

\* PruebaInv is inductive.
LEMMA PruebaInvPaso == PruebaInv /\ [PruebaNext]_pVars => PruebaInv'
<1> SUFFICES ASSUME PruebaInv, [PruebaNext]_pVars PROVE PruebaInv'
  OBVIOUS
<1>1. CASE funcionDiferida \/ UNCHANGED pVars
  BY <1>1 DEF funcionDiferida, pVars, PruebaInv, Clientes, fallos
<1>2. CASE \E c \in Clientes :
             \/ simpleClienteRead(c) \/ simpleClienteReadLargo(c)
             \/ simpleClienteReadLargo1(c) \/ multiClienteReadLargo(c)
  BY <1>2, LeeHiloPaso
<1>3. CASE \E c \in Clientes : pthread_kill(c)
  BY <1>3, MataPaso
<1>4. CASE Bind
  BY <1>4, BindPaso
<1>5. CASE \E c \in Clientes : Accept(c)
  BY <1>5, AceptaPaso
<1>6. CASE \E c \in Clientes :
             \/ readSocket_cb(c) \/ c1_readSocket_cb(c) \/ c2_writeFile(c)
             \/ c3_readSocket_cb(c) \/ Escribe(c) \/ c2_writeSocket_cb(c)
             \/ c3_writeSocket_cb(c) \/ WriteClose_cb(c) \/ closeSocket_cb(c)
  BY <1>6, AbiertaPaso
<1>7. CASE sigusr1_cb \/ c1_sigusr1_cb \/ c2_sigusr1_cb \/ c4_sigusr1_cb
  BY <1>7, SenalPaso
<1> QED BY <1>1, <1>2, <1>3, <1>4, <1>5, <1>6, <1>7, Zenon DEF PruebaNext, Hilos, Loop

\* And holds before any script begins.
LEMMA PruebaEmpieza == prueba \in Guiones /\ PruebaInit => PruebaInv
<1> SUFFICES ASSUME prueba \in Guiones, PruebaInit PROVE PruebaInv
  OBVIOUS
<1>1. Clientes \subseteq {1, 2}
  BY LosGuiones DEF Clientes
<1>2. PICK x : x = [estado |-> "no", texto |-> "no", queda |-> -1, sale |-> 0,
                    cierra |-> FALSE, red |-> 0]
  OBVIOUS
<1>3. PICK y : y = [hilo |-> "no", leido |-> 0, retEstado |-> 1, terminado |-> 0,
                    abierto |-> TRUE]
  OBVIOUS
<1>4. /\ pConexion = [c \in {1, 2} |-> x] /\ pCliente = [c \in {1, 2} |-> y]
      /\ pServidor = "intenta" /\ pSenal = 0 /\ pMuerto = "no" /\ ~pMal
  BY <1>2, <1>3 DEF PruebaInit
<1>5. x \in PConexiones /\ y \in PClientes
  BY <1>2, <1>3 DEF PConexiones, PClientes
<1>6. ParBien(prueba, x, y) /\ x.estado = "no" /\ x.texto = "no" /\ y.hilo = "no"
  BY <1>2, <1>3 DEF ParBien
<1>7. pEvento \in BOOLEAN /\ (prueba.senal # "timer" => pEvento)
  <2>1. prueba.senal # "timer" => prueba # testCierre
    BY DEF testCierre, Guion
  <2>2. pEvento = (prueba # testCierre)
    BY Zenon DEF PruebaInit
  <2> QED BY <2>1, <2>2, Zenon
<1> QED BY <1>1, <1>4, <1>5, <1>6, <1>7 DEF PruebaInv, DeUno

\* It says what the tests assert, and what a signal can kill.
LEMMA PruebasBien ==
  PruebaInv => ServerTestsHold /\ (pMuerto = "senal" => prueba = testVariosClientes)
<1> SUFFICES ASSUME PruebaInv
             PROVE  ServerTestsHold /\ (pMuerto = "senal" => prueba = testVariosClientes)
  OBVIOUS
<1>1. prueba.senal = "varios" => prueba = testVariosClientes
  BY LosGuiones DEF PruebaInv
<1> QED BY <1>1 DEF PruebaInv, ServerTestsHold

\* As long as the process lives no assertion of these tests fails, whatever the order of
\* threads, signals and what the kernel takes and gives, and whatever the library finds in
\* a server that close_i has freed; and only the test of two clients can be killed by the
\* signal of one of them.  For a file of any number of lines.
THEOREM TestsOfServersHold ==
  PruebaSpec => [](ServerTestsHold /\ (pMuerto = "senal" => prueba = testVariosClientes))
BY PruebasBien, PruebaEmpieza, PruebaInvPaso, PTL DEF PruebaSpec

-----------------------------------------------------------------------------
\* The test of zlEvtTimer.lib, four loops one after the other.

\* What main asks of each of its timers, of its loop and of the result.
LEMMA LosPasos ==
  /\ Len(Pasos) = 5
  /\ \A p \in 1 .. 5 : Pasos[p].despacha <=> p # 3
  /\ \A p \in 1 .. 5 : Pasos[p].libera <=> p \in {1, 2, 4}
  /\ Pasos[1].resultado = 1 /\ Pasos[2].resultado = 1
  /\ Pasos[4].resultado = 0 /\ Pasos[5].resultado = 0
  /\ Pasos[1].funcion = 1 /\ Pasos[2].funcion = 1 /\ Pasos[3].funcion = 1
  /\ Pasos[4].funcion = 2 /\ Pasos[5].funcion = 3
  /\ Pasos[3].segundos = 2 /\ Pasos[4].segundos = 1
BY DEF Pasos, Paso

\* Which of them free themselves.
LEMMA PasoLibera == \A p \in 1 .. 5 : Pasos[p].libera \in BOOLEAN
<1>1. /\ Pasos[1].libera = TRUE /\ Pasos[2].libera = TRUE /\ Pasos[3].libera = FALSE
      /\ Pasos[4].libera = TRUE /\ Pasos[5].libera = FALSE
  BY DEF Pasos, Paso
<1>2. \A p \in 1 .. 5 : p = 1 \/ p = 2 \/ p = 3 \/ p = 4 \/ p = 5
  OBVIOUS
<1> QED BY <1>1, <1>2, Zenon

\* The first two tests: the timer waits, or its function is to run, or has run.
Test1Inv ==
  /\ tLlama \in {0, 1}
  /\ \A t \in Timers : pendiente[t] => tFuncion[t] = 1
  /\ \/ tEstado = 1
     \/ tLlama = 1
     \/ tLlama = 0 /\ corriendo = NULL /\ \E t \in Timers : pendiente[t]

\* The third, with the first of its timers: it waits for two seconds.
Test3AntesInv ==
  /\ corriendo = NULL /\ tLlama = 0
  /\ tTimer \in conocidos /\ tSegundos[tTimer] = 2
  /\ \A t \in Timers : pendiente[t] => t = tTimer

\* And with both: the second is due first, and takes the other away before it is.
Test3Inv ==
  /\ tEstado = 0 /\ tTimer \in conocidos
  /\ \/ /\ corriendo = NULL /\ tLlama = 0 /\ tSegundos[tTimer] = 2
        /\ \E u \in Timers : /\ tSegundos[u] = 1 /\ tFuncion[u] = 2 /\ pendiente[u]
                             /\ \A t \in Timers : pendiente[t] => t \in {u, tTimer}
     \/ /\ corriendo # NULL /\ tLlama = 2
        /\ \A t \in Timers : pendiente[t] => t = tTimer
     \/ tLlama = 0 /\ \A t \in Timers : ~pendiente[t]

\* The fourth: the timer activates itself, or its function is to run, or it has finished.
Test4Inv ==
  /\ tLlama \in {0, 3}
  /\ corriendo # NULL => tFuncion[corriendo] = 3 /\ ~libera[corriendo]
  /\ \A t \in Timers : pendiente[t] => tFuncion[t] = 3 /\ ~libera[t]
  /\ \/ tEstado = 0
     \/ tLlama = 3
     \/ tLlama = 0 /\ \E t \in Timers : pendiente[t]

\* Each timer has been created for the test that runs, and where that one is says what
\* tEstado will be when its loop returns.
PruebaTimerInv ==
  /\ TimerInv
  /\ ~tMal
  /\ tPaso \in 0 .. 6
  /\ tSegundos \in [Timers -> Int] /\ tFuncion \in [Timers -> Int]
  /\ corriendo = NULL => tLlama = 0
  /\ tPaso \in {0, 6} => tLlama = 0
  /\ tPaso = 0 => corriendo = NULL /\ \A t \in Timers : ~pendiente[t]
  /\ tPaso \in {1, 2} => Test1Inv
  /\ tPaso = 3 => Test3AntesInv
  /\ tPaso = 4 => Test3Inv
  /\ tPaso = 5 => Test4Inv

\* The steps of the test are steps of the timers.
LEMMA PruebaUsaTimers ==
  ASSUME PruebaTimerInv, [PruebaTimerNext]_<<timerVars, pruebaTimerVars>>
  PROVE  [TimerNext]_timerVars
<1>1. conocidos \subseteq Timers
  BY DEF PruebaTimerInv, TimerInv, TypeOK
<1>3. CASE main
  <2>1. tPaso + 1 \in 1 .. 5
    BY <1>3, LosPasos DEF PruebaTimerInv, main
  <2>2. \E t \in Timers : Nuevo(t, Pasos[tPaso + 1].libera, TRUE)
    BY <1>3 DEF main
  <2>3. Pasos[tPaso + 1].libera \in BOOLEAN
    BY <2>1, PasoLibera
  <2> QED BY <2>2, <2>3, Zenon DEF TimerNext
<1>4. CASE mainFin \/ funcionDiferida1 \/ UNCHANGED <<timerVars, pruebaTimerVars>>
  BY <1>4, Zenon DEF mainFin, funcionDiferida1
<1>5. ASSUME NEW t \in Timers, LanzaElPrimero(t)
      PROVE  TimerNext
  BY <1>5, Zenon DEF LanzaElPrimero, TimerNext
<1>6. CASE funcionDiferida2
  <2>1. zlEvtTimerDesactiva(tTimer)
    BY <1>6, Zenon DEF funcionDiferida2
  <2>2. tTimer \in Timers
    BY <1>1, <2>1 DEF zlEvtTimerDesactiva, PonPendiente, Usa
  <2> QED BY <2>1, <2>2, Zenon DEF TimerNext
<1>7. CASE funcionDiferida3
  <2>1. zlEvtTimerActiva(corriendo) \/ zlEvtTimerDesactiva(corriendo)
    BY <1>7, Zenon DEF funcionDiferida3
  <2>2. corriendo \in Timers
    BY <1>1, <2>1 DEF zlEvtTimerActiva, zlEvtTimerDesactiva, PonPendiente, Usa
  <2> QED BY <2>1, <2>2, Zenon DEF TimerNext
<1>8. CASE Vuelve
  BY <1>8, Zenon DEF TimerNext
<1> QED BY <1>3, <1>4, <1>5, <1>6, <1>7, <1>8, Zenon DEF PruebaTimerNext

\* The result of a test is what main expects when its loop has nothing left.
LEMMA ResultadoEsperado ==
  ASSUME PruebaTimerInv, FinDispatch, tPaso <= 5
  PROVE  ~tMal'
<1>1. corriendo = NULL /\ tLlama = 0
  BY DEF PruebaTimerInv, FinDispatch
<1>2. CASE tPaso \in {0, 3}
  <2>1. ~Despacha
    BY <1>2, LosPasos DEF Despacha
  <2> QED BY <2>1, Zenon DEF FinDispatch
<1>3. CASE tPaso \in {1, 2, 4, 5}
  <2>1. Despacha
    BY <1>3, LosPasos DEF Despacha
  <2>2. \A t \in Timers : ~pendiente[t]
    BY <2>1 DEF FinDispatch
  <2>3. tEstado = Pasos[tPaso].resultado
    BY <1>1, <1>3, <2>2, LosPasos DEF PruebaTimerInv, Test1Inv, Test3Inv, Test4Inv
  <2> QED BY <2>3, Zenon DEF FinDispatch
<1> QED BY <1>2, <1>3 DEF PruebaTimerInv

\* PruebaTimerInv is inductive.
LEMMA PruebaTimerInvPaso ==
  ASSUME "libera" \in Reglas, PruebaTimerInv,
         [PruebaTimerNext]_<<timerVars, pruebaTimerVars>>
  PROVE  PruebaTimerInv'
<1>1. TimerInv' /\ TypeOK /\ TypeOK' /\ NULL \notin Timers
  BY PruebaUsaTimers, TimerInvPaso, TimerAssumption DEF PruebaTimerInv, TimerInv
<1>2. CASE main
  <2>1. ~tMal' /\ tPaso \in 0 .. 4 /\ tPaso' = tPaso + 1 /\ corriendo = NULL
        /\ tLlama = 0 /\ tLlama' = 0 /\ tEstado' = 0
    BY <1>2, LosPasos, ResultadoEsperado DEF main, PruebaTimerInv, FinDispatch
  <2>2. PICK t \in Timers :
          /\ Nuevo(t, Pasos[tPaso + 1].libera, TRUE)
          /\ tSegundos' = [tSegundos EXCEPT ![t] = Pasos[tPaso + 1].segundos]
          /\ tFuncion' = [tFuncion EXCEPT ![t] = Pasos[tPaso + 1].funcion]
          /\ tTimer' = IF Pasos[tPaso + 1].libera THEN tTimer ELSE t
    BY <1>2, Zenon DEF main
  <2>3. /\ pendiente' = [pendiente EXCEPT ![t] = TRUE] /\ corriendo' = NULL
        /\ libera' = [libera EXCEPT ![t] = Pasos[tPaso + 1].libera]
        /\ conocidos \subseteq conocidos'
        /\ ~Pasos[tPaso + 1].libera => t \in conocidos'
        /\ t \notin conocidos
    BY <2>1, <2>2 DEF Nuevo, Olvida
  <2>4. tPaso # 3 => \A x \in Timers : ~pendiente[x]
    <3>1. tPaso # 3 /\ tPaso # 0 => Despacha
      BY <2>1, LosPasos DEF Despacha
    <3> QED BY <1>2, <3>1 DEF main, FinDispatch, PruebaTimerInv
  <2>5. /\ tSegundos' \in [Timers -> Int] /\ tFuncion' \in [Timers -> Int]
        /\ tSegundos'[t] = Pasos[tPaso + 1].segundos /\ tFuncion'[t] = Pasos[tPaso + 1].funcion
        /\ \A x \in Timers : x # t => tSegundos'[x] = tSegundos[x] /\ tFuncion'[x] = tFuncion[x]
    <3>1. \A p \in 1 .. 5 : Pasos[p].segundos \in Int /\ Pasos[p].funcion \in Int
      BY DEF Pasos, Paso
    <3>2. tPaso + 1 \in 1 .. 5
      BY <2>1
    <3>3. Pasos[tPaso + 1].segundos \in Int /\ Pasos[tPaso + 1].funcion \in Int
      BY <3>1, <3>2
    <3> QED BY <2>2, <3>3 DEF PruebaTimerInv
  <2>6. /\ pendiente'[t] /\ \A x \in Timers : x # t => (pendiente'[x] <=> pendiente[x])
        /\ libera'[t] <=> Pasos[tPaso + 1].libera
    BY <1>1, <2>3 DEF TypeOK
  <2>7. CASE tPaso \in {0, 1}
    <3>1. Pasos[tPaso + 1].funcion = 1
      BY <2>7, LosPasos
    <3>2. Test1Inv'
      BY <2>1, <2>3, <2>4, <2>5, <2>6, <2>7, <3>1 DEF Test1Inv
    <3> QED BY <1>1, <2>1, <2>3, <2>5, <2>7, <3>2 DEF PruebaTimerInv
  <2>8. CASE tPaso = 2
    <3>1. Pasos[tPaso + 1].segundos = 2 /\ ~Pasos[tPaso + 1].libera
      BY <2>8, LosPasos
    <3>2. tTimer' = t
      BY <2>2, <3>1
    <3>3. Test3AntesInv'
      BY <2>1, <2>3, <2>4, <2>5, <2>6, <2>8, <3>1, <3>2 DEF Test3AntesInv
    <3> QED BY <1>1, <2>1, <2>3, <2>5, <2>8, <3>3 DEF PruebaTimerInv
  <2>9. CASE tPaso = 3
    <3>1. Pasos[tPaso + 1].segundos = 1 /\ Pasos[tPaso + 1].funcion = 2 /\ Pasos[tPaso + 1].libera
      BY <2>9, LosPasos
    <3>2. /\ tTimer' = tTimer /\ tTimer \in conocidos /\ tTimer \in Timers
          /\ tSegundos[tTimer] = 2 /\ \A x \in Timers : pendiente[x] => x = tTimer
      BY <1>1, <2>2, <2>9, <3>1 DEF PruebaTimerInv, Test3AntesInv, TypeOK
    <3>3. /\ tSegundos'[t] = 1 /\ tFuncion'[t] = 2 /\ pendiente'[t] /\ t # tTimer
          /\ \A x \in Timers : pendiente'[x] => x \in {t, tTimer'}
          /\ tSegundos'[tTimer'] = 2 /\ tTimer' \in conocidos'
      BY <2>3, <2>5, <2>6, <3>1, <3>2
    <3>4. Test3Inv'
      BY <2>1, <2>3, <3>3 DEF Test3Inv
    <3> QED BY <1>1, <2>1, <2>3, <2>5, <2>9, <3>4 DEF PruebaTimerInv
  <2>10. CASE tPaso = 4
    <3>1. Pasos[tPaso + 1].funcion = 3 /\ ~Pasos[tPaso + 1].libera
      BY <2>10, LosPasos
    <3>2. Test4Inv'
      BY <1>1, <2>1, <2>3, <2>4, <2>5, <2>6, <2>10, <3>1 DEF Test4Inv
    <3> QED BY <1>1, <2>1, <2>3, <2>5, <2>10, <3>2 DEF PruebaTimerInv
  <2> QED BY <2>1, <2>7, <2>8, <2>9, <2>10
<1>3. CASE mainFin
  <2>1. ~tMal' /\ tPaso' = 6 /\ tLlama' = 0 /\ UNCHANGED <<tSegundos, tFuncion>>
    BY <1>3, LosPasos, ResultadoEsperado DEF mainFin, PruebaTimerInv, FinDispatch
  <2> QED BY <1>1, <2>1 DEF PruebaTimerInv
<1>4. ASSUME NEW t \in Timers, LanzaElPrimero(t)
      PROVE  PruebaTimerInv'
  <2>1. /\ tPaso \in {1, 2, 4, 5} /\ corriendo = NULL /\ pendiente[t] /\ tLlama = 0
        /\ pendiente' = [pendiente EXCEPT ![t] = FALSE] /\ corriendo' = t
        /\ tLlama' = tFuncion[t]
        /\ \A x \in Timers : pendiente[x] => tSegundos[t] <= tSegundos[x]
        /\ UNCHANGED <<libera, conocidos, tPaso, tSegundos, tFuncion, tTimer, tEstado, tMal>>
    BY <1>4, LosPasos DEF LanzaElPrimero, Despacha, Lanza, PruebaTimerInv
  <2>2. /\ t # NULL
        /\ \A x \in Timers : pendiente'[x] <=> pendiente[x] /\ x # t
    BY <1>1, <2>1 DEF TypeOK
  <2>3. CASE tPaso \in {1, 2}
    <3>1. tLlama' = 1 /\ Test1Inv'
      BY <2>1, <2>2, <2>3 DEF PruebaTimerInv, Test1Inv
    <3> QED BY <1>1, <2>1, <2>2, <2>3, <3>1 DEF PruebaTimerInv
  <2>4. CASE tPaso = 4
    <3>1. tEstado' = 0 /\ tTimer' \in conocidos'
      BY <2>1, <2>4 DEF PruebaTimerInv, Test3Inv
    <3>2. PICK u \in Timers : /\ tSegundos[tTimer] = 2
                              /\ tSegundos[u] = 1 /\ tFuncion[u] = 2 /\ pendiente[u]
                              /\ \A x \in Timers : pendiente[x] => x \in {u, tTimer}
      BY <2>1, <2>4 DEF PruebaTimerInv, Test3Inv
    <3>3. t = u
      BY <2>1, <3>2
    <3>4. tLlama' = 2 /\ \A x \in Timers : pendiente'[x] => x = tTimer'
      BY <2>1, <2>2, <3>2, <3>3
    <3>5. Test3Inv'
      BY <2>1, <2>2, <3>1, <3>4 DEF Test3Inv
    <3> QED BY <1>1, <2>1, <2>2, <2>4, <3>4, <3>5 DEF PruebaTimerInv
  <2>5. CASE tPaso = 5
    <3>1. tLlama' = 3 /\ Test4Inv'
      BY <2>1, <2>2, <2>5 DEF PruebaTimerInv, Test4Inv
    <3> QED BY <1>1, <2>1, <2>2, <2>5, <3>1 DEF PruebaTimerInv
  <2> QED BY <2>1, <2>3, <2>4, <2>5
<1>5. CASE funcionDiferida1
  <2>1. /\ tLlama = 1 /\ tLlama' = 0 /\ tEstado' = 1
        /\ UNCHANGED <<libera, pendiente, corriendo, conocidos, tPaso, tSegundos, tFuncion, tTimer, tMal>>
    BY <1>5 DEF funcionDiferida1, Funcion, timerVars
  <2>2. tPaso \in {1, 2}
    BY <2>1 DEF PruebaTimerInv, Test3AntesInv, Test3Inv, Test4Inv
  <2> QED BY <1>1, <2>1, <2>2 DEF PruebaTimerInv, Test1Inv
<1>6. CASE funcionDiferida2
  <2>1. /\ tLlama = 2 /\ tLlama' = 0
        /\ zlEvtTimerDesactiva(tTimer)
        /\ UNCHANGED <<libera, corriendo, conocidos, tPaso, tSegundos, tFuncion, tTimer, tMal, tEstado>>
    BY <1>6 DEF funcionDiferida2, Funcion, zlEvtTimerDesactiva, PonPendiente
  <2>2. tPaso = 4
    BY <2>1 DEF PruebaTimerInv, Test3AntesInv, Test1Inv, Test4Inv
  <2>3. mem[tTimer] = "vivo" /\ tTimer \in Timers
    BY <1>1, <2>2 DEF PruebaTimerInv, Test3Inv, TimerInv, TypeOK
  <2>4. pendiente' = [pendiente EXCEPT ![tTimer] = FALSE]
    BY <2>1, <2>3 DEF zlEvtTimerDesactiva, PonPendiente
  <2>5. \A x \in Timers : ~pendiente'[x]
    BY <1>1, <2>1, <2>2, <2>4 DEF PruebaTimerInv, Test3Inv, TypeOK
  <2> QED BY <1>1, <2>1, <2>2, <2>5 DEF PruebaTimerInv, Test3Inv
<1>7. CASE funcionDiferida3
  <2>1. /\ tLlama = 3 /\ tLlama' = 0
        /\ UNCHANGED <<libera, corriendo, tPaso, tSegundos, tFuncion, tTimer, tMal>>
        /\ corriendo \in conocidos
    BY <1>7 DEF funcionDiferida3, Funcion, zlEvtTimerDesactiva, zlEvtTimerActiva, PonPendiente, Usa
  <2>2. tPaso = 5
    BY <2>1 DEF PruebaTimerInv, Test3AntesInv, Test1Inv, Test3Inv
  <2>3. mem[corriendo] = "vivo" /\ corriendo \in Timers
    BY <1>1, <2>1 DEF PruebaTimerInv, TimerInv, TypeOK
  <2>4. \/ pendiente' = [pendiente EXCEPT ![corriendo] = TRUE] /\ tEstado' = 1
        \/ pendiente' = [pendiente EXCEPT ![corriendo] = FALSE] /\ tEstado' = 0
    BY <1>7, <2>3 DEF funcionDiferida3, zlEvtTimerDesactiva, zlEvtTimerActiva, PonPendiente
  <2>5. \A x \in Timers : x # corriendo => (pendiente'[x] <=> pendiente[x])
    BY <1>1, <2>3, <2>4 DEF TypeOK
  <2>6. (pendiente'[corriendo] /\ tEstado' = 1) \/ (~pendiente'[corriendo] /\ tEstado' = 0)
    BY <1>1, <2>3, <2>4 DEF TypeOK
  <2>7. tFuncion[corriendo] = 3
    BY <1>1, <2>2, <2>3 DEF PruebaTimerInv, Test4Inv
  <2>8. Test4Inv'
    BY <2>1, <2>2, <2>3, <2>5, <2>6, <2>7 DEF PruebaTimerInv, Test4Inv
  <2> QED BY <1>1, <2>1, <2>2, <2>8 DEF PruebaTimerInv
<1>8. CASE tLlama = 0 /\ Vuelve /\ UNCHANGED pruebaTimerVars
  <2>1. /\ tLlama = 0 /\ corriendo # NULL /\ corriendo' = NULL /\ UNCHANGED <<libera, conocidos, pruebaTimerVars>>
        /\ \A x \in Timers : pendiente'[x] => pendiente[x]
        /\ ~libera[corriendo] => pendiente' = pendiente
    BY <1>1, <1>8 DEF Vuelve, VuelveInterno, VuelveInternoFree, TypeOK
  <2>2. UNCHANGED <<tPaso, tSegundos, tFuncion, tLlama, tTimer, tEstado, tMal>>
    BY <2>1 DEF pruebaTimerVars
  <2> QED BY <1>1, <2>1, <2>2 DEF PruebaTimerInv, Test1Inv, Test3AntesInv, Test3Inv, Test4Inv
<1>9. CASE UNCHANGED <<timerVars, pruebaTimerVars>>
  BY <1>1, <1>9 DEF PruebaTimerInv, Test1Inv, Test3AntesInv, Test3Inv, Test4Inv, timerVars, pruebaTimerVars
<1> QED BY <1>2, <1>3, <1>4, <1>5, <1>6, <1>7, <1>8, <1>9, Zenon DEF PruebaTimerNext

\* And holds before main.
LEMMA PruebaTimerEmpieza == TimerInit /\ PruebaTimerInit => PruebaTimerInv
<1> SUFFICES ASSUME TimerInit, PruebaTimerInit PROVE PruebaTimerInv
  OBVIOUS
<1>1. TimerInv /\ corriendo = NULL /\ \A t \in Timers : ~pendiente[t]
  BY TimerAssumption DEF TimerInit, TimerInv, TypeOK
<1>2. /\ ~tMal /\ tPaso = 0 /\ tLlama = 0
      /\ tSegundos \in [Timers -> Int] /\ tFuncion \in [Timers -> Int]
  BY DEF PruebaTimerInit
<1> QED BY <1>1, <1>2 DEF PruebaTimerInv

-----------------------------------------------------------------------------
\* The test of the former zlEvtSocket.lib: a server and a client that talk.

\* What is on its way to each of the two.
Charla(enCliente, enServer) == sRed["cliente"] = enCliente /\ sRed["server"] = enServer

\* Once the client is connected there is one message on its way, the last that was asked
\* or its echo, until the client is told to close.
PruebaSocketInv ==
  /\ ~sMal
  /\ sSocket \in [{"main", "cliente", "server"} -> {"no", "conecta", "abierto", "cerrado"}]
  /\ sRed \in [{"cliente", "server"} -> Seq(Int)]
  /\ sMain \in {"inicio", "test1"}
       => sServer = "no" /\ ~sDiferido /\ sSocket["cliente"] = "no"
  /\ sDiferido => sSocket["cliente"] = "no"
  /\ sSocket["cliente"] = "conecta" => sServer = "escucha"
  /\ \/ /\ sSocket["cliente"] \in {"no", "conecta"} /\ sSocket["server"] # "cerrado"
        /\ sContador = 0 /\ Charla(<<>>, <<>>)
     \/ /\ sSocket["cliente"] = "abierto" /\ sSocket["server"] # "cerrado"
        /\ sContador \in 1 .. 3
        /\ \/ /\ sServer = "escucha"
              /\ \/ Charla(<<>>, <<sContador>>)
                 \/ Charla(<<sContador>>, <<>>)
                 \/ Charla(<<>>, <<FINSERVER>>)
           \/ Charla(<<CIERRATE>>, <<>>)
     \/ sSocket["cliente"] = "cerrado" /\ Charla(<<>>, <<>>)

\* A message that is alone is read whole.
LEMMA UnMensaje ==
  ASSUME NEW m, NEW k \in 1 .. Len(<<m>>)
  PROVE  k = 1 /\ SubSeq(<<m>>, 1, k) = <<m>> /\ SubSeq(<<m>>, k + 1, Len(<<m>>)) = <<>>
<1>1. k = 1
  OBVIOUS
<1>2. <<m>> \in Seq({m}) /\ Len(<<m>>) = 1 /\ <<m>>[1] = m
  OBVIOUS
<1>3. SubSeq(<<m>>, 1, 1) = <<m>>
  <2>1. \A i \in 1 .. 1 : <<m>>[i] \in {m}
    OBVIOUS
  <2>2. /\ SubSeq(<<m>>, 1, 1) \in Seq({m}) /\ Len(SubSeq(<<m>>, 1, 1)) = 1
        /\ SubSeq(<<m>>, 1, 1)[1] = m
    BY <2>1, SubSeqProperties
  <2>3. PICK s : s = SubSeq(<<m>>, 1, 1)
    OBVIOUS
  <2>4. s \in Seq({m}) /\ Len(s) = 1 /\ s[1] = m
    BY <2>2, <2>3
  <2>5. s = <<m>>
    BY <2>4
  <2> QED BY <2>3, <2>5
<1>4. SubSeq(<<m>>, 2, 1) = <<>>
  BY SubSeqEmpty
<1> QED BY <1>1, <1>2, <1>3, <1>4

\* PruebaSocketInv is inductive: each message is answered before the next is written.
LEMMA PruebaSocketInvPaso ==
  PruebaSocketInv /\ [PruebaSocketNext]_pruebaSocketVars => PruebaSocketInv'
<1> SUFFICES ASSUME PruebaSocketInv, [PruebaSocketNext]_pruebaSocketVars
             PROVE  PruebaSocketInv'
  OBVIOUS
<1>1. CASE mainTest1 \/ mainTest2 \/ finTest2
  BY <1>1 DEF PruebaSocketInv, Charla, mainTest1, mainTest2, finTest2, SinEventos
<1>2. CASE closeSocket \/ closeCliente1 \/ closeServer1
  BY <1>2 DEF PruebaSocketInv, Charla, closeSocket, closeCliente1, closeServer1, Cierra
<1>3. CASE bindServer1 \/ lanzaCliente1Diferido \/ connectServer1
  BY <1>3 DEF PruebaSocketInv, Charla, bindServer1, lanzaCliente1Diferido, connectServer1
<1>4. CASE connectCliente1
  <2>1. /\ sSocket["cliente"] = "conecta" /\ sContador = 0 /\ Charla(<<>>, <<>>)
        /\ sSocket["server"] # "cerrado" /\ sServer = "escucha" /\ ~sDiferido
        /\ sMain \notin {"inicio", "test1"}
    BY <1>4 DEF PruebaSocketInv, Charla, connectCliente1
  <2>2. /\ sSocket' = [sSocket EXCEPT !["cliente"] = "abierto"]
        /\ sContador' = 1 /\ Append(<<>>, 1) = <<1>>
        /\ sRed' = [sRed EXCEPT !["server"] = Append(<<>>, 1)]
        /\ UNCHANGED <<sMain, sServer, sDiferido, sMal>>
    BY <1>4, <2>1 DEF Charla, connectCliente1
  <2>3. sRed' = [sRed EXCEPT !["server"] = <<1>>]
    BY <2>2
  <2> QED BY <2>1, <2>2, <2>3 DEF PruebaSocketInv, Charla
<1>5. ASSUME NEW k \in 1 .. Len(sRed["server"]), readServer1(k)
      PROVE  PruebaSocketInv'
  <2>1. PICK m \in Int : /\ sRed["server"] = <<m>> /\ sRed["cliente"] = <<>>
                         /\ (m = sContador /\ m \in 1 .. 3) \/ m = FINSERVER
                         /\ sSocket["cliente"] = "abierto" /\ sSocket["server"] # "cerrado"
                         /\ sContador \in 1 .. 3 /\ sServer = "escucha"
    BY <1>5 DEF PruebaSocketInv, Charla, FINSERVER
  <2>2. /\ k = 1 /\ SubSeq(sRed["server"], 1, k) = <<m>>
        /\ SubSeq(sRed["server"], k + 1, Len(sRed["server"])) = <<>>
        /\ <<m>>[1] = m
        /\ \A x : <<>> \o <<x>> = <<x>>
    BY <2>1, UnMensaje
  <2>3. CASE m # FINSERVER
    <3>1. /\ UNCHANGED <<sMain, sDiferido, sSocket, sContador, sServer, sMal>>
          /\ sRed' = [sRed EXCEPT !["server"] = <<>>, !["cliente"] = <<m>>]
      BY <1>5, <2>1, <2>2, <2>3 DEF readServer1, Recibe
    <3> QED BY <2>1, <2>3, <3>1 DEF PruebaSocketInv, Charla
  <2>4. CASE m = FINSERVER
    <3>0. Recibe("server", "cliente", k, <<CIERRATE>>)
          /\ sServer' = "libre" /\ sMal' = (sServer = "libre") /\ UNCHANGED <<sSocket, sContador>>
      BY <1>5, <2>2, <2>4, Zenon DEF readServer1
    <3>1. /\ UNCHANGED <<sMain, sDiferido, sSocket, sContador>>
          /\ sRed' = [sRed EXCEPT !["server"] = <<>>, !["cliente"] = <<CIERRATE>>]
          /\ sServer' = "libre"
      BY <2>1, <2>2, <3>0 DEF Recibe
    <3>3. sServer # "libre"
      BY <2>1
    <3>4. ~sMal'
      BY <3>0, <3>3, Zenon
    <3>2. sMain \notin {"inicio", "test1"} /\ ~sDiferido
      BY <2>1 DEF PruebaSocketInv
    <3> QED BY <2>1, <2>4, <3>1, <3>2, <3>4 DEF PruebaSocketInv, Charla, CIERRATE
  <2> QED BY <2>3, <2>4
<1>6. ASSUME NEW k \in 1 .. Len(sRed["cliente"]), readCliente1(k)
      PROVE  PruebaSocketInv'
  <2>1. PICK m \in Int : /\ sRed["cliente"] = <<m>> /\ sRed["server"] = <<>>
                         /\ \/ m = sContador /\ sServer = "escucha"
                            \/ m = CIERRATE
                         /\ sSocket["cliente"] = "abierto" /\ sSocket["server"] # "cerrado"
                         /\ sContador \in 1 .. 3
    BY <1>6 DEF PruebaSocketInv, Charla, CIERRATE
  <2>2. /\ k = 1 /\ SubSeq(sRed["cliente"], 1, k) = <<m>>
        /\ SubSeq(sRed["cliente"], k + 1, Len(sRed["cliente"])) = <<>>
        /\ <<m>> = <<CIERRATE>> <=> m = CIERRATE
        /\ <<>> \o <<>> = <<>> /\ \A x : <<>> \o <<x>> = <<x>>
    BY <2>1, UnMensaje
  <2>3. CASE m = CIERRATE
    <3>1. /\ UNCHANGED <<sMain, sDiferido, sServer, sContador, sMal>>
          /\ sRed' = [sRed EXCEPT !["cliente"] = <<>>, !["server"] = <<>>]
          /\ sSocket' = [sSocket EXCEPT !["cliente"] = "cerrado"]
      BY <1>6, <2>1, <2>2, <2>3 DEF readCliente1, Recibe
    <3>2. sMain \notin {"inicio", "test1"} /\ ~sDiferido
      BY <2>1 DEF PruebaSocketInv
    <3> QED BY <2>1, <3>1, <3>2 DEF PruebaSocketInv, Charla
  <2>4. CASE m # CIERRATE
    <3> DEFINE pide == IF sContador = 3 THEN <<FINSERVER>> ELSE <<sContador + 1>>
    <3>0. /\ Recibe("cliente", "server", k, pide)
          /\ sContador' = IF sContador = 3 THEN 3 ELSE sContador + 1
          /\ sMal' = (<<m>> # <<sContador>>)
          /\ UNCHANGED <<sServer, sSocket>>
      BY <1>6, <2>2, <2>4, Zenon DEF readCliente1
    <3>1. /\ UNCHANGED <<sMain, sDiferido>>
          /\ sRed' = [sRed EXCEPT !["cliente"] = <<>>, !["server"] = <<>> \o pide]
      BY <2>1, <2>2, <3>0, Zenon DEF Recibe
    <3>2. <<>> \o pide = pide
      BY <2>2
    <3>3. /\ \/ /\ sContador = 3 /\ sContador' = 3
                /\ sRed' = [sRed EXCEPT !["cliente"] = <<>>, !["server"] = <<FINSERVER>>]
             \/ /\ sContador # 3 /\ sContador' = sContador + 1
                /\ sRed' = [sRed EXCEPT !["cliente"] = <<>>, !["server"] = <<sContador + 1>>]
      BY <3>0, <3>1, <3>2
    <3>4. m = sContador
      BY <2>1, <2>4
    <3>5. ~sMal'
      BY <3>0, <3>4, Zenon
    <3>6. UNCHANGED <<sServer, sSocket>>
      BY <3>0
    <3> HIDE DEF pide
    <3>7. /\ sMain \notin {"inicio", "test1"} /\ ~sDiferido /\ sServer = "escucha"
      BY <2>1, <2>4 DEF PruebaSocketInv
    <3>8. PICK n \in Int : /\ sRed' = [sRed EXCEPT !["cliente"] = <<>>, !["server"] = <<n>>]
                           /\ sContador' \in 1 .. 3 /\ (n = sContador' \/ n = FINSERVER)
      BY <2>1, <3>3 DEF FINSERVER
    <3>9. /\ sRed \in [{"cliente", "server"} -> Seq(Int)]
          /\ <<>> \in Seq(Int) /\ <<n>> \in Seq(Int)
      BY DEF PruebaSocketInv
    <3>10. /\ sRed' \in [{"cliente", "server"} -> Seq(Int)]
           /\ sRed'["cliente"] = <<>> /\ sRed'["server"] = <<n>>
      BY <3>8, <3>9
    <3> QED BY <2>1, <3>1, <3>5, <3>6, <3>7, <3>8, <3>10 DEF PruebaSocketInv, Charla
  <2> QED BY <2>3, <2>4
<1>7. CASE UNCHANGED pruebaSocketVars
  BY <1>7 DEF PruebaSocketInv, Charla, pruebaSocketVars
<1> QED BY <1>1, <1>2, <1>3, <1>4, <1>5, <1>6, <1>7 DEF PruebaSocketNext

\* And holds before main.
LEMMA PruebaSocketEmpieza == PruebaSocketInit => PruebaSocketInv
BY EmptySeq DEF PruebaSocketInit, PruebaSocketInv, Charla

-----------------------------------------------------------------------------
\* All the programs, each with its own library.

\* A step of the program is one of its library, and leaves the others alone.
LEMMA CadaUnoLoSuyo ==
  ASSUME [Next]_vars
  PROVE  /\ [FunNext]_funVars /\ [EanNext]_eanVars /\ [TempNext]_tempVars
         /\ [FechaNext]_fechaVars /\ [BufNext]_bufVars /\ [DirNext]_dirVars
         /\ [ListaNext]_listaVars /\ [EnlazadaNext]_enlazadaVars
         /\ [PruebaNext]_pVars
         /\ [PruebaSocketNext]_pruebaSocketVars
         /\ programa' = programa
<1>1. CASE UNCHANGED vars
  BY <1>1 DEF vars
<1>2. CASE Next
  <2>1. [FunNext]_funVars
    BY <1>2, Zenon DEF Next
  <2>2. [EanNext]_eanVars
    BY <1>2, Zenon DEF Next
  <2>3. [TempNext]_tempVars
    BY <1>2, Zenon DEF Next
  <2>4. [FechaNext]_fechaVars
    BY <1>2, Zenon DEF Next
  <2>5. [BufNext]_bufVars
    BY <1>2, Zenon DEF Next
  <2>6. [DirNext]_dirVars
    BY <1>2, Zenon DEF Next
  <2>7. [ListaNext]_listaVars
    BY <1>2, Zenon DEF Next
  <2>8. [EnlazadaNext]_enlazadaVars
    BY <1>2, Zenon DEF Next
  <2>9. [PruebaNext]_pVars
    BY <1>2, Zenon DEF Next
  <2>10. [PruebaSocketNext]_pruebaSocketVars
    BY <1>2, Zenon DEF Next
  <2>11. programa' = programa
    BY <1>2, Zenon DEF Next
  <2> QED BY <2>1, <2>2, <2>3, <2>4, <2>5, <2>6, <2>7, <2>8, <2>9, <2>10, <2>11
<1> QED BY <1>1, <1>2

\* The libraries of libevent.ws.old share their variables: each program has its own Next.
LEMMA ElViejoSuyo ==
  ASSUME [Next]_vars
  PROVE  /\ programa' = programa
         /\ programa = "cliente viejo" => [ClienteNext]_clienteVars
         /\ programa = "servidor viejo" => [ServidorNext]_servidorViejoVars
         /\ programa = "socket viejo" => [SocketNext]_socketViejoVars
         /\ programa \notin Viejos => UNCHANGED viejoVars
         /\ programa \notin Servidores => UNCHANGED servidorVars
         /\ programa \notin {"timers", "prueba timer"} => UNCHANGED timerVars
         /\ programa = "timers" => [TimerNext]_timerVars
         /\ programa = "prueba timer" => [PruebaTimerNext]_<<timerVars, pruebaTimerVars>>
         /\ programa # "prueba timer" => UNCHANGED pruebaTimerVars
<1>1. CASE UNCHANGED vars
  BY <1>1, Zenon DEF vars, viejosVars, clienteVars, servidorViejoVars, socketViejoVars
<1>2. CASE Next
  <2>1. programa' = programa
    BY <1>2, Zenon DEF Next
  <2>2. programa = "cliente viejo" => ClienteNext
    BY <1>2 DEF Next
  <2>3. programa = "servidor viejo" => ServidorNext
    BY <1>2 DEF Next
  <2>4. programa = "socket viejo" => SocketNext
    BY <1>2 DEF Next
  <2>5. programa \notin Viejos => UNCHANGED viejoVars
    BY <1>2, Zenon DEF Next
  <2>6. programa \notin Servidores => UNCHANGED servidorVars
    BY <1>2, Zenon DEF Next
  <2>7. programa \notin {"timers", "prueba timer"} => UNCHANGED timerVars
    BY <1>2, Zenon DEF Next
  <2>8. programa = "timers" => TimerNext
    BY <1>2 DEF Next
  <2>9. programa = "prueba timer" => PruebaTimerNext
    BY <1>2 DEF Next
  <2>10. programa # "prueba timer" => UNCHANGED pruebaTimerVars
    BY <1>2, Zenon DEF Next
  <2> QED BY <2>1, <2>2, <2>3, <2>4, <2>5, <2>6, <2>7, <2>8, <2>9, <2>10
<1> QED BY <1>1, <1>2

\* A walk of zlLista1 sees all that was put in the list, and the linked list can be walked
\* both ways, whatever program runs.
THEOREM ListsStayRight == Spec => []ListsAreRight
<1>1. Init => ListaInv /\ EnlazadaInv
  BY EnlazadaEmpieza, EmptySeq DEF Init, ListaInit, ListaInv
<1>2. [Next]_vars => [ListaNext]_listaVars /\ [EnlazadaNext]_enlazadaVars
  BY CadaUnoLoSuyo
<1>3. ListaInv /\ EnlazadaInv => ListsAreRight
  BY ListaEnOrden, EnlazadaSeRecorre DEF ListsAreRight
<1> QED BY <1>1, <1>2, <1>3, ListaInvPaso, EnlazadaInvPaso, PTL DEF Spec

\* A walk of zlDir answers the files that nobody touches, and the check digits of zlEan13
\* find damage out, whatever program runs.
THEOREM DirectoriesAndCodesAreRight == Spec => [](UntouchedAreListed /\ DamageIsSeen)
<1>1. Init => DirInv /\ EanInv
  BY DirEmpieza, EanAssumption DEF Init, EanInit, EanInv
<1>2. [Next]_vars => [DirNext]_dirVars /\ [EanNext]_eanVars
  BY CadaUnoLoSuyo
<1>3. DirInv => UntouchedAreListed
  BY DEF DirInv
<1> QED BY <1>1, <1>2, <1>3, DirInvPaso, EanInvPaso, EanDecide, PTL DEF Spec

\* The fields and the separators make the text, whatever program runs.
THEOREM FieldsMakeTheTextAlways == Spec => []FieldsMakeTheText
<1>1. Init => BufInv
  <2> SUFFICES ASSUME Init PROVE BufInv
    OBVIOUS
  <2>1. BufInit
    BY DEF Init
  <2> QED BY <2>1, BufEmpieza
<1>2. [Next]_vars => [BufNext]_bufVars
  BY CadaUnoLoSuyo
<1> QED BY <1>1, <1>2, BufInvPaso, CamposHacenTexto, PTL DEF Spec

\* Whatever program runs, and however often and in what order the functions of zlTimer
\* are called: the date of some days ago is that of the calendar when the clocks have not
\* been changed since, the month before is the one before, a field of now is that of now
\* the first time it is asked of a struct, and the time of a date is its time in winter.
THEOREM DatesStayRight == Spec => []DatesAreRight
<1>1. Init => FechaInv
  BY FechaEmpieza DEF Init
<1>2. [Next]_vars => [FechaNext]_fechaVars
  BY CadaUnoLoSuyo
<1>3. FechaInv => DatesAreRight
  BY DEF FechaInv, DatesAreRight
<1> QED BY <1>1, <1>2, <1>3, FechaInvPaso, PTL DEF Spec

\* Whatever string is validated, line cleaned and padded, or file read: an address is told
\* from what is not one, nothing is lost but spaces, and no byte of the file is missing.
THEOREM AnswersStayRight == Spec => []AnswersAreRight
<1>1. Init => FunInv
  BY FunEmpieza DEF Init
<1>2. [Next]_vars => [FunNext]_funVars
  BY CadaUnoLoSuyo
<1>3. FunInv => AnswersAreRight
  BY DEF FunInv
<1> QED BY <1>1, <1>2, <1>3, FunInvPaso, PTL DEF Spec

\* And zlTimerTimedOut says that a timer is out once its time has passed, and not while a
\* millisecond or more is left.
THEOREM TimersAreOutInTime == Spec => OutInTime
<1>1. Init => TempInv
  BY TempEmpieza DEF Init
<1>2. [Next]_vars => [TempNext]_tempVars
  BY CadaUnoLoSuyo
<1>3. ASSUME TempInv, [TempNext]_tempVars
      PROVE  [TimedOut => /\ Timeout # Nunca /\ Queda <= 0 => vencido'
                          /\ vencido' => Timeout # Nunca /\ Queda < UMILI]_tempVars
  <2> SUFFICES ASSUME TimedOut
               PROVE  /\ Timeout # Nunca /\ Queda <= 0 => vencido'
                      /\ vencido' => Timeout # Nunca /\ Queda < UMILI
    OBVIOUS
  <2>1. UMILI \in Nat \ {0}
    BY TempAssumption
  <2> QED BY <1>3, <2>1, VenceCuandoNoQueda
<1> QED BY <1>1, <1>2, <1>3, TempInvPaso, PTL DEF Spec, OutInTime

\* What each program of libevent.ws.old keeps, and that the others touch none of it.
ViejosInv ==
  /\ programa \in Programas
  /\ programa = "cliente viejo" => ClienteInv
  /\ programa = "servidor viejo" => ServidorInvViejo
  /\ programa = "socket viejo" => SocketInvViejo /\ LogsDeSockets
  /\ programa \in Servidores => RegistroInv
  /\ programa \notin Servidores => ~vRegistra /\ ~vPrefijo /\ vRegistro = <<>>
  /\ programa \notin Viejos => ~vUb

Cuidados == {"fin", "connect", "respuesta", "lista"}

\* ViejosInv is inductive.
LEMMA ViejosInvPaso ==
  ASSUME Cuidados \subseteq ReglasViejas, ViejosInv, [Next]_vars
  PROVE  ViejosInv'
<1> USE DEF Cuidados
<1>0. programa' = programa
  BY ElViejoSuyo
<1>1. CASE programa = "cliente viejo"
  <2>1. programa \notin Servidores /\ programa \in Viejos /\ ClienteInv
    BY <1>1 DEF Servidores, Viejos, ViejosInv
  <2>2. ClienteInv'
    <3>1. [ClienteNext]_clienteVars
      BY <1>1, ElViejoSuyo
    <3> QED BY <2>1, <3>1, ClienteInvPaso
  <2>3. UNCHANGED <<vRegistra, vPrefijo, vRegistro>>
    BY <2>1, ElViejoSuyo DEF servidorVars, ajustes, registroVars
  <2> QED BY <1>0, <1>1, <2>1, <2>2, <2>3 DEF ViejosInv
<1>2. CASE programa = "servidor viejo"
  <2>1. programa \in Servidores /\ programa \in Viejos /\ ServidorInvViejo /\ RegistroInv
    BY <1>2 DEF Servidores, Viejos, ViejosInv
  <2>2. ServidorInvViejo' /\ RegistroInv'
    <3>1. [ServidorNext]_servidorViejoVars
      BY <1>2, ElViejoSuyo
    <3> QED BY <2>1, <3>1, ServidorInvPaso, ServidorRegistroPaso
  <2> QED BY <1>0, <1>2, <2>1, <2>2 DEF ViejosInv
<1>3. CASE programa = "socket viejo"
  <2>1. /\ programa \in Servidores /\ programa \in Viejos
        /\ SocketInvViejo /\ LogsDeSockets /\ RegistroInv
    BY <1>3 DEF Servidores, Viejos, ViejosInv
  <2>2. SocketInvViejo' /\ LogsDeSockets' /\ RegistroInv'
    <3>1. [SocketNext]_socketViejoVars
      BY <1>3, ElViejoSuyo
    <3> QED BY <2>1, <3>1, SocketInvPaso, SocketRegistroPaso
  <2> QED BY <1>0, <1>3, <2>1, <2>2 DEF ViejosInv
<1>4. CASE programa \notin Viejos
  <2>1. programa \notin Servidores
    BY <1>4 DEF Viejos
  <2>2. UNCHANGED <<vRegistra, vPrefijo, vRegistro, vUb>>
    BY <1>4, <2>1, ElViejoSuyo DEF servidorVars, ajustes, registroVars, viejoVars
  <2> QED BY <1>0, <1>4, <2>1, <2>2 DEF ViejosInv, Viejos, Servidores
<1> QED BY <1>1, <1>2, <1>3, <1>4 DEF Viejos, Servidores

\* Of an application that keeps the rules of the clients and of the list, whichever of the
\* three libraries of libevent.ws.old it uses: the registers are exact; and nothing that
\* was freed is used until the server is freed, and nor afterwards when that is done once
\* and with no connection left.  Two tests of the repository do not keep them: testCliente.c
\* and its like (ServerOutlivesConnections), and test1.c (FreedOnItsAnswer).
THEOREM OldLibrariesAreRight ==
  ASSUME {"fin", "connect", "respuesta", "lista"} \subseteq ReglasViejas
  PROVE  Spec => /\ []RegisterIsKept
                 /\ [](vServidor # "libre" \/ "servidor" \in ReglasViejas => OldNoUB)
<1>1. Init => ViejosInv
  <2> SUFFICES ASSUME Init PROVE ViejosInv
    OBVIOUS
  <2>1. ViejoInit /\ ClienteInit /\ RegistroInit /\ SocketInit /\ programa \in Programas
    BY DEF Init
  <2>2. /\ programa = "cliente viejo" => ClienteInv
        /\ ServidorInvViejo /\ RegistroInv /\ SocketInvViejo /\ LogsDeSockets /\ ~vUb
    <3>1. ClienteInv
      BY <2>1 DEF ViejoInit, ClienteInit, ClienteInv, ClienteTipo, EnAviso
    <3>2. ServidorInvViejo /\ ~vUb
      BY <2>1 DEF ViejoInit, RegistroInit, ServidorInvViejo, EnAviso
    <3>3. SocketInvViejo
      BY <2>1, EmptySeq DEF ViejoInit, RegistroInit, SocketInit, SocketInvViejo, VPilaInv, ListaViva
    <3>4. LogsDeSockets
      BY <2>1 DEF ViejoInit, SocketInit, LogsDeSockets
    <3> QED BY <2>1, <3>1, <3>2, <3>3, <3>4, RegistroEmpieza
  <2>3. vRegistro = <<>>
    BY <2>1 DEF RegistroInit
  <2>4. programa \notin Servidores => ~vRegistra /\ ~vPrefijo
    <3> SUFFICES ASSUME programa \notin Servidores PROVE ~vRegistra /\ ~vPrefijo
      OBVIOUS
    <3>1. vRegistra = FALSE
      BY Zenon DEF Init
    <3>2. vPrefijo \in {FALSE, vRegistra}
      BY <2>1, Zenon DEF RegistroInit
    <3> QED BY <3>1, <3>2, Zenon
  <2> QED BY <2>1, <2>2, <2>3, <2>4, Zenon DEF ViejosInv
<1>2. ViejosInv /\ [Next]_vars => ViejosInv'
  BY ViejosInvPaso DEF Cuidados
<1>3. ViejosInv => RegisterIsKept /\ (ServidorSinPerder => OldNoUB)
  <2> SUFFICES ASSUME ViejosInv PROVE RegisterIsKept /\ (ServidorSinPerder => OldNoUB)
    OBVIOUS
  <2>1. CASE programa \in Servidores
    <3>1. RegisterIsExact
      BY <2>1, RegistroExacto DEF ViejosInv
    <3>2. programa = "socket viejo" => SocketKeepsLog
      BY DEF ViejosInv, LogsDeSockets, SocketKeepsLog
    <3>3. ServidorSinPerder => ~vUb
      BY <2>1 DEF ViejosInv, Servidores, ServidorInvViejo, SocketInvViejo
    <3> QED BY <3>1, <3>2, <3>3 DEF RegisterIsKept, OldNoUB
  <2>2. CASE programa \notin Servidores
    <3>1. /\ vRegistro = <<>> /\ ~vRegistra
          /\ programa # "socket viejo"
      BY <2>2 DEF ViejosInv, Servidores
    <3>2. RegisterIsExact
      <4>1. DOMAIN vRegistro = {}
        <5>1. vRegistro = <<>>
          BY <3>1
        <5> QED BY <5>1
      <4> QED BY <3>1, <4>1 DEF RegisterIsExact
    <3>3. ~vUb
      BY <2>2 DEF ViejosInv, Viejos, Servidores, ClienteInv
    <3> QED BY <3>1, <3>2, <3>3 DEF RegisterIsKept, OldNoUB
  <2> QED BY <2>1, <2>2
<1> QED BY <1>1, <1>2, <1>3, PTL DEF Spec, ServidorSinPerder

\* The timers belong to the application or to the test.
TimersInv == /\ TimerInv
             /\ ~tMal
             /\ programa = "prueba timer" => PruebaTimerInv

\* TimersInv is inductive, and every step is one of the timers or none.
LEMMA TimersInvPaso ==
  ASSUME "libera" \in Reglas, TimersInv, [Next]_vars
  PROVE  TimersInv' /\ [TimerNext]_timerVars
<1>1. programa' = programa /\ TimerInv /\ ~tMal
  BY ElViejoSuyo DEF TimersInv
<1>2. CASE programa = "prueba timer"
  <2>1. PruebaTimerInv /\ [PruebaTimerNext]_<<timerVars, pruebaTimerVars>>
    BY <1>2, ElViejoSuyo DEF TimersInv
  <2>2. PruebaTimerInv' /\ [TimerNext]_timerVars
    BY <2>1, PruebaTimerInvPaso, PruebaUsaTimers
  <2> QED BY <2>2 DEF TimersInv, PruebaTimerInv
<1>3. CASE programa # "prueba timer"
  <2>1. [TimerNext]_timerVars
    BY <1>3, ElViejoSuyo
  <2>2. TimerInv'
    BY <1>1, <2>1, TimerInvPaso
  <2>3. tMal' = tMal
    BY <1>3, ElViejoSuyo DEF pruebaTimerVars
  <2> QED BY <1>1, <1>3, <2>1, <2>2, <2>3 DEF TimersInv
<1> QED BY <1>2, <1>3

\* The timers of zlEvtTimer, of an application that forgets the Libera timers it has
\* activated and of the tests, follow the table of zlEvtTimer.c and are not used after they
\* are freed; and the tests' assertions hold.
THEOREM TimersAreRight ==
  ASSUME "libera" \in Reglas
  PROVE  Spec => ImplementsTabla /\ [](NoUB /\ TimerTestHolds)
<1>1. Init => TimersInv /\ Tabla!Init
  <2> SUFFICES ASSUME Init PROVE TimersInv /\ Tabla!Init
    OBVIOUS
  <2>1. TimerInit /\ PruebaTimerInit
    BY DEF Init
  <2>2. Tabla!Init
    BY <2>1 DEF TimerInit, Tabla!Init, EstadoDe
  <2> QED BY <2>1, <2>2, PruebaTimerEmpieza DEF TimersInv, PruebaTimerInv
<1>2. TimersInv /\ [Next]_vars => TimersInv' /\ [TimerNext]_timerVars
  BY TimersInvPaso
<1>3. TimerInv /\ [TimerNext]_timerVars => [Tabla!Next]_([t \in Timers |-> EstadoDe(t)])
  BY TablaPaso
<1>4. TimersInv => TimerInv /\ NoUB /\ TimerTestHolds
  BY DEF TimersInv, TimerInv, NoUB, TimerTestHolds
<1> QED BY <1>1, <1>2, <1>3, <1>4, PTL DEF Spec, ImplementsTabla, Tabla!Spec

\* While their process lives no assertion of the tests of the repository fails, in any order
\* of what happens outside.  What can kill it: a signal that comes late (NobodyIsKilled) and
\* a server freed under the library (ServerOutlivesConnections).
THEOREM TestsOfRepositoryHold ==
  ASSUME "libera" \in Reglas
  PROVE  Spec => []TestsHold
<1>1. Init => PruebaInv /\ PruebaSocketInv
  <2> SUFFICES ASSUME Init PROVE PruebaInv /\ PruebaSocketInv
    OBVIOUS
  <2>1. prueba \in Empieza({"pruebas"}, Guiones) /\ PruebaInit /\ PruebaSocketInit
    BY DEF Init
  <2>2. testCierre \in Guiones
    BY DEF Guiones
  <2>3. (CHOOSE estado \in Guiones : TRUE) \in Guiones
    BY <2>2, Zenon
  <2>4. prueba \in Guiones
    BY <2>1, <2>3, Zenon DEF Empieza
  <2> QED BY <2>1, <2>4, PruebaEmpieza, PruebaSocketEmpieza
<1>2. [Next]_vars => [PruebaNext]_pVars /\ [PruebaSocketNext]_pruebaSocketVars
  BY CadaUnoLoSuyo
<1>3. PruebaInv => ServerTestsHold
  BY PruebasBien
<1>4. PruebaSocketInv => SocketTestHolds
  BY DEF PruebaSocketInv, SocketTestHolds
<1>5. ServerTestsHold /\ TimerTestHolds /\ SocketTestHolds => TestsHold
  BY DEF TestsHold
<1> QED BY <1>1, <1>2, <1>3, <1>4, <1>5, PruebaInvPaso, PruebaSocketInvPaso,
           TimersAreRight, PTL DEF Spec
=============================================================================
