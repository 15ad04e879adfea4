---------------------------- MODULE ClienteViejo ----------------------------
(***************************************************************************)
(* zlSocketClient.c and zlSocketClient1.c: clients of one connection.  The *)
(* second reads its tiempoRespuesta when CONNECT has been told, and with a *)
(* time starts a timer, which nothing stops but the end of the connection: *)
(* not the answer, and not the application that frees the client.          *)
(***************************************************************************)
EXTENDS Viejo

VARIABLES
  clientes1,         \* the clients of zlSocketClient1
  tiempoRespuesta,   \* those of them with tiempoRespuesta > 0
  timerRespuesta     \* "no", "pendiente", or "pasado" once it has gone off

respuestaVars == <<clientes1, tiempoRespuesta, timerRespuesta>>
clienteVars == <<viejoVars, respuestaVars>>

ClienteInit == /\ clientes1 = {}
               /\ tiempoRespuesta = {}
               /\ timerRespuesta = [s \in Cxs |-> "no"]

Pon(conjunto, s, esta) == IF esta THEN conjunto \cup {s} ELSE conjunto \ {s}

\* The first as zlSocketClient.c launches it, and the second, whose time may be -1.
ClienteLanza(s, es1, conTiempo) ==
  /\ ~vUb
  /\ VReserva(s, FALSE)
  /\ clientes1' = Pon(clientes1, s, es1)
  /\ tiempoRespuesta' = Pon(tiempoRespuesta, s, conTiempo)
  /\ timerRespuesta' = [timerRespuesta EXCEPT ![s] = "no"]
  /\ UNCHANGED <<vPila, vUb>>
clienteGenericLanza(s) == ClienteLanza(s, FALSE, FALSE)
clienteGeneric1Lanza(s) == \E conTiempo \in BOOLEAN : ClienteLanza(s, TRUE, conTiempo)

-----------------------------------------------------------------------------
\* Events of the loop.
clienteGenericRead_cb(s) ==
  /\ VBucle /\ vMem[s] = "vivo" /\ vConectado[s]
  /\ VAvisaYNada
  /\ UNCHANGED <<conexionVars, vUb, respuestaVars>>

\* The output is written; the application is not told.
clienteGenericWrite_cb(s) ==
  /\ VBucle /\ vConectado[s] /\ s \in vCierra
  /\ VLibera(s)
  /\ UNCHANGED <<vPila, respuestaVars>>

\* BEV_EVENT_CONNECTED
clienteGenericEvent_cbConnect(s) ==
  /\ VBucle /\ vMem[s] = "vivo" /\ ~vConectado[s]
  /\ vConectado' = [vConectado EXCEPT ![s] = TRUE]
  /\ VAvisa("CONNECT", s)
  /\ UNCHANGED <<vMem, vCierra, vUb, respuestaVars>>

\* BEV_EVENT_ERROR or BEV_EVENT_EOF, of the first.
clienteGenericEvent_cbFin(s) ==
  /\ VBucle /\ vMem[s] = "vivo" /\ s \notin clientes1
  /\ VAvisa("FIN", s)
  /\ UNCHANGED <<conexionVars, vUb, respuestaVars>>

\* Mutant of clienteGeneric1Event_cbFin: the timer is left to itself.
Event_cbFinSinTimer(s) ==
  /\ VBucle /\ vMem[s] = "vivo" /\ s \in clientes1
  /\ VAvisa("FIN", s)
  /\ UNCHANGED <<conexionVars, vUb, respuestaVars>>

\* Of the second: its timer goes first, if it is there.
clienteGeneric1Event_cbFin(s) ==
  /\ VBucle /\ vMem[s] = "vivo" /\ s \in clientes1
  /\ timerRespuesta' =
       [timerRespuesta EXCEPT ![s] = IF @ = "pendiente" THEN "no" ELSE @]
  /\ VAvisa("FIN", s)
  /\ UNCHANGED <<conexionVars, vUb, clientes1, tiempoRespuesta>>

\* The timer is an event of the base: it goes off whether the client is there or not.
clienteGeneric1TimerRespuesta_cb(s) ==
  /\ VBucle /\ timerRespuesta[s] = "pendiente"
  /\ IF vMem[s] = "vivo"
     THEN VAvisaYNada /\ UNCHANGED vUb
     ELSE vUb' = TRUE /\ UNCHANGED vPila
  /\ timerRespuesta' = [timerRespuesta EXCEPT ![s] = "pasado"]
  /\ UNCHANGED <<conexionVars, clientes1, tiempoRespuesta>>

-----------------------------------------------------------------------------
\* The callbacks return.

\* Back from CONNECT the first library does nothing...
clienteGenericVuelveConnect ==
  /\ VuelveDe("CONNECT") /\ VCima.s \notin clientes1
  /\ vPila' = VResto
  /\ UNCHANGED <<conexionVars, vUb, respuestaVars>>

\* ...and the second reads the client, whatever its time, to see whether a timer is to
\* be started.
clienteGeneric1VuelveConnect ==
  /\ VuelveDe("CONNECT") /\ VCima.s \in clientes1
  /\ vPila' = VResto
  /\ vUb' = (vMem[VCima.s] = "libre")
  /\ timerRespuesta' =
       [timerRespuesta EXCEPT ![VCima.s] = IF VCima.s \in tiempoRespuesta THEN "pendiente" ELSE @]
  /\ UNCHANGED <<conexionVars, clientes1, tiempoRespuesta>>

\* Mutant of ClienteVuelveFin: the client is left to the application.
VuelveFinNoLibera ==
  /\ VuelveDe("FIN")
  /\ vPila' = VResto
  /\ UNCHANGED <<conexionVars, vUb, respuestaVars>>

ClienteVuelveFin ==
  /\ VuelveDe("FIN")
  /\ VLibera(VCima.s)
  /\ vPila' = VResto
  /\ UNCHANGED respuestaVars

ClienteVuelve == VVuelveYNada /\ UNCHANGED respuestaVars

-----------------------------------------------------------------------------
\* Calls of the application.

\* clienteGenericWriteCommand is the call with cierra = FALSE, and takes back what an
\* earlier call asked for.
clienteGenericWriteCommandCierre(s, cierra) ==
  /\ Escribible(s)
  /\ "respuesta" \in ReglasViejas /\ cierra /\ s \in tiempoRespuesta
       => timerRespuesta[s] = "pasado"
  /\ vCierra' = IF cierra THEN vCierra \cup {s} ELSE vCierra \ {s}
  /\ UNCHANGED <<vMem, vConectado, vPila, vUb, respuestaVars>>

clienteGenericFree(s) ==
  /\ Escribible(s)
  /\ "fin" \in ReglasViejas => ~VAvisando("FIN", s)
  /\ "connect" \in ReglasViejas => ~(s \in clientes1 /\ VAvisando("CONNECT", s))
  /\ "respuesta" \in ReglasViejas => timerRespuesta[s] # "pendiente"
  /\ VLibera(s)
  /\ UNCHANGED <<vPila, respuestaVars>>

ClienteNext ==
  \/ \E s \in Cxs : \/ clienteGenericLanza(s) \/ clienteGeneric1Lanza(s)
                    \/ clienteGenericRead_cb(s) \/ clienteGenericWrite_cb(s)
                    \/ clienteGenericEvent_cbConnect(s)
                    \/ clienteGenericEvent_cbFin(s) \/ clienteGeneric1Event_cbFin(s)
                    \/ clienteGeneric1TimerRespuesta_cb(s)
                    \/ \E cierra \in BOOLEAN : clienteGenericWriteCommandCierre(s, cierra)
                    \/ clienteGenericFree(s)
  \/ clienteGenericVuelveConnect \/ clienteGeneric1VuelveConnect
  \/ ClienteVuelveFin
  \/ ClienteVuelve

\* What the loop does with a client that is to be closed, and the returns.
ClienteSale(s) == \/ clienteGenericWrite_cb(s)
                  \/ clienteGenericEvent_cbFin(s) \/ clienteGeneric1Event_cbFin(s)
ClienteVuelven == \/ clienteGenericVuelveConnect \/ clienteGeneric1VuelveConnect
                  \/ ClienteVuelveFin \/ ClienteVuelve

\* The loop comes round to every event that is on, and the other end of a connection
\* reads what is written or goes away; callbacks return.
ClienteFairness == /\ \A s \in Cxs : SF_clienteVars(ClienteSale(s))
                   /\ WF_clienteVars(ClienteVuelven)

ClienteSpec == ViejoInit /\ ClienteInit /\ [][ClienteNext]_clienteVars /\ ClienteFairness

-----------------------------------------------------------------------------
\* An application may free its client when it is told of DATOS, as test1.c does on the
\* last line of the answer with its second of answer time still running, and nothing
\* that was freed is used.  (It is: the timer goes off and tells of the client.)
FreedOnItsAnswer == ~vUb
=============================================================================
