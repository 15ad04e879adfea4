--------------------------- MODULE ServidorViejo ----------------------------
(***************************************************************************)
(* zlEvtSockSer.c, zlEvtSockSerConexionItem.c and zlEvtSockSerConexion.c,  *)
(* of zlEvtSockSer0.lib: a server whose connections point to it as long as *)
(* they live, and which keeps the register of them inside itself.          *)
(***************************************************************************)
EXTENDS RegistroViejo

servidorViejoVars == <<viejoVars, servidorVars>>

\* The server that a connection points to.
SinServidor == vServidor = "libre"

zlRegistroConexionItemFree(n) == IF n >= 0 THEN Borra(n) ELSE UNCHANGED registroVars

zlServerSocketInicia == Estado("no", "creado") /\ UNCHANGED vPila
zlServerSocketLanza == Estado("creado", "intenta") /\ UNCHANGED vPila
serverMainTimeoutBind == TimeoutBind

\* The struct goes with it; the connections are not looked at.
zlServerSocketFree ==
  /\ "servidor" \in ReglasViejas => \A s \in Cxs : vMem[s] = "libre"
  /\ LiberaListener

\* zlConexionItemCrea and, where there is a register, zlRegistroConexionAdd.
zlServerSocketAccept_cb(s) ==
  /\ VBucle /\ vServidor = "escucha"
  /\ VReserva(s, TRUE)
  /\ Entra(s)
  /\ VAvisaYNada
  /\ UNCHANGED <<vServidor, ajustes, vUb>>

\* Every callback reads the server to know whom to tell.
Evento(s) ==
  /\ VBucle /\ vMem[s] = "vivo"
  /\ vUb' = SinServidor
  /\ UNCHANGED <<vServidor, ajustes, registroVars, conexionVars>>

\* Nothing is read, nor told of what is written, once the connection is to be closed.
zlServerSocketRead_cb(s) == s \notin vCierra /\ Evento(s) /\ VAvisaYNada

zlServerSocketWrite_cb(s) == s \notin vCierra /\ Evento(s) /\ VAvisaYNada

zlServerSocketWriteClose_cb(s) == s \in vCierra /\ Evento(s) /\ VAvisa("FIN", s)

\* BEV_EVENT_EOF or BEV_EVENT_ERROR
zlServerSocketEvent_cb(s) == Evento(s) /\ VAvisa("FIN", s)

\* zlConexionItemFree, and the register of the server.
Quita(s) ==
  /\ vUb' = (vMem[s] = "libre" \/ SinServidor)
  /\ VDevuelve(s)
  /\ zlRegistroConexionItemFree(vNItem[s])
  /\ UNCHANGED <<vServidor, ajustes>>

\* Mutant of VuelveFin: the slot is not given back.
VuelveFinSinRegistro ==
  /\ VuelveDe("FIN")
  /\ vUb' = (vMem[VCima.s] = "libre" \/ SinServidor)
  /\ VDevuelve(VCima.s)
  /\ vPila' = VResto
  /\ UNCHANGED servidorVars

\* Back from close_i, of a write or of an event.
VuelveFin == /\ VuelveDe("FIN")
             /\ Quita(VCima.s)
             /\ vPila' = VResto

ServidorVuelve == VVuelveYNada /\ UNCHANGED servidorVars

-----------------------------------------------------------------------------
\* The application is not told of a connection that it closes.
zlConexionCommandClose(s) ==
  /\ Escribible(s)
  /\ "fin" \in ReglasViejas => ~VAvisando("FIN", s)
  /\ Quita(s)
  /\ UNCHANGED vPila

\* A call that asks for the close changes the callbacks for good: a later call that
\* does not ask for it takes nothing back.
zlServerSocketWriteCommand(s, cierra) ==
  /\ Escribible(s)
  /\ vCierra' = IF cierra THEN vCierra \cup {s} ELSE vCierra
  /\ UNCHANGED <<vServidor, ajustes, registroVars, vMem, vConectado, vPila, vUb>>

ServidorNext ==
  \/ zlServerSocketInicia \/ zlServerSocketLanza
  \/ serverMainTimeoutBind \/ zlServerSocketFree
  \/ \E s \in Cxs : \/ zlServerSocketAccept_cb(s)
                    \/ zlServerSocketRead_cb(s) \/ zlServerSocketWrite_cb(s)
                    \/ zlServerSocketWriteClose_cb(s) \/ zlServerSocketEvent_cb(s)
                    \/ zlConexionCommandClose(s)
                    \/ \E cierra \in BOOLEAN : zlServerSocketWriteCommand(s, cierra)
  \/ VuelveFin \/ ServidorVuelve
  \/ LogAppInit \/ LogAppClose

ServidorVuelven == VuelveFin \/ ServidorVuelve

\* As of the clients: the loop comes round to what is to be closed; callbacks return.
ServidorFairness ==
  /\ \A s \in Cxs : SF_servidorViejoVars(zlServerSocketWriteClose_cb(s))
  /\ WF_servidorViejoVars(ServidorVuelven)

ServidorSpec ==
  ViejoInit /\ RegistroInit /\ [][ServidorNext]_servidorViejoVars /\ ServidorFairness
=============================================================================
