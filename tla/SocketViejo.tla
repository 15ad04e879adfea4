---------------------------- MODULE SocketViejo -----------------------------
(***************************************************************************)
(* zlEvtSocket.c, zlEvtSocketList.c and zlEvtSocketServer.c, of            *)
(* zlEvtSocket.lib: sockets that a client or a server makes, which have    *)
(* all they need copied into them, the number of their log too, and may be *)
(* kept in a list.  The server and the list belong to the application,     *)
(* whose own log is in ServidorViejo.                                      *)
(***************************************************************************)
EXTENDS RegistroViejo

VARIABLES
  vNLog,      \* socket->nLog
  vLista      \* whether the list has its memory

socketViejoVars == <<viejoVars, servidorVars, vNLog, vLista>>

SocketInit == vNLog = [s \in Cxs |-> -1] /\ vLista = TRUE

\* Neither the server nor the sockets that are there are touched.
Iguales == UNCHANGED <<vNLog, vLista>>

zlEvtSocketServerData == /\ "lista" \in ReglasViejas => vLista
                         /\ Estado("no", "creado")
                         /\ UNCHANGED vPila /\ Iguales
zlServerSocketLanzaData == Estado("creado", "intenta") /\ UNCHANGED vPila /\ Iguales
zlEvtSocketTimeoutBind_cb == TimeoutBind /\ Iguales

\* "Las conexiones activas seguiran": they do, and no pointer says it was done.
zlEvtSocketServerFree == LiberaListener /\ Iguales

\* zlEvtSocketListAdd copies to the socket the log of its slot.
zlEvtSocketListAdd(s) ==
  /\ Entra(s)
  /\ vNLog' = [vNLog EXCEPT ![s] = IF vRegistra THEN vRegistro'[Hueco].nLog ELSE -1]

\* zlEvtSocketCreaCliente and zlEvtSocketCreaServer
Crea(s, conectado) ==
  /\ VReserva(s, conectado)
  /\ zlEvtSocketListAdd(s)
  /\ vUb' = (vRegistra /\ ~vLista)
  /\ UNCHANGED <<vServidor, ajustes, vLista>>

zlEvtSocketCreaCliente(s) ==
  /\ ~vUb
  /\ "lista" \in ReglasViejas => vLista
  /\ Crea(s, FALSE)
  /\ UNCHANGED vPila

zlEvtSocketAccept_cb(s) ==
  /\ VBucle /\ vServidor = "escucha"
  /\ Crea(s, TRUE)
  /\ VAvisaYNada

-----------------------------------------------------------------------------
\* Events of the loop.
LlegaA(s) == /\ VBucle /\ vMem[s] = "vivo"
             /\ UNCHANGED <<servidorVars, vMem, vCierra, vUb, vNLog, vLista>>

zlEvtSocketRead_cb(s) == /\ LlegaA(s) /\ vConectado[s] /\ s \notin vCierra
                         /\ VAvisaYNada /\ UNCHANGED vConectado

zlEvtSocketWrite_cb(s) == /\ LlegaA(s) /\ vConectado[s] /\ s \notin vCierra
                          /\ VAvisaYNada /\ UNCHANGED vConectado

\* zlEvtSocketCloseCommand, whoever calls it: it tells first, and frees what is left.
zlEvtSocketWriteClose_cb(s) == /\ LlegaA(s) /\ vConectado[s] /\ s \in vCierra
                               /\ VAvisa("FIN", s) /\ UNCHANGED vConectado

zlEvtSocketEvent_cbFin(s) == LlegaA(s) /\ VAvisa("FIN", s) /\ UNCHANGED vConectado

\* BEV_EVENT_CONNECTED
zlEvtSocketEvent_cbConnect(s) ==
  /\ LlegaA(s) /\ ~vConectado[s]
  /\ vConectado' = [vConectado EXCEPT ![s] = TRUE]
  /\ VAvisaYNada

\* zlEvtSocketListFreeItem: the slot keeps its log.
zlEvtSocketListFreeItem(n) == IF vRegistra THEN Borra(n) ELSE UNCHANGED registroVars

zlEvtSocketVuelveFin(s) ==
  /\ VuelveDe("FIN") /\ VCima.s = s
  /\ vUb' = (vMem[s] = "libre" \/ (vRegistra /\ ~vLista))
  /\ VDevuelve(s)
  /\ zlEvtSocketListFreeItem(vNItem[s])
  /\ vPila' = VResto
  /\ UNCHANGED <<vServidor, ajustes, vNLog, vLista>>

zlEvtSocketVuelve == VVuelveYNada /\ UNCHANGED servidorVars /\ Iguales

-----------------------------------------------------------------------------
\* Calls of the application, also in the middle of a callback.
zlEvtSocketCloseCommand(s) ==
  /\ Escribible(s)
  /\ "fin" \in ReglasViejas => ~VAvisando("FIN", s)
  /\ VAvisa("FIN", s)
  /\ UNCHANGED <<conexionVars, vUb, servidorVars>> /\ Iguales

zlEvtSocketWriteCommand(s, cierra) ==
  /\ Escribible(s)
  /\ vCierra' = IF cierra THEN vCierra \cup {s} ELSE vCierra
  /\ UNCHANGED <<vMem, vConectado, vPila, vUb, vServidor, ajustes, registroVars>> /\ Iguales

\* The memory of the list, whose count stays.
zlEvtSocketListFree ==
  /\ ~vUb /\ vLista /\ vRegistra
  /\ "lista" \in ReglasViejas => /\ \A s \in Cxs : vMem[s] = "libre"
                                 /\ vServidor \in {"no", "fallo", "libre"}
  /\ vLista' = FALSE
  /\ UNCHANGED <<viejoVars, servidorVars, vNLog>>

SocketNext ==
  \/ zlEvtSocketServerData \/ zlServerSocketLanzaData
  \/ zlEvtSocketTimeoutBind_cb \/ zlEvtSocketServerFree
  \/ \E s \in Cxs : \/ zlEvtSocketCreaCliente(s) \/ zlEvtSocketAccept_cb(s)
                    \/ zlEvtSocketRead_cb(s) \/ zlEvtSocketWrite_cb(s)
                    \/ zlEvtSocketWriteClose_cb(s) \/ zlEvtSocketEvent_cbFin(s)
                    \/ zlEvtSocketEvent_cbConnect(s)
                    \/ zlEvtSocketCloseCommand(s) \/ zlEvtSocketVuelveFin(s)
                    \/ \E cierra \in BOOLEAN : zlEvtSocketWriteCommand(s, cierra)
  \/ zlEvtSocketVuelve
  \/ zlEvtSocketListFree

SocketSale(s) == zlEvtSocketWriteClose_cb(s) \/ zlEvtSocketEvent_cbFin(s)

\* A socket that is to be closed is written or its connection fails.  Callbacks return,
\* whatever other sockets are made and closed in the middle of them.
SocketFairness ==
  /\ \A s \in Cxs : /\ SF_socketViejoVars(SocketSale(s))
                    /\ SF_socketViejoVars(zlEvtSocketVuelveFin(s))
  /\ SF_socketViejoVars(zlEvtSocketVuelve)

SocketSpec == /\ ViejoInit /\ RegistroInit /\ SocketInit
              /\ [][SocketNext]_socketViejoVars
              /\ SocketFairness

-----------------------------------------------------------------------------
\* The log that a socket writes to is that of its slot, also when the slot had another
\* socket before.
SocketKeepsLog == \A s \in Cxs : vMem[s] = "vivo" /\ vRegistra
                                   => vNLog[s] = vRegistro[vNItem[s] + 1].nLog
=============================================================================
