------------------------------ MODULE EvtServer ------------------------------
(***************************************************************************)
(* zlEvtServer.c: a listening port that is bound again and again until it  *)
(* is free, the sockets it accepts, and the list (zlListap) in which each  *)
(* connection has the position socket->canal.                              *)
(*                                                                         *)
(* The library tells the application of a new connection twice: server_cb  *)
(* decides whether it is wanted, socket_cb is told CONNECT, and only when  *)
(* the second returns does the library set cancel_cb, create the timers    *)
(* and put the socket in the list, at a position it looked up before the   *)
(* callback.  The frame "ServerConnect" stands for both functions that     *)
(* wait then, zlEvtSocketServerConnect and its caller Accept_cb.           *)
(***************************************************************************)
EXTENDS Conexiones

VARIABLES
  reintenta,     \* timeoutBind > 0: a bind that failed is tried again
  servidor,      \* "no" before zlEvtServerInicia, "si", "fallo" when it gave NULL
  listener,      \* server->listener # NULL
  isBinding,     \* server->isBinding
  evTimeoutBind, \* whether the event of the next attempt is pending
  puertoLibre    \* of the system: nobody else has the port

serverVars == <<reintenta, servidor, listener, isBinding, evTimeoutBind, puertoLibre>>
allVars == <<conVars, serverVars>>

\* The variables hold what their C types allow, and the list is well formed.
ServerTypeOK ==
  /\ ConTypeOK
  /\ reintenta \in BOOLEAN
  /\ servidor \in {"no", "si", "fallo"}
  /\ listener \in BOOLEAN
  /\ isBinding \in BOOLEAN
  /\ evTimeoutBind \in BOOLEAN
  /\ puertoLibre \in BOOLEAN

ServerInit ==
  /\ ConInit
  /\ reintenta \in BOOLEAN
  /\ servidor = "no"
  /\ listener = FALSE
  /\ isBinding = FALSE
  /\ evTimeoutBind = FALSE
  /\ puertoLibre \in BOOLEAN

-----------------------------------------------------------------------------
\* Binding the port.

\* zlEvtServerBind, up to its call of server_cb(SERVER_BASIC_BIND, ...).
zlEvtServerBind ==
  \/ /\ puertoLibre
     /\ listener' = TRUE
     /\ Avisa("Bind", "BIND", NULL)
  \/ /\ ~puertoLibre /\ reintenta
     /\ Avisa("Bind", "NO_BIND", NULL)
     /\ UNCHANGED listener

\* Called once, from eventoInicia.  A bind that fails and is not to be tried
\* again frees the server and returns NULL.
zlEvtServerInicia ==
  /\ EnBucle /\ servidor = "no"
  /\ \/ zlEvtServerBind /\ servidor' = "si"
     \/ /\ ~puertoLibre /\ ~reintenta
        /\ servidor' = "fallo"
        /\ UNCHANGED <<listener, pila>>
  /\ UNCHANGED <<socketVars, ub, conexiones, reintenta, isBinding, evTimeoutBind, puertoLibre>>

zlEvtServerTimeoutBind ==
  /\ EnBucle /\ evTimeoutBind
  /\ evTimeoutBind' = FALSE
  /\ zlEvtServerBind
  /\ UNCHANGED <<socketVars, ub, reintenta, servidor, conexiones, isBinding, puertoLibre>>

\* Mutant of VuelveABind: the next attempt is not asked for.
VuelveABindSinTimer ==
  /\ VuelveA("Bind")
  /\ isBinding' = (Cima.aviso = "BIND")
  /\ pila' = Resto
  /\ UNCHANGED <<socketVars, ub, reintenta, servidor, conexiones, listener, evTimeoutBind, puertoLibre>>

\* server_cb returns to zlEvtServerBind.
VuelveABind ==
  /\ VuelveA("Bind")
  /\ IF Cima.aviso = "BIND"
     THEN isBinding' = TRUE /\ UNCHANGED evTimeoutBind
     ELSE evTimeoutBind' = TRUE /\ UNCHANGED isBinding
  /\ pila' = Resto
  /\ UNCHANGED <<socketVars, ub, reintenta, servidor, conexiones, listener, puertoLibre>>

\* Somebody else takes the port or lets it go.
CambiaPuerto ==
  /\ ~listener
  /\ puertoLibre' = ~puertoLibre
  /\ UNCHANGED <<conVars, reintenta, servidor, listener, isBinding, evTimeoutBind>>

-----------------------------------------------------------------------------
\* Connections.

\* zlEvtServerAccept_cb, up to its call of server_cb(SERVER_BASIC_CONNECT, ...).
zlEvtServerAccept_cb ==
  /\ EnBucle /\ listener
  /\ Avisa("Accept_cb", "SERVER_CONNECT", NULL)
  /\ UNCHANGED <<socketVars, ub, conexiones, serverVars>>

\* server_cb said no: the descriptor is closed.
RechazaConexion ==
  /\ VuelveA("Accept_cb")
  /\ pila' = Resto
  /\ UNCHANGED <<socketVars, ub, conexiones, serverVars>>

\* server_cb said yes: a position is looked up, and zlEvtSocketServerConnect runs
\* up to its call of socket_cb(CONNECT).  cancel_cb and the timers come later.
AceptaConexion(s) ==
  /\ VuelveA("Accept_cb")
  /\ Reserva(s, TRUE, zlListapUpdateOrAppendCheckPos(conexiones), SinTimers)
  /\ cancel_cb' = [cancel_cb EXCEPT ![s] = FALSE]
  /\ pila' = Append(Resto, Marco("ServerConnect", "CONNECT", s))
  /\ UNCHANGED <<ub, conexiones, serverVars>>

\* Mutants of VuelveAServerConnect: the position is looked up again, and canal keeps
\* the one found before the callback; cancel_cb is not set.
VuelveYBuscaOtraVez ==
  /\ VuelveA("ServerConnect") /\ mem[Cima.s] = "vivo"
  /\ cancel_cb' = [cancel_cb EXCEPT ![Cima.s] = TRUE]
  /\ TimersInicializa(Cima.s)
  /\ conexiones' = zlListapUpdateOrAppend(conexiones, Cima.s)
  /\ pila' = Resto
  /\ UNCHANGED <<mem, isConnected, canal, escritura, ub, serverVars>>
VuelveSinCancel ==
  /\ VuelveA("ServerConnect") /\ mem[Cima.s] = "vivo"
  /\ TimersInicializa(Cima.s)
  /\ conexiones' = zlListapUpdateOrAppendPos(conexiones, Cima.s, canal[Cima.s])
  /\ pila' = Resto
  /\ UNCHANGED <<mem, isConnected, canal, cancel_cb, escritura, ub, serverVars>>

\* socket_cb returns: the rest of zlEvtSocketServerConnect and of Accept_cb.
\* Nobody asks whether the application freed the socket meanwhile.
VuelveAServerConnect ==
  /\ VuelveA("ServerConnect")
  /\ LET s == Cima.s
     IN IF mem[s] = "vivo"
        THEN /\ cancel_cb' = [cancel_cb EXCEPT ![s] = TRUE]
             /\ TimersInicializa(s)
             /\ conexiones' = zlListapUpdateOrAppendPos(conexiones, s, canal[s])
             /\ pila' = Resto
             /\ UNCHANGED <<mem, isConnected, canal, escritura, ub>>
        ELSE /\ ub' = "memoria liberada"
             /\ UNCHANGED <<socketVars, pila, conexiones>>
  /\ UNCHANGED serverVars

-----------------------------------------------------------------------------
ServerVuelve == \/ VuelveABind
                \/ RechazaConexion
                \/ \E s \in Sockets : AceptaConexion(s)
                \/ VuelveAServerConnect
                \/ ConVuelve /\ UNCHANGED serverVars

ServerBucle == \/ zlEvtServerAccept_cb
               \/ zlEvtServerTimeoutBind
               \/ ConBucle /\ UNCHANGED serverVars

ServerLlamadas == \/ zlEvtServerInicia
                  \/ ConLlamadas /\ UNCHANGED serverVars

ServerNext == ServerBucle \/ ServerVuelve \/ ServerLlamadas \/ CambiaPuerto

\* The application's callbacks return, the loop runs the event of the next bind
\* when its time comes, and the application starts its server.
ServerFairness == /\ WF_allVars(ServerVuelve)
                  /\ WF_allVars(zlEvtServerTimeoutBind)
                  /\ WF_allVars(zlEvtServerInicia)

ServerSpec == ServerInit /\ [][ServerNext]_allVars /\ ServerFairness

-----------------------------------------------------------------------------
\* Between two attempts there is always a next one: unless the application is
\* being told of an attempt, a server that is up listens, or waits for
\* evTimeoutBind and does not say it is bound.
RetryPending ==
  servidor = "si" /\ ~EnMarco({"Bind"}, {"BIND", "NO_BIND"}, NULL)
    => listener = isBinding /\ evTimeoutBind = ~listener

Avisando(aviso) == EnMarco({"Bind"}, {aviso}, NULL)

\* What RetryPending needs to be preserved: where the server stands while its
\* application is being told of an attempt, and when it is not up.
BindInv ==
  /\ RetryPending
  /\ servidor # "si" \/ Avisando("BIND") \/ Avisando("NO_BIND")
       => ~isBinding /\ ~evTimeoutBind
  /\ Avisando("BIND") => servidor = "si" /\ listener
  /\ Avisando("NO_BIND") => servidor = "si" /\ ~listener
  /\ servidor # "si" => ~listener

\* What the frames of the server wait for.
AvisosDelServidor ==
  \A aviso \in Avisos, s \in Sockets \cup {NULL} :
     /\ EnMarco({"ServerConnect"}, {aviso}, s) => aviso = "CONNECT"
     /\ EnMarco({"Bind"}, {aviso}, s) => aviso \in {"BIND", "NO_BIND"}

\* What every step of a server preserves.
ServerInv == ServerTypeOK /\ ConInv /\ AvisosDelServidor /\ BindInv

\* A port that is free from some time on is bound, whoever had it before, if the
\* server is to try again.
BindsInTheEnd == <>[]puertoLibre /\ reintenta => <>[](listener /\ isBinding)


\* A live socket has its timers ("estan creados al principio",
\* zlEvtSocketComun.c:261) when the application is told CONNECT.
TimersReadyAtConnect ==
  \A s \in Sockets : Abriendo(s) => \A i \in Timers : timer[s][i] # "None"
=============================================================================
