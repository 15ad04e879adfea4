----------------------------- MODULE Conexiones -----------------------------
(***************************************************************************)
(* What zlEvtServer.c and zlEvtClient.c have in common: an owner of        *)
(* sockets that keeps them in a zlListap, finds each at socket->canal, and *)
(* is told through cancel_cb when zlEvtSocketFree has taken one away.      *)
(***************************************************************************)
EXTENDS EvtSocket, Listap

VARIABLE conexiones     \* server->conexiones, client->conexiones

conVars == <<vars, conexiones>>

\* The variables hold what their C types allow, and the list is well formed.
ConTypeOK == TypeOK /\ EsLista(conexiones, Sockets)

ConInit == Init /\ conexiones = zlListapCrea

-----------------------------------------------------------------------------
\* Mutant of DisconectConexion: the application is told, the list is left alone.
DisconectSinLista(s) == UNCHANGED conexiones

\* cancel_cb, that is zlEvtServerDisconectConexion or zlEvtClientDisconectConexion:
\* the position is freed and the application is told DISCONNECT.  SocketFree pushes
\* the frame of that callback; this is what happens to the list before it.
DisconectConexion(s) ==
  conexiones' = IF cancel_cb[s] THEN zlListapFreeItem(conexiones, canal[s])
                                ELSE conexiones

ConSocketFree(s) == zlEvtSocketFree(s) /\ DisconectConexion(s)

ConVuelveYLibera == VuelveYLibera /\ DisconectConexion(Cima.s)

VuelveADisconect ==
  /\ VuelveA("Disconect")
  /\ pila' = Resto
  /\ UNCHANGED <<socketVars, ub, conexiones>>

\* The steps of EvtSocket in which the owner has a part, or has none.
ConVuelve == \/ VuelveSinMas /\ UNCHANGED conexiones
             \/ ConVuelveYLibera
             \/ VuelveADisconect

ConBucle == Bucle /\ UNCHANGED conexiones

ConLlamadas == \E s \in Sockets : \/ ConSocketFree(s)
                                  \/ LlamadasSinLiberar(s) /\ UNCHANGED conexiones

-----------------------------------------------------------------------------
\* The connections the owner knows of.
Registrados == {s \in Sockets : mem[s] = "vivo" /\ ~Abriendo(s)}

\* The list is exactly the connections, each at its canal, although the server
\* looks the position up before a callback that may free any other connection,
\* and the answer of zlListapUpdate is ignored.
CanalesExact ==
  /\ \A s \in Registrados : /\ canal[s] \in Posiciones(conexiones)
                            /\ zlListapItem(conexiones, canal[s]) = s
  /\ \A pos \in Ocupadas(conexiones) :
       /\ zlListapItem(conexiones, pos) \in Registrados
       /\ canal[zlListapItem(conexiones, pos)] = pos

\* zlEvtSocketServerNumConexiones and zlEvtSocketClientNumConexiones give the
\* number of connections, in whatever callback they are called.
NumConexionesExact == conexiones.numActivos = Cardinality(Registrados)

\* "al cancel_cb se entra con el socket cerrado y eliminado" (zlEvtSocketComun.c:68):
\* in DISCONNECT the socket is gone, from memory and from the list.
DisconnectAfterFree ==
  \A s \in Sockets : EnMarco({"Disconect"}, {"DISCONNECT"}, s) =>
     /\ mem[s] = "libre"
     /\ \A pos \in Posiciones(conexiones) : zlListapItem(conexiones, pos) # s

\* The array does not grow with the connections made, only with those that are
\* open at once.
BoundedList == Num(conexiones) <= Cardinality(Sockets)

\* The application is told DISCONNECT for a connection exactly when it leaves the
\* list, in the same step: by its own zlEvtSocketFree or after FIN or RECHAZADO.
DisconnectWhenUnlisted ==
  [][\A s \in Sockets :
       s \in Registrados /\ mem'[s] = "libre"
         => pila' # <<>> /\ pila'[Len(pila')] = Marco("Disconect", "DISCONNECT", s)]_conVars

\* A socket that is being told CONNECT is there, and the position that was looked up
\* for it before the callback is still a hole or the end of the list.
AbriendoEspera ==
  \A s \in Sockets : Abriendo(s) =>
     /\ mem[s] = "vivo"
     /\ canal[s] \in Huecos(conexiones) \cup {Num(conexiones)}
     /\ canal[s] < Cardinality(Sockets)

\* Whatever frees a connection will tell its owner.
CancelPuesto == \A s \in Registrados : cancel_cb[s]

DesconectadoLibre ==
  \A s \in Sockets : EnMarco({"Disconect"}, {"DISCONNECT"}, s) => mem[s] = "libre"

\* What the steps of a server and of a client preserve: CanalesExact needs the two
\* conjuncts after it, when CONNECT returns and when a connection is freed.
ConInv == /\ SocketInv
          /\ EsLista(conexiones, Sockets)
          /\ CanalesExact
          /\ AbriendoEspera
          /\ CancelPuesto
          /\ DesconectadoLibre
          /\ BoundedList

\* The list is one way of keeping channels, see Canales: what the users of a
\* server or a client are promised, through all callbacks.
Abstracto == INSTANCE Canales WITH
                Items <- Sockets,
                canalDe <- [s \in Sockets |-> PosicionDe(conexiones, s)],
                activos <- conexiones.numActivos

ImplementsCanales == Abstracto!Spec
=============================================================================
