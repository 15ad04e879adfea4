--------------------------- MODULE EvtClientProofs ---------------------------
(***************************************************************************)
(* The theorems about the client: its list is exactly its connections, for *)
(* any finite number of sockets, any timers and any depth of callbacks.    *)
(***************************************************************************)
EXTENDS EvtClient, ConexionesProofs

-----------------------------------------------------------------------------
\* A connection that is opened, in any callback, enters the list at its canal.
LEMMA CommandConnectSegura ==
  ASSUME IsFiniteSet(Sockets), ClientInv, NEW s \in Sockets, zlEvtClientCommandConnect(s)
  PROVE  ClientInv' /\ UnaConexion
<1> DEFINE pos == zlListapFirstItemFree(conexiones)
<1>1. /\ Reserva(s, FALSE, pos, TimersNuevos)
      /\ cancel_cb' = [cancel_cb EXCEPT ![s] = TRUE]
      /\ conexiones' = zlListapUpdateOrAppendPos(conexiones, s, pos)
      /\ UNCHANGED <<pila, ub>>
  BY DEF zlEvtClientCommandConnect, zlListapUpdateOrAppend
<1>2. ConInv /\ SocketInv /\ TypeOK /\ s \notin Registrados
  BY <1>1 DEF ClientInv, ConInv, SocketInv, Reserva, Registrados
<1>3. /\ pos \in Huecos(conexiones) \cup {Num(conexiones)}
      /\ pos \in Nat
      /\ pos < Cardinality(Sockets)
  BY <1>2, ConCabe
<1> HIDE DEF pos
<1>4. SocketInv'
  BY <1>1, <1>2, <1>3, TimersTipo, ReservaSegura DEF TypeOK
<1>5. /\ mem'[s] = "vivo" /\ canal'[s] = pos /\ cancel_cb'[s]
      /\ \A r \in Sockets : r # s => /\ mem'[r] = mem[r]
                                     /\ canal'[r] = canal[r]
                                     /\ cancel_cb'[r] = cancel_cb[r]
  BY <1>1, <1>2 DEF Reserva, TypeOK
<1>6. \A r \in Sockets : ~ Abriendo(r) /\ ~ Abriendo(r)'
  BY <1>1 DEF ClientInv, Abriendo, EnMarco
<1>7. \A r \in Sockets : EnMarco({"Disconect"}, {"DISCONNECT"}, r)'
                           => EnMarco({"Disconect"}, {"DISCONNECT"}, r) /\ r # s
  BY <1>1 DEF EnMarco, Reserva
<1>8. ConInv' /\ UnaConexion
  BY <1>1, <1>2, <1>3, <1>4, <1>5, <1>6, <1>7, ConEntra
<1> QED BY <1>6, <1>8 DEF ClientInv

\* What one step of a client does.
LEMMA ClientPaso ==
  ASSUME IsFiniteSet(Sockets), {"cerrando", "gastado"} \subseteq Reglas,
         ClientInv, [ClientNext]_conVars
  PROVE  ClientInv' /\ UnaConexion
<1>1. ConInv /\ \A s \in Sockets : ~ Abriendo(s)
  BY DEF ClientInv
<1>2. CASE ConBucle
  BY <1>1, <1>2, ConBucleSegura, MismosAbriendo DEF ClientInv
<1>3. CASE ConVuelve
  BY <1>1, <1>3, ConVuelveSegura, MismosAbriendo DEF ClientInv
<1>4. CASE ConLlamadas
  BY <1>1, <1>4, ConLlamadasSegura, MismosAbriendo DEF ClientInv
<1>5. ASSUME NEW s \in Sockets, zlEvtClientCommandConnect(s)
      PROVE  ClientInv' /\ UnaConexion
  BY <1>5, CommandConnectSegura
<1>6. CASE UNCHANGED conVars
  <2>1. UNCHANGED <<mem, isConnected, canal, cancel_cb, timer, salida, closeOnWrite, pila, ub, conexiones>>
    BY <1>6 DEF conVars, vars, socketVars
  <2>2. /\ MismosMarcos
        /\ \A r \in Sockets : EnMarco({"Disconect"}, {"DISCONNECT"}, r)'
                                => EnMarco({"Disconect"}, {"DISCONNECT"}, r)
    BY <2>1 DEF MismosMarcos, EnMarco
  <2>3. SocketInv'
    BY <1>1, <2>1 DEF ConInv, SocketInv, TypeOK, NoUB, TimersDieWithSocket, ClosingIsAlive,
                      SoloDisconectEncima, Cerrando, EnMarco
  <2> QED BY <1>1, <2>1, <2>2, <2>3, ConSinCambio, MismosAbriendo DEF ClientInv
<1> QED BY <1>2, <1>3, <1>4, <1>5, <1>6 DEF ClientNext

\* ClientInv holds all along, for an application that keeps the two rules that
\* matter to a client.
THEOREM ClientInvariant ==
  ASSUME IsFiniteSet(Sockets), {"cerrando", "gastado"} \subseteq Reglas
  PROVE  ClientSpec => []ClientInv
<1>1. ConInit => ClientInv
  BY ConInitSegura DEF ClientInv
<1>2. ClientInv /\ [ClientNext]_conVars => ClientInv'
  BY ClientPaso
<1> QED BY <1>1, <1>2, PTL DEF ClientSpec

\* The variables of a client keep their types, and numActivos is the number of
\* pointers in its list.
THEOREM ClientTypeCorrect ==
  ASSUME IsFiniteSet(Sockets), {"cerrando", "gastado"} \subseteq Reglas
  PROVE  ClientSpec => []ConTypeOK
<1>1. ClientInv => ConTypeOK
  BY DEF ClientInv, ConInv, SocketInv, ConTypeOK
<1> QED BY <1>1, ClientInvariant, PTL

\* A client never uses a socket or a timer that is gone.
THEOREM ClientNoUB ==
  ASSUME IsFiniteSet(Sockets), {"cerrando", "gastado"} \subseteq Reglas
  PROVE  ClientSpec => []NoUB
<1>1. ClientInv => NoUB
  BY DEF ClientInv, ConInv, SocketInv
<1> QED BY <1>1, ClientInvariant, PTL

\* The list of a client is exactly its connections, each at its canal, although
\* connections are opened and freed inside the callbacks of others.
THEOREM ClientCanales ==
  ASSUME IsFiniteSet(Sockets), {"cerrando", "gastado"} \subseteq Reglas
  PROVE  ClientSpec => []CanalesExact
<1>1. ClientInv => CanalesExact
  BY DEF ClientInv, ConInv
<1> QED BY <1>1, ClientInvariant, PTL

\* zlEvtSocketClientNumConexiones is right in whatever callback it is called.
THEOREM ClientNumConexiones ==
  ASSUME IsFiniteSet(Sockets), {"cerrando", "gastado"} \subseteq Reglas
  PROVE  ClientSpec => []NumConexionesExact
<1>1. ClientInv => NumConexionesExact
  BY ConNum DEF ClientInv
<1> QED BY <1>1, ClientInvariant, PTL

\* DISCONNECT is told when the socket is out of memory and out of the list.
THEOREM ClientDisconnect ==
  ASSUME IsFiniteSet(Sockets), {"cerrando", "gastado"} \subseteq Reglas
  PROVE  ClientSpec => []DisconnectAfterFree
<1>1. ClientInv => DisconnectAfterFree
  BY ConDisconnect DEF ClientInv
<1> QED BY <1>1, ClientInvariant, PTL

\* The array does not grow with the connections made, only with those open at once.
THEOREM ClientBounded ==
  ASSUME IsFiniteSet(Sockets), {"cerrando", "gastado"} \subseteq Reglas
  PROVE  ClientSpec => []BoundedList
<1>1. ClientInv => BoundedList
  BY DEF ClientInv, ConInv
<1> QED BY <1>1, ClientInvariant, PTL

\* DISCONNECT is told of a connection exactly when it leaves the list of a client, in
\* the same step, also when it leaves inside the callback of another.
THEOREM ClientDisconnectWhenUnlisted ==
  ASSUME IsFiniteSet(Sockets), {"cerrando", "gastado"} \subseteq Reglas
  PROVE  ClientSpec => DisconnectWhenUnlisted
<1> DEFINE A == \A s \in Sockets :
                   s \in Registrados /\ mem'[s] = "libre"
                     => pila' # <<>> /\ pila'[Len(pila')] = Marco("Disconect", "DISCONNECT", s)
<1>1. UnaConexion => A
  BY DEF UnaConexion, Registrados
<1>2. ClientInv /\ [ClientNext]_conVars => [A]_conVars
  BY <1>1, ClientPaso
<1> QED BY <1>2, ClientInvariant, PTL DEF ClientSpec, DisconnectWhenUnlisted

\* A client keeps the promise of Canales, although a connection can be opened and
\* take the position of another while the end of that one is being told.
THEOREM ClientKeepsChannels ==
  ASSUME IsFiniteSet(Sockets), {"cerrando", "gastado"} \subseteq Reglas
  PROVE  ClientSpec => ImplementsCanales
<1>1. ConInit => Abstracto!Init
  BY ConInitRefina
<1>2. ClientInv /\ ClientInv' /\ [ClientNext]_conVars => [Abstracto!Next]_(Abstracto!vars)
  BY ClientPaso, ConRefina DEF ClientInv
<1> QED BY <1>1, <1>2, ClientInvariant, PTL DEF ClientSpec, ImplementsCanales, Abstracto!Spec
=============================================================================
