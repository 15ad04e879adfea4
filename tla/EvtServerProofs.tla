--------------------------- MODULE EvtServerProofs ---------------------------
(***************************************************************************)
(* The theorems about the server: its list is exactly its connections and  *)
(* an attempt to bind is never forgotten, for any finite number of sockets,*)
(* any timers and any depth of callbacks.                                  *)
(***************************************************************************)
EXTENDS EvtServer, ConexionesProofs

-----------------------------------------------------------------------------
\* The frames of the server.

\* The loop tells the application of an attempt to bind or of a caller.
LEMMA EmpujaSegura ==
  ASSUME ConInv, pila = <<>>, NEW fn \in {"Accept_cb", "Bind"}, NEW aviso \in Avisos,
         Avisa(fn, aviso, NULL), UNCHANGED <<socketVars, ub, conexiones>>
  PROVE  /\ ConInv' /\ UnaConexion
         /\ Len(pila) = 0 /\ Len(pila') = 1
         /\ pila'[1] = Marco(fn, aviso, NULL)
<1> DEFINE m == Marco(fn, aviso, NULL)
<1>1. SocketInv /\ TypeOK
  BY DEF ConInv, SocketInv
<1>2. m \in Marcos /\ m.fn = fn
  BY DEF Marco, Marcos, FuncionesDeServidor
<1>3. pila' = Append(pila, m)
  BY DEF Avisa
<1> HIDE DEF m
<1>4. /\ Len(pila') = 1 /\ pila'[1] = m /\ SoloDisconectEncima'
      /\ \A s \in Sockets : ~ Cerrando(s)'
  BY <1>1, <1>2, <1>3, AvisaEnBucle
<1>5. Len(pila) = 0
  BY EmptySeq
<1>6. TypeOK'
  <2>1. pila' \in Seq(Marcos)
    BY <1>1, <1>2, <1>3, PilaAvisa DEF TypeOK
  <2> QED BY <1>1, <2>1 DEF TypeOK, socketVars
<1>7. SocketInv'
  BY <1>1, <1>4, <1>6 DEF SocketInv, NoUB, TimersDieWithSocket, ClosingIsAlive, socketVars
<1>8. \A r \in Sockets : ~ Abriendo(r) /\ ~ Abriendo(r)' /\ ~ EnMarco({"Disconect"}, {"DISCONNECT"}, r)'
  BY <1>2, <1>4, <1>5 DEF Abriendo, EnMarco
<1>9. UNCHANGED <<mem, canal, cancel_cb, conexiones>>
  BY DEF socketVars
<1> QED BY <1>4, <1>5, <1>7, <1>8, <1>9, ConSinCambio DEF m

\* The application answers.
LEMMA SacaSegura ==
  ASSUME ConInv, pila # <<>>, Cima.fn \in {"Accept_cb", "Bind"}, pila' = Resto,
         UNCHANGED <<socketVars, ub, conexiones>>
  PROVE  /\ ConInv' /\ UnaConexion
         /\ Len(pila) = 1 /\ Len(pila') = 0
         /\ pila[1] = Cima
<1>1. SocketInv /\ TypeOK /\ SoloDisconectEncima
  BY DEF ConInv, SocketInv
<1>2. Len(pila) = 1 /\ Resto = <<>> /\ Cima = pila[1]
  BY <1>1, CimaSola
<1>3. Len(pila') = 0 /\ pila' \in Seq(Marcos)
  BY <1>2, EmptySeq
<1>4. TypeOK'
  BY <1>1, <1>3 DEF TypeOK, socketVars
<1>5. SocketInv'
  BY <1>1, <1>3, <1>4 DEF SocketInv, NoUB, TimersDieWithSocket, ClosingIsAlive,
                          SoloDisconectEncima, Cerrando, EnMarco, socketVars
<1>6. \A r \in Sockets : ~ Abriendo(r) /\ ~ Abriendo(r)' /\ ~ EnMarco({"Disconect"}, {"DISCONNECT"}, r)'
  BY <1>2, <1>3 DEF Abriendo, EnMarco
<1>7. UNCHANGED <<mem, canal, cancel_cb, conexiones>>
  BY DEF socketVars
<1> QED BY <1>2, <1>3, <1>5, <1>6, <1>7, ConSinCambio

\* A caller is accepted: the new socket is not in the list yet, and the position
\* found for it is kept in canal.
LEMMA AceptaSegura ==
  ASSUME IsFiniteSet(Sockets), ConInv, NEW s \in Sockets, AceptaConexion(s)
  PROVE  /\ ConInv' /\ UnaConexion
         /\ Len(pila) = 1 /\ pila[1].fn = "Accept_cb"
         /\ Len(pila') = 1 /\ pila'[1] = Marco("ServerConnect", "CONNECT", s)
<1> DEFINE pos == zlListapFirstItemFree(conexiones)
           m == Marco("ServerConnect", "CONNECT", s)
<1>1. /\ pila # <<>> /\ Cima.fn = "Accept_cb"
      /\ Reserva(s, TRUE, pos, SinTimers)
      /\ cancel_cb' = [cancel_cb EXCEPT ![s] = FALSE]
      /\ pila' = Append(Resto, m)
      /\ UNCHANGED <<ub, conexiones>>
  BY DEF AceptaConexion, VuelveA, zlListapUpdateOrAppendCheckPos
<1>2. SocketInv /\ TypeOK /\ SoloDisconectEncima
  BY DEF ConInv, SocketInv
<1>3. Len(pila) = 1 /\ Resto = <<>> /\ Cima = pila[1]
  BY <1>1, <1>2, CimaSola
<1>4. m \in Marcos /\ m.fn = "ServerConnect" /\ m.aviso = "CONNECT" /\ m.s = s
  BY MarcoTipo DEF FuncionesDeSocket, Avisos, Marco
<1>5. Len(pila') = 1 /\ pila'[1] = m /\ pila' \in Seq(Marcos)
  <2> HIDE DEF m
  <2>1. <<>> \in Seq(Marcos) /\ Len(<<>>) = 0
    BY EmptySeq
  <2> QED BY <1>1, <1>3, <1>4, <2>1, AppendProperties
<1>6. s \notin Registrados /\ mem[s] = "libre"
  BY <1>1 DEF Reserva, Registrados
<1>7. pos \in Huecos(conexiones) \cup {Num(conexiones)} /\ pos \in Nat /\ pos < Cardinality(Sockets)
  BY <1>6, ConCabe
<1> HIDE DEF pos
<1>8. TypeOK'
  BY <1>1, <1>2, <1>5, <1>7, ReservaTipo, TimersTipo DEF TypeOK
<1>9. /\ mem'[s] = "vivo" /\ canal'[s] = pos
      /\ \A r \in Sockets : r # s => /\ mem'[r] = mem[r]
                                     /\ canal'[r] = canal[r]
                                     /\ cancel_cb'[r] = cancel_cb[r]
                                     /\ timer'[r] = timer[r]
  BY <1>1, <1>2 DEF Reserva, TypeOK
<1>10. /\ \A r \in Sockets : ~ Cerrando(r)' /\ ~ Abriendo(r)
       /\ \A r \in Sockets : Abriendo(r)' <=> r = s
       /\ \A r \in Sockets : ~ EnMarco({"Disconect"}, {"DISCONNECT"}, r)'
  BY <1>1, <1>3, <1>4, <1>5 DEF Cerrando, Abriendo, EnMarco
<1>11. SocketInv'
  <2>1. SoloDisconectEncima'
    BY <1>5 DEF SoloDisconectEncima
  <2>2. ClosingIsAlive'
    BY <1>10 DEF ClosingIsAlive
  <2>3. TimersDieWithSocket'
    BY <1>2, <1>9 DEF SocketInv, TimersDieWithSocket
  <2> QED BY <1>1, <1>2, <1>8, <2>1, <2>2, <2>3 DEF SocketInv, NoUB
<1>12. Registrados' = Registrados
  BY <1>6, <1>9, <1>10 DEF Registrados
<1>13. CanalesExact' /\ CancelPuesto'
  <2>1. \A r \in Registrados : r # s /\ canal'[r] = canal[r] /\ cancel_cb'[r] = cancel_cb[r]
    BY <1>6, <1>9 DEF Registrados
  <2> QED BY <1>1, <1>12, <2>1 DEF ConInv, CanalesExact, CancelPuesto
<1>14. AbriendoEspera' /\ DesconectadoLibre' /\ BoundedList'
  BY <1>1, <1>7, <1>9, <1>10 DEF ConInv, AbriendoEspera, DesconectadoLibre, BoundedList
<1>15. UnaConexion
  <2>1. \A r \in Registrados : canal'[r] = canal[r]
    BY <1>6, <1>9 DEF Registrados
  <2> QED BY <1>12, <2>1 DEF UnaConexion
<1> QED BY <1>1, <1>3, <1>5, <1>11, <1>13, <1>14, <1>15 DEF ConInv

\* CONNECT returns: the socket enters the list at the position that was found
\* before, whatever the application did to the other connections meanwhile.
LEMMA VuelveConnectSegura ==
  ASSUME IsFiniteSet(Sockets), ConInv, AvisosDelServidor, VuelveAServerConnect
  PROVE  /\ ConInv' /\ UnaConexion
         /\ Len(pila) = 1 /\ pila[1].fn = "ServerConnect"
         /\ Len(pila') = 0
<1> DEFINE s == Cima.s
<1>1. pila # <<>> /\ Cima.fn = "ServerConnect"
  BY DEF VuelveAServerConnect, VuelveA
<1>2. SocketInv /\ TypeOK /\ SoloDisconectEncima
  BY DEF ConInv, SocketInv
<1>3. Len(pila) = 1 /\ Resto = <<>> /\ Cima = pila[1]
  BY <1>1, <1>2, CimaSola
<1>4. Cima \in Marcos
  BY <1>1, <1>2, PilaResto DEF TypeOK
<1>5. s \in Sockets /\ Cima.aviso \in Avisos
  BY <1>1, <1>4 DEF Marcos, FuncionesDeServidor
<1>6. Cima.aviso = "CONNECT"
  <2>1. EnMarco({"ServerConnect"}, {Cima.aviso}, s)
    BY <1>1, <1>3 DEF EnMarco
  <2> QED BY <1>5, <2>1 DEF AvisosDelServidor
<1>7. Abriendo(s) /\ \A r \in Sockets : r # s => ~ Abriendo(r)
  BY <1>1, <1>3, <1>6 DEF Abriendo, EnMarco
<1>8. /\ mem[s] = "vivo"
      /\ canal[s] \in Huecos(conexiones) \cup {Num(conexiones)}
      /\ canal[s] < Cardinality(Sockets)
  BY <1>5, <1>7 DEF ConInv, AbriendoEspera
<1>9. /\ cancel_cb' = [cancel_cb EXCEPT ![s] = TRUE]
      /\ timer' = [timer EXCEPT ![s] = TimersNuevos]
      /\ conexiones' = zlListapUpdateOrAppendPos(conexiones, s, canal[s])
      /\ pila' = <<>>
      /\ UNCHANGED <<mem, isConnected, canal, salida, closeOnWrite, ub>>
  BY <1>3, <1>8 DEF VuelveAServerConnect, TimersInicializa, escritura
<1>10. Len(pila') = 0 /\ pila' \in Seq(Marcos)
  BY <1>9, EmptySeq
<1> HIDE DEF s
<1>11. TypeOK'
  BY <1>2, <1>5, <1>9, <1>10, TimersTipo DEF TypeOK
<1>12. \A r \in Sockets : /\ ~ Cerrando(r)' /\ ~ Abriendo(r)'
                          /\ ~ EnMarco({"Disconect"}, {"DISCONNECT"}, r)'
  BY <1>10 DEF Cerrando, Abriendo, EnMarco
<1>13. SocketInv'
  <2>1. TimersDieWithSocket'
    <3>1. \A r \in Sockets : mem'[r] = "libre" => mem[r] = "libre" /\ timer'[r] = timer[r]
      BY <1>2, <1>8, <1>9 DEF TypeOK
    <3> QED BY <1>2, <3>1 DEF SocketInv, TimersDieWithSocket
  <2> QED BY <1>2, <1>9, <1>10, <1>11, <1>12, <2>1
          DEF SocketInv, NoUB, ClosingIsAlive, SoloDisconectEncima
<1>14. s \notin Registrados
  BY <1>7 DEF Registrados
<1>15. /\ mem'[s] = "vivo" /\ canal'[s] = canal[s] /\ cancel_cb'[s]
       /\ \A r \in Sockets : r # s => /\ mem'[r] = mem[r]
                                      /\ canal'[r] = canal[r]
                                      /\ cancel_cb'[r] = cancel_cb[r]
                                      /\ ~ Abriendo(r)
  BY <1>2, <1>5, <1>7, <1>8, <1>9 DEF TypeOK
<1>16. ConInv' /\ UnaConexion
  BY <1>5, <1>8, <1>9, <1>12, <1>13, <1>14, <1>15, ConEntra
<1> QED BY <1>1, <1>3, <1>10, <1>16

-----------------------------------------------------------------------------
\* Binding.

\* A step of the sockets leaves the binding of the port as it is.
LEMMA BindSinCambio ==
  ASSUME AvisosDelServidor, BindInv, MismosMarcos,
         UNCHANGED <<servidor, listener, isBinding, evTimeoutBind>>
  PROVE  AvisosDelServidor' /\ BindInv'
<1>1. AvisosDelServidor'
  BY DEF AvisosDelServidor, MismosMarcos
<1>2. /\ Avisando("BIND")' <=> Avisando("BIND")
      /\ Avisando("NO_BIND")' <=> Avisando("NO_BIND")
  BY DEF MismosMarcos, Avisando, Avisos
<1>3. /\ EnMarco({"Bind"}, {"BIND", "NO_BIND"}, NULL) <=> Avisando("BIND") \/ Avisando("NO_BIND")
      /\ EnMarco({"Bind"}, {"BIND", "NO_BIND"}, NULL)' <=> Avisando("BIND")' \/ Avisando("NO_BIND")'
  BY DEF Avisando, EnMarco
<1> QED BY <1>1, <1>2, <1>3 DEF BindInv, RetryPending

\* What BindInv says when no frame of the server is on the stack.
LEMMA BindSinMarco ==
  ASSUME \A k \in 1 .. Len(pila) : pila[k].fn # "Bind"
  PROVE  BindInv <=> /\ servidor = "si" => listener = isBinding /\ evTimeoutBind = ~listener
                     /\ servidor # "si" => ~listener /\ ~isBinding /\ ~evTimeoutBind
BY DEF BindInv, RetryPending, Avisando, EnMarco

\* What it says when the application is being told of an attempt.
LEMMA BindConMarco ==
  ASSUME Len(pila) = 1, NEW aviso \in {"BIND", "NO_BIND"}, pila[1] = Marco("Bind", aviso, NULL)
  PROVE  BindInv <=> /\ servidor = "si" /\ ~isBinding /\ ~evTimeoutBind
                     /\ listener <=> aviso = "BIND"
<1>1. \A otro \in {"BIND", "NO_BIND"} : Avisando(otro) <=> otro = aviso
  BY DEF Avisando, EnMarco, Marco
<1>2. EnMarco({"Bind"}, {"BIND", "NO_BIND"}, NULL)
  BY DEF EnMarco, Marco
<1> QED BY <1>1, <1>2 DEF BindInv, RetryPending

\* An attempt to bind, from eventoInicia or when the time has come.
LEMMA IntentaSegura ==
  ASSUME ConInv, EnBucle, zlEvtServerBind, UNCHANGED <<socketVars, ub, conexiones>>,
         servidor' = "si", ~isBinding', ~evTimeoutBind', ~listener, listener \in BOOLEAN
  PROVE  ConInv' /\ AvisosDelServidor' /\ BindInv' /\ listener' \in BOOLEAN /\ UnaConexion
<1>1. pila = <<>>
  BY DEF EnBucle
<1>2. PICK aviso \in {"BIND", "NO_BIND"} :
        Avisa("Bind", aviso, NULL) /\ listener' \in BOOLEAN /\ (listener' <=> aviso = "BIND")
  <2>1. CASE listener' = TRUE /\ Avisa("Bind", "BIND", NULL)
    BY <2>1
  <2>2. CASE listener' = listener /\ Avisa("Bind", "NO_BIND", NULL)
    <3>1. listener' = FALSE
      BY <2>2
    <3> QED BY <2>2, <3>1
  <2> QED BY <2>1, <2>2, Zenon DEF zlEvtServerBind
<1>3. ConInv' /\ Len(pila') = 1 /\ pila'[1] = Marco("Bind", aviso, NULL) /\ UnaConexion
  BY <1>1, <1>2, EmpujaSegura DEF Avisos
<1>4. AvisosDelServidor'
  BY <1>3 DEF AvisosDelServidor, EnMarco, Marco
<1>5. BindInv'
  <2>1. \A otro \in {"BIND", "NO_BIND"} : Avisando(otro)' <=> otro = aviso
    BY <1>3 DEF Avisando, EnMarco, Marco
  <2>2. EnMarco({"Bind"}, {"BIND", "NO_BIND"}, NULL)'
    BY <1>3 DEF EnMarco, Marco
  <2> QED BY <1>2, <2>1, <2>2 DEF BindInv, RetryPending
<1> QED BY <1>2, <1>3, <1>4, <1>5

\* A step after which no frame of the server is left, or only that of CONNECT.
LEMMA SinBind ==
  ASSUME \A k \in 1 .. Len(pila') : pila'[k].fn = "ServerConnect" /\ pila'[k].aviso = "CONNECT",
         servidor' = "si" => listener' = isBinding' /\ evTimeoutBind' = ~listener',
         servidor' # "si" => ~listener' /\ ~isBinding' /\ ~evTimeoutBind'
  PROVE  AvisosDelServidor' /\ BindInv'
<1>1. AvisosDelServidor'
  BY DEF AvisosDelServidor, EnMarco
<1>2. BindInv'
  BY DEF BindInv, RetryPending, Avisando, EnMarco
<1> QED BY <1>1, <1>2

-----------------------------------------------------------------------------
\* The events of the loop, and the start.
LEMMA ServerBucleSegura ==
  ASSUME ServerInv, ServerBucle \/ zlEvtServerInicia
  PROVE  ServerInv' /\ UnaConexion
<1>1. ConInv /\ AvisosDelServidor /\ BindInv /\ ServerTypeOK
  BY DEF ServerInv
<1>2. pila = <<>> /\ Len(pila) = 0
  BY EmptySeq DEF ServerBucle, zlEvtServerInicia, zlEvtServerAccept_cb, zlEvtServerTimeoutBind,
     EnBucle, ConBucle, Bucle, zlEvtSocketRead_cb, zlEvtSocketWrite_cb, Event_cbConnected,
     Event_cbFin, zlEvtSocketTimer_cb
<1>3. /\ servidor = "si" => listener = isBinding /\ evTimeoutBind = ~listener
      /\ servidor # "si" => ~listener /\ ~isBinding /\ ~evTimeoutBind
  BY <1>1, <1>2, BindSinMarco
<1>4. ASSUME ConInv' PROVE ConTypeOK'
  BY <1>4 DEF ConInv, SocketInv, ConTypeOK
<1>5. CASE zlEvtServerAccept_cb
  <2>1. /\ Avisa("Accept_cb", "SERVER_CONNECT", NULL)
        /\ UNCHANGED <<socketVars, ub, conexiones>>
        /\ UNCHANGED <<reintenta, servidor, listener, isBinding, evTimeoutBind, puertoLibre>>
    BY <1>5 DEF zlEvtServerAccept_cb, serverVars
  <2>2. /\ ConInv' /\ UnaConexion /\ Len(pila') = 1
        /\ pila'[1] = Marco("Accept_cb", "SERVER_CONNECT", NULL)
    BY <1>1, <1>2, <2>1, EmpujaSegura DEF Avisos
  <2>3. MismosMarcos
    BY <1>2, <2>2, MismosNinguno DEF Marco
  <2> QED BY <1>1, <1>4, <2>1, <2>2, <2>3, BindSinCambio DEF ServerInv, ServerTypeOK
<1>6. CASE zlEvtServerTimeoutBind
  <2>1. /\ EnBucle /\ evTimeoutBind /\ zlEvtServerBind /\ evTimeoutBind' = FALSE
        /\ UNCHANGED <<socketVars, ub, conexiones>>
        /\ UNCHANGED <<reintenta, servidor, isBinding, puertoLibre>>
    BY <1>6 DEF zlEvtServerTimeoutBind
  <2>2. servidor = "si" /\ ~listener /\ ~isBinding /\ listener \in BOOLEAN
    <3>1. servidor = "si"
      BY <1>3, <2>1
    <3>2. listener = isBinding /\ evTimeoutBind = ~listener
      BY <1>3, <3>1
    <3>3. listener \in BOOLEAN /\ isBinding \in BOOLEAN /\ evTimeoutBind \in BOOLEAN
      BY <1>1 DEF ServerTypeOK
    <3> QED BY <2>1, <3>1, <3>2, <3>3
  <2>3. ConInv' /\ AvisosDelServidor' /\ BindInv' /\ listener' \in BOOLEAN /\ UnaConexion
    BY <1>1, <2>1, <2>2, IntentaSegura
  <2> QED BY <1>1, <1>4, <2>1, <2>2, <2>3 DEF ServerInv, ServerTypeOK
<1>7. CASE ConBucle /\ UNCHANGED serverVars
  <2>1. ConInv' /\ MismosMarcos /\ UnaConexion
    BY <1>1, <1>7, ConBucleSegura
  <2> QED BY <1>1, <1>4, <1>7, <2>1, BindSinCambio DEF ServerInv, ServerTypeOK, serverVars
<1>8. CASE zlEvtServerInicia
  <2>1. /\ EnBucle /\ servidor = "no"
        /\ UNCHANGED <<socketVars, ub, conexiones>>
        /\ UNCHANGED <<reintenta, isBinding, evTimeoutBind, puertoLibre>>
    BY <1>8 DEF zlEvtServerInicia
  <2>2. ~listener /\ ~isBinding /\ ~evTimeoutBind /\ listener \in BOOLEAN
    BY <1>1, <1>3, <2>1 DEF ServerTypeOK
  <2>3. CASE zlEvtServerBind /\ servidor' = "si"
    <3>1. ConInv' /\ AvisosDelServidor' /\ BindInv' /\ listener' \in BOOLEAN /\ UnaConexion
      BY <1>1, <2>1, <2>2, <2>3, IntentaSegura
    <3> QED BY <1>1, <1>4, <2>1, <2>3, <3>1 DEF ServerInv, ServerTypeOK
  <2>4. CASE servidor' = "fallo" /\ UNCHANGED <<listener, pila>>
    <3>1. /\ UNCHANGED <<mem, canal, cancel_cb, conexiones>>
          /\ MismosMarcos
          /\ \A r \in Sockets : EnMarco({"Disconect"}, {"DISCONNECT"}, r)'
                                  => EnMarco({"Disconect"}, {"DISCONNECT"}, r)
      BY <2>1, <2>4 DEF socketVars, MismosMarcos, EnMarco
    <3>2. SocketInv'
      BY <1>1, <2>1, <2>4 DEF ConInv, SocketInv, TypeOK, NoUB, TimersDieWithSocket,
         ClosingIsAlive, SoloDisconectEncima, Cerrando, EnMarco, socketVars
    <3>3. ConInv' /\ UnaConexion
      BY <1>1, <3>1, <3>2, ConSinCambio, MismosAbriendo
    <3>4. \A k \in 1 .. Len(pila') : FALSE
      BY <1>2, <2>4
    <3>5. AvisosDelServidor' /\ BindInv'
      BY <2>1, <2>2, <2>4, <3>4, SinBind
    <3> QED BY <1>1, <1>4, <2>1, <2>4, <3>3, <3>5 DEF ServerInv, ServerTypeOK
  <2> QED BY <1>8, <2>3, <2>4 DEF zlEvtServerInicia
<1> QED BY <1>5, <1>6, <1>7, <1>8 DEF ServerBucle

\* A callback returns.
LEMMA ServerVuelveSegura ==
  ASSUME IsFiniteSet(Sockets), ServerInv, ServerVuelve
  PROVE  ServerInv' /\ UnaConexion
<1>1. ConInv /\ AvisosDelServidor /\ BindInv /\ ServerTypeOK
  BY DEF ServerInv
<1>2. ASSUME ConInv' PROVE ConTypeOK'
  BY <1>2 DEF ConInv, SocketInv, ConTypeOK
<1>3. CASE VuelveABind
  <2>1. /\ pila # <<>> /\ Cima.fn = "Bind" /\ pila' = Resto
        /\ UNCHANGED <<socketVars, ub, conexiones>>
        /\ UNCHANGED <<reintenta, servidor, listener, puertoLibre>>
        /\ IF Cima.aviso = "BIND"
           THEN isBinding' = TRUE /\ evTimeoutBind' = evTimeoutBind
           ELSE evTimeoutBind' = TRUE /\ isBinding' = isBinding
    BY <1>3 DEF VuelveABind, VuelveA
  <2>2. ConInv' /\ UnaConexion /\ Len(pila) = 1 /\ Len(pila') = 0 /\ pila[1] = Cima
    BY <1>1, <2>1, SacaSegura
  <2>3. Cima \in Marcos
    BY <1>1, <2>1, PilaResto DEF ConInv, SocketInv, TypeOK
  <2>4. Cima.s = NULL /\ Cima.aviso \in Avisos /\ Cima = Marco("Bind", Cima.aviso, NULL)
    BY <2>1, <2>3 DEF Marcos, Marco, FuncionesDeSocket
  <2>5. Cima.aviso \in {"BIND", "NO_BIND"}
    <3>1. EnMarco({"Bind"}, {Cima.aviso}, NULL)
      BY <2>1, <2>2, <2>4 DEF EnMarco
    <3> QED BY <1>1, <2>4, <3>1 DEF AvisosDelServidor
  <2>6. servidor = "si" /\ ~isBinding /\ ~evTimeoutBind /\ (listener <=> Cima.aviso = "BIND")
    BY <1>1, <2>2, <2>4, <2>5, BindConMarco
  <2>7. servidor' = "si" /\ listener' = isBinding' /\ evTimeoutBind' = ~listener'
    BY <1>1, <2>1, <2>5, <2>6 DEF ServerTypeOK
  <2>8. AvisosDelServidor' /\ BindInv'
    BY <2>2, <2>7, SinBind
  <2>9. isBinding' \in BOOLEAN /\ evTimeoutBind' \in BOOLEAN
    BY <1>1, <2>1 DEF ServerTypeOK
  <2> QED BY <1>1, <1>2, <2>1, <2>2, <2>8, <2>9 DEF ServerInv, ServerTypeOK
<1>4. CASE RechazaConexion
  <2>1. /\ pila # <<>> /\ Cima.fn = "Accept_cb" /\ pila' = Resto
        /\ UNCHANGED <<socketVars, ub, conexiones>>
        /\ UNCHANGED <<reintenta, servidor, listener, isBinding, evTimeoutBind, puertoLibre>>
    BY <1>4 DEF RechazaConexion, VuelveA, serverVars
  <2>2. ConInv' /\ UnaConexion /\ Len(pila) = 1 /\ Len(pila') = 0 /\ pila[1] = Cima
    BY <1>1, <2>1, SacaSegura
  <2>3. MismosMarcos
    BY <2>1, <2>2, MismosNinguno
  <2> QED BY <1>1, <1>2, <2>1, <2>2, <2>3, BindSinCambio DEF ServerInv, ServerTypeOK
<1>5. ASSUME NEW s \in Sockets, AceptaConexion(s) PROVE ServerInv' /\ UnaConexion
  <2>1. /\ ConInv' /\ UnaConexion /\ Len(pila) = 1 /\ pila[1].fn = "Accept_cb"
        /\ Len(pila') = 1 /\ pila'[1] = Marco("ServerConnect", "CONNECT", s)
    BY <1>1, <1>5, AceptaSegura
  <2>2. UNCHANGED <<reintenta, servidor, listener, isBinding, evTimeoutBind, puertoLibre>>
    BY <1>5 DEF AceptaConexion, serverVars
  <2>3. /\ servidor = "si" => listener = isBinding /\ evTimeoutBind = ~listener
        /\ servidor # "si" => ~listener /\ ~isBinding /\ ~evTimeoutBind
    BY <1>1, <2>1, BindSinMarco
  <2>4. \A k \in 1 .. Len(pila') : pila'[k].fn = "ServerConnect" /\ pila'[k].aviso = "CONNECT"
    BY <2>1 DEF Marco
  <2>5. AvisosDelServidor' /\ BindInv'
    BY <2>2, <2>3, <2>4, SinBind
  <2> QED BY <1>1, <1>2, <2>1, <2>2, <2>5 DEF ServerInv, ServerTypeOK
<1>6. CASE VuelveAServerConnect
  <2>1. ConInv' /\ UnaConexion /\ Len(pila) = 1 /\ pila[1].fn = "ServerConnect" /\ Len(pila') = 0
    BY <1>1, <1>6, VuelveConnectSegura
  <2>2. UNCHANGED <<reintenta, servidor, listener, isBinding, evTimeoutBind, puertoLibre>>
    BY <1>6 DEF VuelveAServerConnect, serverVars
  <2>3. /\ servidor = "si" => listener = isBinding /\ evTimeoutBind = ~listener
        /\ servidor # "si" => ~listener /\ ~isBinding /\ ~evTimeoutBind
    BY <1>1, <2>1, BindSinMarco
  <2>4. AvisosDelServidor' /\ BindInv'
    BY <2>1, <2>2, <2>3, SinBind
  <2> QED BY <1>1, <1>2, <2>1, <2>2, <2>4 DEF ServerInv, ServerTypeOK
<1>7. CASE ConVuelve /\ UNCHANGED serverVars
  <2>1. ConInv' /\ MismosMarcos /\ UnaConexion
    BY <1>1, <1>7, ConVuelveSegura
  <2> QED BY <1>1, <1>2, <1>7, <2>1, BindSinCambio DEF ServerInv, ServerTypeOK, serverVars
<1> QED BY <1>3, <1>4, <1>5, <1>6, <1>7 DEF ServerVuelve

\* Every step of a server.
LEMMA ServerPaso ==
  ASSUME IsFiniteSet(Sockets), TodasLasReglas \subseteq Reglas, ServerInv, [ServerNext]_allVars
  PROVE  ServerInv' /\ UnaConexion
<1>1. ConInv /\ AvisosDelServidor /\ BindInv /\ ServerTypeOK
  BY DEF ServerInv
<1>2. CASE ConLlamadas /\ UNCHANGED serverVars
  <2>1. ConInv' /\ MismosMarcos /\ UnaConexion
    BY <1>1, <1>2, ConLlamadasSegura DEF TodasLasReglas
  <2>2. ConTypeOK'
    BY <2>1 DEF ConInv, SocketInv, ConTypeOK
  <2> QED BY <1>1, <1>2, <2>1, <2>2, BindSinCambio DEF ServerInv, ServerTypeOK, serverVars
<1>3. ASSUME UNCHANGED conVars,
             UNCHANGED <<reintenta, servidor, listener, isBinding, evTimeoutBind>>,
             puertoLibre' \in BOOLEAN
      PROVE  ServerInv' /\ UnaConexion
  <2>1. UNCHANGED <<mem, isConnected, canal, cancel_cb, timer, salida, closeOnWrite, pila, ub, conexiones>>
    BY <1>3 DEF conVars, vars, socketVars
  <2>2. /\ MismosMarcos
        /\ \A r \in Sockets : EnMarco({"Disconect"}, {"DISCONNECT"}, r)'
                                => EnMarco({"Disconect"}, {"DISCONNECT"}, r)
    BY <2>1 DEF MismosMarcos, EnMarco
  <2>3. SocketInv'
    BY <1>1, <2>1 DEF ConInv, SocketInv, TypeOK, NoUB, TimersDieWithSocket, ClosingIsAlive,
                      SoloDisconectEncima, Cerrando, EnMarco
  <2>4. ConInv' /\ ConTypeOK' /\ UnaConexion
    BY <1>1, <2>1, <2>2, <2>3, ConSinCambio, MismosAbriendo
       DEF ConInv, SocketInv, ConTypeOK
  <2> QED BY <1>1, <1>3, <2>2, <2>4, BindSinCambio DEF ServerInv, ServerTypeOK
<1>4. CASE CambiaPuerto
  BY <1>3, <1>4 DEF CambiaPuerto
<1>5. CASE UNCHANGED allVars
  BY <1>1, <1>3, <1>5 DEF allVars, serverVars, ServerTypeOK
<1> QED BY <1>2, <1>4, <1>5, ServerBucleSegura, ServerVuelveSegura
        DEF ServerNext, ServerLlamadas

\* ServerInv holds all along, for an application that keeps the three rules.
THEOREM ServerInvariant ==
  ASSUME IsFiniteSet(Sockets), TodasLasReglas \subseteq Reglas
  PROVE  ServerSpec => []ServerInv
<1>1. ServerInit => ServerInv
  <2> SUFFICES ASSUME ServerInit PROVE ServerInv
    OBVIOUS
  <2>1. ConInv
    BY ConInitSegura DEF ServerInit
  <2>2. Len(pila) = 0
    BY EmptySeq DEF ServerInit, ConInit, Init
  <2>3. AvisosDelServidor
    BY <2>2 DEF AvisosDelServidor, EnMarco
  <2>4. BindInv
    BY <2>2, BindSinMarco DEF ServerInit
  <2> QED BY <2>1, <2>3, <2>4
          DEF ServerInit, ServerInv, ServerTypeOK, ConTypeOK, ConInv, SocketInv
<1>2. ServerInv /\ [ServerNext]_allVars => ServerInv'
  BY ServerPaso
<1> QED BY <1>1, <1>2, PTL DEF ServerSpec

\* The variables of a server keep their types, and numActivos is the number of pointers
\* in its list.
THEOREM ServerTypeCorrect ==
  ASSUME IsFiniteSet(Sockets), TodasLasReglas \subseteq Reglas
  PROVE  ServerSpec => []ServerTypeOK
<1>1. ServerInv => ServerTypeOK
  BY DEF ServerInv
<1> QED BY <1>1, ServerInvariant, PTL

\* A server never uses a socket or a timer that is gone, not even when CONNECT returns.
THEOREM ServerNoUB ==
  ASSUME IsFiniteSet(Sockets), TodasLasReglas \subseteq Reglas
  PROVE  ServerSpec => []NoUB
<1>1. ServerInv => NoUB
  BY DEF ServerInv, ConInv, SocketInv
<1> QED BY <1>1, ServerInvariant, PTL

\* No timer outlives the socket of a server.
THEOREM ServerTimersGone ==
  ASSUME IsFiniteSet(Sockets), TodasLasReglas \subseteq Reglas
  PROVE  ServerSpec => []TimersDieWithSocket
<1>1. ServerInv => TimersDieWithSocket
  BY DEF ServerInv, ConInv, SocketInv
<1> QED BY <1>1, ServerInvariant, PTL

\* The list of a server is exactly its connections, each at its canal, although the
\* position is looked up before a callback that may free any other connection.
THEOREM ServerCanales ==
  ASSUME IsFiniteSet(Sockets), TodasLasReglas \subseteq Reglas
  PROVE  ServerSpec => []CanalesExact
<1>1. ServerInv => CanalesExact
  BY DEF ServerInv, ConInv
<1> QED BY <1>1, ServerInvariant, PTL

\* zlEvtSocketServerNumConexiones is right in whatever callback it is called.
THEOREM ServerNumConexiones ==
  ASSUME IsFiniteSet(Sockets), TodasLasReglas \subseteq Reglas
  PROVE  ServerSpec => []NumConexionesExact
<1>1. ServerInv => NumConexionesExact
  BY ConNum DEF ServerInv
<1> QED BY <1>1, ServerInvariant, PTL

\* DISCONNECT is told when the socket is out of memory and out of the list.
THEOREM ServerDisconnect ==
  ASSUME IsFiniteSet(Sockets), TodasLasReglas \subseteq Reglas
  PROVE  ServerSpec => []DisconnectAfterFree
<1>1. ServerInv => DisconnectAfterFree
  BY ConDisconnect DEF ServerInv
<1> QED BY <1>1, ServerInvariant, PTL

\* The array does not grow with the callers, only with those connected at once.
THEOREM ServerBounded ==
  ASSUME IsFiniteSet(Sockets), TodasLasReglas \subseteq Reglas
  PROVE  ServerSpec => []BoundedList
<1>1. ServerInv => BoundedList
  BY DEF ServerInv, ConInv
<1> QED BY <1>1, ServerInvariant, PTL

\* A server that is up listens or has its next attempt to bind pending.
THEOREM ServerRetries ==
  ASSUME IsFiniteSet(Sockets), TodasLasReglas \subseteq Reglas
  PROVE  ServerSpec => []RetryPending
<1>1. ServerInv => RetryPending
  BY DEF ServerInv, BindInv
<1> QED BY <1>1, ServerInvariant, PTL

\* DISCONNECT is told of a connection exactly when it leaves the list, in the same
\* step: by its own zlEvtSocketFree or after FIN or RECHAZADO.
THEOREM ServerDisconnectWhenUnlisted ==
  ASSUME IsFiniteSet(Sockets), TodasLasReglas \subseteq Reglas
  PROVE  ServerSpec => DisconnectWhenUnlisted
<1> DEFINE A == \A s \in Sockets :
                   s \in Registrados /\ mem'[s] = "libre"
                     => pila' # <<>> /\ pila'[Len(pila')] = Marco("Disconect", "DISCONNECT", s)
<1>1. UnaConexion => A
  <2> SUFFICES ASSUME UnaConexion, NEW s \in Sockets, s \in Registrados, mem'[s] = "libre"
               PROVE  pila' # <<>> /\ pila'[Len(pila')] = Marco("Disconect", "DISCONNECT", s)
    OBVIOUS
  <2>1. s \notin Registrados'
    BY DEF Registrados
  <2> QED BY <2>1 DEF UnaConexion
<1>2. ServerInv /\ [ServerNext]_allVars => [A]_conVars
  BY <1>1, ServerPaso
<1> QED BY <1>2, ServerInvariant, PTL DEF ServerSpec, DisconnectWhenUnlisted

\* A server keeps the promise of Canales: each connection has a channel that no other
\* has and that is below the number of sockets, keeps it while it is open, and the
\* count is the number of connections.
THEOREM ServerKeepsChannels ==
  ASSUME IsFiniteSet(Sockets), TodasLasReglas \subseteq Reglas
  PROVE  ServerSpec => ImplementsCanales
<1>1. ServerInit => Abstracto!Init
  BY ConInitRefina DEF ServerInit
<1>2. ServerInv /\ ServerInv' /\ [ServerNext]_allVars => [Abstracto!Next]_(Abstracto!vars)
  BY ServerPaso, ConRefina DEF ServerInv
<1> QED BY <1>1, <1>2, ServerInvariant, PTL DEF ServerSpec, ImplementsCanales, Abstracto!Spec
=============================================================================
