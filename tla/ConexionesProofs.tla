-------------------------- MODULE ConexionesProofs ---------------------------
(***************************************************************************)
(* Proofs about EvtSocket, sockets without an owner; and what the steps    *)
(* that a server and a client share do to ConInv.  For any number of       *)
(* sockets and of timers and any depth of callbacks.                       *)
(***************************************************************************)
EXTENDS Conexiones, ListapLemas, SequenceTheorems, TLAPS

-----------------------------------------------------------------------------
\* The call stack.

\* What is left when the innermost callback returns.
LEMMA PilaResto ==
  ASSUME pila \in Seq(Marcos), pila # <<>>
  PROVE  /\ Resto \in Seq(Marcos)
         /\ Len(Resto) = Len(pila) - 1
         /\ \A k \in 1 .. Len(pila) - 1 : Resto[k] = pila[k]
         /\ Len(pila) \in 1 .. Len(pila)
         /\ Cima \in Marcos
<1>1. Len(pila) \in Nat \ {0}
  BY EmptySeq, LenProperties
<1>2. Len(pila) \in 1 .. Len(pila)
  BY <1>1
<1>3. Cima \in Marcos
  BY <1>2, ElementOfSeq DEF Cima
<1>4. \A k \in 1 .. Len(pila) - 1 : pila[k] \in Marcos
  BY <1>1, ElementOfSeq
<1>5. Resto = [k \in 1 .. Len(pila) - 1 |-> pila[k]]
  BY <1>1, SubSeqProperties DEF Resto
<1>6. Resto \in Seq(Marcos) /\ Len(Resto) = Len(pila) - 1
  BY <1>1, <1>4, <1>5, IsASeq, LenProperties
<1> QED BY <1>2, <1>3, <1>5, <1>6

\* A call of the application.
LEMMA PilaAvisa ==
  ASSUME pila \in Seq(Marcos), NEW m \in Marcos
  PROVE  /\ Append(pila, m) \in Seq(Marcos)
         /\ Len(Append(pila, m)) = Len(pila) + 1
         /\ \A k \in 1 .. Len(pila) : Append(pila, m)[k] = pila[k]
         /\ Append(pila, m)[Len(pila) + 1] = m
BY AppendProperties, LenProperties

\* The frame of a callback about a socket.
LEMMA MarcoTipo ==
  ASSUME NEW fn \in FuncionesDeSocket, NEW aviso \in Avisos, NEW s \in Sockets
  PROVE  Marco(fn, aviso, s) \in Marcos
BY DEF Marco, Marcos

\* The frame of Event_cb is about a socket.
LEMMA CimaDeSocket ==
  ASSUME NEW m \in Marcos, m.fn = "Event_cb"
  PROVE  m.s \in Sockets
BY DEF Marcos, FuncionesDeServidor

-----------------------------------------------------------------------------
\* Type correctness, whatever the application is careful about.

\* The initial values.
LEMMA InitTipo == Init => TypeOK
<1> SUFFICES ASSUME Init PROVE TypeOK
  OBVIOUS
<1>1. pila \in Seq(Marcos)
  BY EmptySeq DEF Init
<1> QED BY <1>1 DEF Init, TypeOK, EstadosTimer

\* zlEvtSocketFree leaves well-typed variables, called over any stack.
LEMMA SocketFreeTipo ==
  ASSUME TypeOK, NEW s \in Sockets, NEW marcos \in Seq(Marcos), SocketFree(s, marcos)
  PROVE  TypeOK'
<1>1. CASE mem[s] = "vivo"
  <2>1. Append(marcos, Marco("Disconect", "DISCONNECT", s)) \in Seq(Marcos)
    BY MarcoTipo, AppendProperties DEF FuncionesDeSocket, Avisos
  <2>2. pila' = marcos \/ pila' = Append(marcos, Marco("Disconect", "DISCONNECT", s))
    BY <1>1, Zenon DEF SocketFree
  <2>3. SinTimers \in [Timers -> EstadosTimer]
    BY DEF SinTimers, EstadosTimer
  <2>4. /\ mem' = [mem EXCEPT ![s] = "libre"]
        /\ isConnected' = [isConnected EXCEPT ![s] = FALSE]
        /\ canal' = [canal EXCEPT ![s] = 0]
        /\ cancel_cb' = [cancel_cb EXCEPT ![s] = FALSE]
        /\ timer' = [timer EXCEPT ![s] = SinTimers]
        /\ salida' = [salida EXCEPT ![s] = FALSE]
        /\ closeOnWrite' = [closeOnWrite EXCEPT ![s] = FALSE]
        /\ ub' = ub
    BY <1>1, Zenon DEF SocketFree
  <2> QED BY <2>1, <2>2, <2>3, <2>4 DEF TypeOK
<1>2. CASE mem[s] # "vivo"
  BY <1>2 DEF SocketFree, TypeOK, socketVars
<1> QED BY <1>1, <1>2

\* What a call of the application pushes is a frame.
LEMMA AvisaTipo ==
  ASSUME TypeOK, NEW fn \in FuncionesDeSocket, NEW aviso \in Avisos, NEW s \in Sockets,
         Avisa(fn, aviso, s)
  PROVE  pila' \in Seq(Marcos)
BY MarcoTipo, AppendProperties DEF Avisa, TypeOK

\* malloc, memset and the first assignments give well-typed fields.
LEMMA ReservaTipo ==
  ASSUME TypeOK, NEW s \in Sockets, NEW conectado \in BOOLEAN, NEW pos \in Nat,
         NEW timers \in [Timers -> EstadosTimer], Reserva(s, conectado, pos, timers)
  PROVE  /\ mem' \in [Sockets -> {"libre", "vivo"}]
         /\ isConnected' \in [Sockets -> BOOLEAN]
         /\ canal' \in [Sockets -> Nat]
         /\ timer' \in [Sockets -> [Timers -> EstadosTimer]]
         /\ salida' \in [Sockets -> BOOLEAN]
         /\ closeOnWrite' \in [Sockets -> BOOLEAN]
BY DEF Reserva, TypeOK

\* The slots of a socket that is freed, or made.
LEMMA TimersTipo == /\ SinTimers \in [Timers -> EstadosTimer]
                    /\ TimersNuevos \in [Timers -> EstadosTimer]
BY DEF SinTimers, TimersNuevos, EstadosTimer

\* The events of the loop.
LEMMA BucleTipo == TypeOK /\ Bucle => TypeOK'
<1> SUFFICES ASSUME TypeOK, NEW s \in Sockets,
                    \/ zlEvtSocketRead_cb(s)
                    \/ zlEvtSocketWrite_cb(s)
                    \/ Event_cbConnected(s)
                    \/ Event_cbFin(s)
                    \/ \E i \in Timers : zlEvtSocketTimer_cb(s, i)
             PROVE  TypeOK'
  BY DEF Bucle
<1> USE DEF FuncionesDeSocket, Avisos
<1>1. CASE zlEvtSocketRead_cb(s)
  <2>1. pila' \in Seq(Marcos)
    BY <1>1, AvisaTipo DEF zlEvtSocketRead_cb
  <2> QED BY <1>1, <2>1 DEF zlEvtSocketRead_cb, TypeOK, socketVars
<1>2. CASE zlEvtSocketWrite_cb(s)
  <2>1. pila' \in Seq(Marcos)
    BY <1>2, AvisaTipo DEF zlEvtSocketWrite_cb
  <2> QED BY <1>2, <2>1 DEF zlEvtSocketWrite_cb, TypeOK
<1>3. CASE Event_cbConnected(s)
  <2>1. pila' \in Seq(Marcos)
    BY <1>3, AvisaTipo DEF Event_cbConnected
  <2> QED BY <1>3, <2>1 DEF Event_cbConnected, TypeOK, escritura
<1>4. CASE Event_cbFin(s)
  <2>1. (IF isConnected[s] THEN "FIN" ELSE "RECHAZADO") \in Avisos
    OBVIOUS
  <2>2. pila' \in Seq(Marcos)
    BY <1>4, <2>1, AvisaTipo DEF Event_cbFin
  <2> QED BY <1>4, <2>2 DEF Event_cbFin, TypeOK, socketVars
<1>5. CASE \E i \in Timers : zlEvtSocketTimer_cb(s, i)
  <2> PICK i \in Timers : zlEvtSocketTimer_cb(s, i)
    BY <1>5
  <2>1. CASE mem[s] = "vivo"
    <3>1. pila' \in Seq(Marcos)
      BY <2>1, AvisaTipo DEF zlEvtSocketTimer_cb
    <3>2. timer' = [timer EXCEPT ![s][i] = "None"]
      BY <2>1 DEF zlEvtSocketTimer_cb
    <3> QED BY <2>1, <3>1, <3>2 DEF zlEvtSocketTimer_cb, TypeOK, escritura, EstadosTimer
  <2>2. CASE mem[s] # "vivo"
    BY <2>2 DEF zlEvtSocketTimer_cb, TypeOK, socketVars
  <2> QED BY <2>1, <2>2
<1> QED BY <1>1, <1>2, <1>3, <1>4, <1>5

\* A callback that returns.
LEMMA VuelveTipo == TypeOK /\ Vuelve => TypeOK'
<1> SUFFICES ASSUME TypeOK, Vuelve PROVE TypeOK'
  OBVIOUS
<1>1. pila \in Seq(Marcos) /\ pila # <<>>
  BY DEF Vuelve, VuelveSinMas, VuelveYLibera, VuelveA, TypeOK
<1>2. Resto \in Seq(Marcos) /\ Cima \in Marcos
  BY <1>1, PilaResto
<1>3. CASE VuelveSinMas
  BY <1>2, <1>3 DEF VuelveSinMas, TypeOK, socketVars
<1>4. CASE VuelveYLibera
  <2>1. Cima.s \in Sockets
    BY <1>2, <1>4, CimaDeSocket DEF VuelveYLibera, VuelveA
  <2> QED BY <1>2, <1>4, <2>1, SocketFreeTipo DEF VuelveYLibera
<1> QED BY <1>3, <1>4 DEF Vuelve

\* The calls of the application.
LEMMA LlamadasTipo == TypeOK /\ Llamadas => TypeOK'
<1> SUFFICES ASSUME TypeOK, NEW s \in Sockets, zlEvtSocketFree(s) \/ LlamadasSinLiberar(s)
             PROVE  TypeOK'
  BY DEF Llamadas
<1>1. CASE zlEvtSocketFree(s)
  BY <1>1, SocketFreeTipo DEF zlEvtSocketFree, TypeOK
<1>2. ASSUME NEW i \in Timers, zlEvtSocketTimerActiva(s, i) PROVE TypeOK'
  <2>1. CASE timer[s][i] = "None"
    BY <1>2, <2>1 DEF zlEvtSocketTimerActiva, TypeOK, escritura
  <2>2. CASE timer[s][i] # "None"
    <3>1. timer' = [timer EXCEPT ![s][i] = "Activo"] /\ ub' = ub
      BY <1>2, <2>2 DEF zlEvtSocketTimerActiva
    <3> QED BY <1>2, <3>1 DEF zlEvtSocketTimerActiva, TypeOK, escritura, EstadosTimer
  <2> QED BY <2>1, <2>2
<1>3. ASSUME NEW i \in Timers, zlEvtSocketTimerDesactiva(s, i) PROVE TypeOK'
  BY <1>3 DEF zlEvtSocketTimerDesactiva, TypeOK, escritura, EstadosTimer
<1>4. ASSUME NEW cierra \in BOOLEAN, zlEvtSocketWriteCommandCierre(s, cierra) PROVE TypeOK'
  BY <1>4 DEF zlEvtSocketWriteCommandCierre, TypeOK
<1> QED BY <1>1, <1>2, <1>3, <1>4 DEF LlamadasSinLiberar

\* A new socket of a client without an owner.
LEMMA ConnectTipo ==
  ASSUME TypeOK, NEW s \in Sockets, zlEvtSocketClienteConnectBasic(s)
  PROVE  TypeOK'
<1>1. Reserva(s, FALSE, 0, TimersNuevos)
  BY DEF zlEvtSocketClienteConnectBasic
<1>2. cancel_cb' \in [Sockets -> BOOLEAN] /\ pila' = pila /\ ub' = ub
  BY DEF zlEvtSocketClienteConnectBasic, TypeOK
<1> QED BY <1>1, <1>2, TimersTipo, ReservaTipo DEF TypeOK

\* The variables of the sockets and the call stack keep their types.
THEOREM TypeCorrect == Spec => []TypeOK
<1>1. TypeOK /\ [Next]_vars => TypeOK'
  <2> SUFFICES ASSUME TypeOK, [Next]_vars PROVE TypeOK'
    OBVIOUS
  <2>1. CASE UNCHANGED vars
    BY <2>1 DEF vars, socketVars, TypeOK
  <2> QED BY <2>1, BucleTipo, VuelveTipo, LlamadasTipo, ConnectTipo DEF Next
<1> QED BY <1>1, InitTipo, PTL DEF Spec

-----------------------------------------------------------------------------
\* Safety.  The stack is one frame reported from the loop, with DISCONNECT frames
\* above it; hence the frame that frees a closed socket is the outermost one, and
\* when it goes no other frame is left that would touch the socket.

\* Nothing is allocated and nothing waits at the start.
LEMMA InitSegura == Init => SocketInv
<1> SUFFICES ASSUME Init PROVE SocketInv
  OBVIOUS
<1>1. Len(pila) = 0
  BY EmptySeq DEF Init
<1> QED BY <1>1, InitTipo DEF Init, SocketInv, NoUB, TimersDieWithSocket, ClosingIsAlive,
            SoloDisconectEncima, Cerrando, EnMarco

\* Pushing a frame on the empty stack: the only frame that can close a socket is
\* the new one.
LEMMA AvisaEnBucle ==
  ASSUME TypeOK, pila = <<>>, NEW m \in Marcos, pila' = Append(pila, m)
  PROVE  /\ Len(pila') = 1
         /\ pila'[1] = m
         /\ SoloDisconectEncima'
         /\ \A s \in Sockets : Cerrando(s)' =>
               /\ m.fn \in {"Event_cb", "ConnectYa"}
               /\ m.aviso \in {"FIN", "RECHAZADO"}
               /\ m.s = s
<1>1. Len(pila) = 0 /\ pila \in Seq(Marcos)
  BY EmptySeq DEF TypeOK
<1>2. Len(pila') = 1 /\ pila'[1] = m
  BY <1>1, PilaAvisa
<1> QED BY <1>2 DEF SoloDisconectEncima, Cerrando, EnMarco

\* The events of the loop.
LEMMA BucleSegura == SocketInv /\ Bucle => SocketInv'
<1> SUFFICES ASSUME SocketInv, NEW s \in Sockets,
                    \/ zlEvtSocketRead_cb(s)
                    \/ zlEvtSocketWrite_cb(s)
                    \/ Event_cbConnected(s)
                    \/ Event_cbFin(s)
                    \/ \E i \in Timers : zlEvtSocketTimer_cb(s, i)
             PROVE  SocketInv'
  BY DEF Bucle
<1> USE DEF FuncionesDeSocket, Avisos
<1>1. TypeOK' /\ TypeOK /\ EnBucle
  BY BucleTipo DEF SocketInv, Bucle, zlEvtSocketRead_cb, zlEvtSocketWrite_cb,
       Event_cbConnected, Event_cbFin, zlEvtSocketTimer_cb
<1>2. ASSUME NEW fn \in FuncionesDeSocket, NEW aviso \in Avisos, Avisa(fn, aviso, s),
             fn \in {"Event_cb", "ConnectYa"} /\ aviso \in {"FIN", "RECHAZADO"} => mem'[s] = "vivo",
             ub' = ub, UNCHANGED mem,
             \A r \in Sockets, i \in Timers : timer'[r][i] = "None" \/ timer'[r][i] = timer[r][i]
      PROVE  SocketInv'
  <2>1. Marco(fn, aviso, s) \in Marcos
    BY MarcoTipo
  <2>2. SoloDisconectEncima'
    BY <1>1, <1>2, <2>1, AvisaEnBucle DEF Avisa, EnBucle
  <2>3. ClosingIsAlive'
    BY <1>1, <1>2, <2>1, AvisaEnBucle DEF Avisa, EnBucle, ClosingIsAlive, Marco
  <2>4. TimersDieWithSocket'
    BY <1>2 DEF SocketInv, TimersDieWithSocket
  <2> QED BY <1>1, <1>2, <2>2, <2>3, <2>4 DEF SocketInv, NoUB
<1>3. CASE zlEvtSocketRead_cb(s)
  BY <1>2, <1>3 DEF zlEvtSocketRead_cb, socketVars
<1>4. CASE zlEvtSocketWrite_cb(s)
  BY <1>2, <1>4 DEF zlEvtSocketWrite_cb
<1>5. CASE Event_cbConnected(s)
  BY <1>2, <1>5 DEF Event_cbConnected
<1>6. CASE Event_cbFin(s)
  <2>1. (IF isConnected[s] THEN "FIN" ELSE "RECHAZADO") \in Avisos
    OBVIOUS
  <2>2. mem'[s] = "vivo"
    BY <1>6 DEF Event_cbFin, socketVars
  <2> QED BY <1>2, <1>6, <2>1, <2>2 DEF Event_cbFin, socketVars
<1>7. CASE \E i \in Timers : zlEvtSocketTimer_cb(s, i)
  <2> PICK i \in Timers : zlEvtSocketTimer_cb(s, i)
    BY <1>7
  <2>1. mem[s] = "vivo"
    BY DEF zlEvtSocketTimer_cb, SocketInv, TimersDieWithSocket, TypeOK
  <2>2. timer' = [timer EXCEPT ![s][i] = "None"] /\ UNCHANGED <<mem, ub>>
    BY <2>1 DEF zlEvtSocketTimer_cb
  <2>3. \A r \in Sockets, j \in Timers : timer'[r][j] = "None" \/ timer'[r][j] = timer[r][j]
    BY <1>1, <2>2 DEF TypeOK
  <2> QED BY <1>2, <2>1, <2>2, <2>3 DEF zlEvtSocketTimer_cb
<1> QED BY <1>3, <1>4, <1>5, <1>6, <1>7

\* Only DISCONNECT frames lie over the outermost one, so a frame of any other
\* function that is on top is alone.
LEMMA CimaSola ==
  ASSUME TypeOK, SoloDisconectEncima, pila # <<>>, Cima.fn # "Disconect"
  PROVE  Len(pila) = 1 /\ Resto = <<>> /\ Cima = pila[1]
<1>1. Len(pila) \in Nat \ {0}
  BY EmptySeq, LenProperties DEF TypeOK
<1>2. Len(pila) \notin 2 .. Len(pila)
  BY Zenon DEF Cima, SoloDisconectEncima
<1>3. Len(pila) = 1
  <2>1. \A n \in Nat \ {0} : n \notin 2 .. n => n = 1
    OBVIOUS
  <2> QED BY <1>1, <1>2, <2>1, Zenon
<1>4. Len(Resto) = Len(pila) - 1 /\ Resto \in Seq(Marcos)
  BY PilaResto DEF TypeOK
<1>5. Len(Resto) = 0
  BY <1>3, <1>4
<1>6. Resto = <<>>
  BY <1>4, <1>5, EmptySeq
<1> QED BY <1>3, <1>6 DEF Cima

\* zlEvtSocketFree of a live socket, over a stack from which no frame will close
\* it (and that is what is left of the one there was).
LEMMA SocketFreeSegura ==
  ASSUME SocketInv, TypeOK', NEW s \in Sockets, mem[s] = "vivo",
         NEW marcos \in Seq(Marcos), SocketFree(s, marcos),
         Len(marcos) <= Len(pila),
         \A k \in 1 .. Len(marcos) : marcos[k] = pila[k],
         \A k \in 1 .. Len(marcos) :
            ~(marcos[k].fn \in {"Event_cb", "ConnectYa"} /\ marcos[k].aviso \in {"FIN", "RECHAZADO"}
              /\ marcos[k].s = s)
  PROVE  SocketInv'
<1> DEFINE m == Marco("Disconect", "DISCONNECT", s)
<1>1. /\ mem' = [mem EXCEPT ![s] = "libre"]
      /\ timer' = [timer EXCEPT ![s] = SinTimers]
      /\ ub' = ub
      /\ pila' = marcos \/ pila' = Append(marcos, m)
  BY Zenon DEF SocketFree
<1>2. m \in Marcos /\ m.fn = "Disconect"
  BY MarcoTipo DEF FuncionesDeSocket, Avisos, Marco
<1>3. /\ Len(pila') \in Nat /\ Len(marcos) \in Nat /\ Len(pila) \in Nat
      /\ \A k \in 1 .. Len(pila') : \/ k \in 1 .. Len(marcos) /\ pila'[k] = pila[k]
                                    \/ pila'[k].fn = "Disconect"
  <2>1. CASE pila' = marcos
    BY <2>1, LenProperties DEF SocketInv, TypeOK
  <2>2. CASE pila' = Append(marcos, m)
    <3>1. /\ Len(pila') = Len(marcos) + 1
          /\ pila'[Len(marcos) + 1] = m
          /\ \A k \in 1 .. Len(marcos) : pila'[k] = marcos[k]
      BY <2>2, <1>2, AppendProperties, LenProperties
    <3>2. Len(marcos) \in Nat /\ Len(pila) \in Nat
      BY LenProperties DEF SocketInv, TypeOK
    <3>3. \A k \in 1 .. Len(pila') : k \in 1 .. Len(marcos) \/ k = Len(marcos) + 1
      BY <3>1, <3>2
    <3>4. ASSUME NEW k \in 1 .. Len(pila')
          PROVE  \/ k \in 1 .. Len(marcos) /\ pila'[k] = pila[k]
                 \/ pila'[k].fn = "Disconect"
      <4>1. CASE k \in 1 .. Len(marcos)
        BY <3>1, <4>1, Zenon
      <4>2. CASE k = Len(marcos) + 1
        BY <3>1, <1>2, <4>2, Zenon
      <4> QED BY <3>3, <4>1, <4>2
    <3> QED BY <3>1, <3>2, <3>4
  <2> QED BY <1>1, <2>1, <2>2
<1>4. SoloDisconectEncima'
  BY <1>3 DEF SocketInv, SoloDisconectEncima
<1>5. ClosingIsAlive'
  <2> SUFFICES ASSUME NEW r \in Sockets, NEW k \in 1 .. Len(pila'),
                      pila'[k].fn \in {"Event_cb", "ConnectYa"},
                      pila'[k].aviso \in {"FIN", "RECHAZADO"}, pila'[k].s = r
               PROVE  mem'[r] = "vivo"
    BY DEF ClosingIsAlive, Cerrando, EnMarco
  <2>1. k \in 1 .. Len(marcos) /\ pila'[k] = pila[k]
    BY <1>3
  <2>2. r # s
    BY <2>1
  <2>3. Cerrando(r)
    BY <1>3, <2>1 DEF Cerrando, EnMarco
  <2> QED BY <1>1, <2>2, <2>3 DEF SocketInv, ClosingIsAlive, TypeOK
<1>6. TimersDieWithSocket'
  <2> SUFFICES ASSUME NEW r \in Sockets, mem'[r] = "libre", NEW i \in Timers
               PROVE  timer'[r][i] = "None"
    BY Zenon DEF TimersDieWithSocket
  <2>1. mem \in [Sockets -> {"libre", "vivo"}] /\ timer \in [Sockets -> [Timers -> EstadosTimer]]
    BY DEF SocketInv, TypeOK
  <2>2. CASE r = s
    BY <1>1, <2>1, <2>2 DEF SinTimers
  <2>3. CASE r # s
    <3>1. mem[r] = "libre" /\ timer'[r] = timer[r]
      BY <1>1, <2>1, <2>3
    <3> QED BY <3>1 DEF SocketInv, TimersDieWithSocket
  <2> QED BY <2>2, <2>3
<1> QED BY <1>1, <1>4, <1>5, <1>6 DEF SocketInv, NoUB

\* When a callback returns: the library has nothing left to do, or frees the
\* socket it closed, and then the stack is empty.
LEMMA VuelveSegura == SocketInv /\ Vuelve => SocketInv'
<1> SUFFICES ASSUME SocketInv, Vuelve PROVE SocketInv'
  OBVIOUS
<1>1. TypeOK /\ TypeOK' /\ SoloDisconectEncima
  BY VuelveTipo DEF SocketInv
<1>2. pila # <<>> /\ Cima.fn # "Disconect"
  BY Zenon DEF Vuelve, VuelveSinMas, VuelveYLibera, VuelveA
<1>3. Len(pila) = 1 /\ Resto = <<>> /\ Cima = pila[1]
  BY <1>1, <1>2, CimaSola
<1>4. Len(<<>>) = 0
  BY EmptySeq
<1>5. CASE VuelveSinMas
  <2>1. pila' = <<>> /\ UNCHANGED <<mem, timer, ub>>
    BY <1>3, <1>5 DEF VuelveSinMas, socketVars
  <2>2. Len(pila') = 0
    BY <1>4, <2>1
  <2>3. SoloDisconectEncima' /\ ClosingIsAlive'
    BY <2>2 DEF SoloDisconectEncima, ClosingIsAlive, Cerrando, EnMarco
  <2> QED BY <1>1, <2>1, <2>3 DEF SocketInv, NoUB, TimersDieWithSocket
<1>6. CASE VuelveYLibera
  <2>1. /\ Cima.fn = "Event_cb"
        /\ Cima.aviso \in {"FIN", "RECHAZADO"}
        /\ SocketFree(Cima.s, Resto)
    BY <1>6, Zenon DEF VuelveYLibera, VuelveA
  <2>2. Cima.s \in Sockets
    BY <1>1, <1>2, <2>1, PilaResto, CimaDeSocket DEF TypeOK
  <2>3. Cerrando(Cima.s)
    BY <1>3, <2>1 DEF Cerrando, EnMarco
  <2>4. mem[Cima.s] = "vivo"
    BY <2>2, <2>3 DEF SocketInv, ClosingIsAlive
  <2>5. Resto \in Seq(Marcos) /\ Len(Resto) = 0
    BY <1>1, <1>2, <1>3, <1>4, PilaResto DEF TypeOK
  <2>6. Len(Resto) <= Len(pila) /\ \A k \in 1 .. Len(Resto) : FALSE
    BY <1>3, <2>5
  <2> QED BY <1>1, <2>1, <2>2, <2>4, <2>5, <2>6, SocketFreeSegura, Zenon
<1> QED BY <1>5, <1>6 DEF Vuelve

\* The calls of the application, when it keeps two of the rules: it does not free a
\* socket that is being closed, nor activate a timer that has gone off.
LEMMA LlamadasSegura ==
  ASSUME {"cerrando", "gastado"} \subseteq Reglas, SocketInv, Llamadas
  PROVE  SocketInv'
<1> SUFFICES ASSUME NEW s \in Sockets, zlEvtSocketFree(s) \/ LlamadasSinLiberar(s)
             PROVE  SocketInv'
  BY DEF Llamadas
<1>1. TypeOK /\ TypeOK'
  BY LlamadasTipo DEF SocketInv, Llamadas
<1>2. CASE zlEvtSocketFree(s)
  <2>1. mem[s] = "vivo" /\ ~Cerrando(s) /\ SocketFree(s, pila)
    BY <1>2 DEF zlEvtSocketFree
  <2>2. pila \in Seq(Marcos) /\ Len(pila) \in Nat
    BY <1>1, LenProperties DEF TypeOK
  <2> QED BY <1>1, <2>1, <2>2, SocketFreeSegura DEF Cerrando, EnMarco
<1>3. ASSUME UNCHANGED <<mem, pila, ub>>,
             \A r \in Sockets, i \in Timers :
               mem[r] = "libre" => timer'[r][i] = timer[r][i]
      PROVE  SocketInv'
  <2>1. SoloDisconectEncima' /\ ClosingIsAlive' /\ NoUB'
    BY <1>3 DEF SocketInv, SoloDisconectEncima, ClosingIsAlive, Cerrando, EnMarco, NoUB
  <2>2. TimersDieWithSocket'
    BY <1>3 DEF SocketInv, TimersDieWithSocket
  <2> QED BY <1>1, <2>1, <2>2 DEF SocketInv
<1>4. ASSUME NEW i \in Timers, zlEvtSocketTimerActiva(s, i) PROVE SocketInv'
  <2>1. mem[s] = "vivo" /\ timer[s][i] # "None" /\ UNCHANGED <<mem, pila>>
    BY <1>4 DEF zlEvtSocketTimerActiva
  <2>2. timer' = [timer EXCEPT ![s][i] = "Activo"] /\ UNCHANGED ub
    BY <1>4, <2>1 DEF zlEvtSocketTimerActiva
  <2> QED BY <1>1, <1>3, <2>1, <2>2 DEF TypeOK
<1>5. ASSUME NEW i \in Timers, zlEvtSocketTimerDesactiva(s, i) PROVE SocketInv'
  BY <1>1, <1>3, <1>5 DEF zlEvtSocketTimerDesactiva, TypeOK
<1>6. ASSUME NEW cierra \in BOOLEAN, zlEvtSocketWriteCommandCierre(s, cierra) PROVE SocketInv'
  BY <1>3, <1>6 DEF zlEvtSocketWriteCommandCierre
<1> QED BY <1>2, <1>4, <1>5, <1>6 DEF LlamadasSinLiberar

\* A new socket, of any owner: no frame names it yet.
LEMMA ReservaSegura ==
  ASSUME SocketInv, NEW s \in Sockets, NEW conectado \in BOOLEAN, NEW pos \in Nat,
         NEW timers \in [Timers -> EstadosTimer], Reserva(s, conectado, pos, timers),
         cancel_cb' \in [Sockets -> BOOLEAN], pila' = pila, ub' = ub
  PROVE  SocketInv'
<1>1. TypeOK /\ TypeOK'
  BY ReservaTipo DEF SocketInv, TypeOK
<1>2. /\ mem' = [mem EXCEPT ![s] = "vivo"]
      /\ timer' = [timer EXCEPT ![s] = timers]
  BY DEF Reserva
<1>3. SoloDisconectEncima' /\ NoUB'
  BY DEF SocketInv, SoloDisconectEncima, NoUB
<1>4. ClosingIsAlive'
  <2>1. \A r \in Sockets : Cerrando(r)' => Cerrando(r)
    BY DEF Cerrando, EnMarco
  <2>2. \A r \in Sockets : mem[r] = "vivo" => mem'[r] = "vivo"
    BY <1>1, <1>2 DEF TypeOK
  <2> QED BY <2>1, <2>2 DEF SocketInv, ClosingIsAlive
<1>5. TimersDieWithSocket'
  <2>1. \A r \in Sockets : mem'[r] = "libre" => mem[r] = "libre" /\ timer'[r] = timer[r]
    BY <1>1, <1>2 DEF TypeOK
  <2> QED BY <2>1 DEF SocketInv, TimersDieWithSocket
<1> QED BY <1>1, <1>3, <1>4, <1>5 DEF SocketInv

\* A new socket of a client without an owner.
LEMMA ConnectSegura ==
  ASSUME SocketInv, NEW s \in Sockets, zlEvtSocketClienteConnectBasic(s)
  PROVE  SocketInv'
<1>1. /\ Reserva(s, FALSE, 0, TimersNuevos)
      /\ cancel_cb' \in [Sockets -> BOOLEAN]
      /\ pila' = pila /\ ub' = ub
  BY DEF zlEvtSocketClienteConnectBasic, SocketInv, TypeOK
<1> QED BY <1>1, TimersTipo, ReservaSegura

\* SocketInv holds all along, for an application that keeps the two rules that
\* matter to sockets without an owner.
THEOREM Invariant ==
  ASSUME {"cerrando", "gastado"} \subseteq Reglas
  PROVE  Spec => []SocketInv
<1>1. SocketInv /\ [Next]_vars => SocketInv'
  <2> SUFFICES ASSUME SocketInv, [Next]_vars PROVE SocketInv'
    OBVIOUS
  <2>1. CASE UNCHANGED vars
    <3>1. UNCHANGED <<mem, timer, pila, ub>>
      BY <2>1 DEF vars, socketVars
    <3>2. TypeOK'
      BY <2>1 DEF SocketInv, TypeOK, vars, socketVars
    <3> QED BY <3>1, <3>2 DEF SocketInv, NoUB, TimersDieWithSocket, ClosingIsAlive,
              SoloDisconectEncima, Cerrando, EnMarco
  <2> QED BY <2>1, BucleSegura, VuelveSegura, LlamadasSegura, ConnectSegura DEF Next
<1> QED BY <1>1, InitSegura, PTL DEF Spec

\* No undefined behaviour: the library never uses a socket or a timer that is gone.
THEOREM NoUndefinedBehaviour ==
  ASSUME {"cerrando", "gastado"} \subseteq Reglas
  PROVE  Spec => []NoUB
<1>1. SocketInv => NoUB
  BY DEF SocketInv
<1> QED BY <1>1, Invariant, PTL

\* No timer is left of a socket that was freed.
THEOREM TimersGone ==
  ASSUME {"cerrando", "gastado"} \subseteq Reglas
  PROVE  Spec => []TimersDieWithSocket
<1>1. SocketInv => TimersDieWithSocket
  BY DEF SocketInv
<1> QED BY <1>1, Invariant, PTL

\* A socket is there all through the callback that says it is closed.
THEOREM ClosingAlive ==
  ASSUME {"cerrando", "gastado"} \subseteq Reglas
  PROVE  Spec => []ClosingIsAlive
<1>1. SocketInv => ClosingIsAlive
  BY DEF SocketInv
<1> QED BY <1>1, Invariant, PTL

-----------------------------------------------------------------------------
\* A step leaves on the stack the frames of the owner that were there, and no other.
MismosMarcos ==
  \A fn \in {"ServerConnect", "Bind"}, aviso \in Avisos, r \in Sockets \cup {NULL} :
     EnMarco({fn}, {aviso}, r)' <=> EnMarco({fn}, {aviso}, r)

\* The sockets that are being told CONNECT are then the same.
LEMMA MismosAbriendo == MismosMarcos => \A r \in Sockets : Abriendo(r)' <=> Abriendo(r)
BY DEF MismosMarcos, Abriendo, Avisos

\* A stack without frames of the owner before and after.
LEMMA MismosNinguno ==
  ASSUME \A k \in 1 .. Len(pila) : pila[k].fn \notin {"ServerConnect", "Bind"},
         \A k \in 1 .. Len(pila') : pila'[k].fn \notin {"ServerConnect", "Bind"}
  PROVE  MismosMarcos
BY DEF MismosMarcos, EnMarco

\* What a step does to the connections: nothing, one enters, or one leaves and its
\* owner is being told.  Those that stay keep their canal.
UnaConexion ==
  /\ \A r \in Registrados : r \in Registrados' => canal'[r] = canal[r]
  /\ \/ Registrados' = Registrados
     \/ \E s \in Sockets : s \notin Registrados /\ Registrados' = Registrados \cup {s}
     \/ \E s \in Registrados : /\ Registrados' = Registrados \ {s}
                               /\ pila' # <<>>
                               /\ pila'[Len(pila')] = Marco("Disconect", "DISCONNECT", s)

\* The call stack that SocketFree leaves: what it was called over, and at most the
\* frame of DISCONNECT.
LEMMA PilaDeSocketFree ==
  ASSUME NEW s \in Sockets, mem[s] = "vivo", NEW marcos \in Seq(Marcos), SocketFree(s, marcos)
  PROVE  /\ \A k \in 1 .. Len(marcos) : k \in 1 .. Len(pila') /\ pila'[k] = marcos[k]
         /\ \A k \in 1 .. Len(pila') :
              \/ k \in 1 .. Len(marcos) /\ pila'[k] = marcos[k]
              \/ pila'[k] = Marco("Disconect", "DISCONNECT", s)
<1> DEFINE m == Marco("Disconect", "DISCONNECT", s)
<1>1. m \in Marcos
  BY MarcoTipo DEF FuncionesDeSocket, Avisos
<1> HIDE DEF m
<1>2. pila' = marcos \/ pila' = Append(marcos, m)
  BY Zenon DEF SocketFree, m
<1>3. Len(marcos) \in Nat
  BY LenProperties
<1>4. CASE pila' = marcos
  BY <1>4
<1>5. CASE pila' = Append(marcos, m)
  <2>1. /\ Len(pila') = Len(marcos) + 1
        /\ pila'[Len(marcos) + 1] = m
        /\ \A k \in 1 .. Len(marcos) : pila'[k] = marcos[k]
    BY <1>1, <1>5, AppendProperties
  <2>2. \A k \in 1 .. Len(pila') : k \in 1 .. Len(marcos) \/ k = Len(marcos) + 1
    BY <1>3, <2>1
  <2>3. \A k \in 1 .. Len(marcos) : k \in 1 .. Len(pila')
    BY <1>3, <2>1
  <2> QED BY <2>1, <2>2, <2>3 DEF m
<1> QED BY <1>2, <1>4, <1>5

\* A step that leaves memory and list alone and does not change who is being
\* told CONNECT or DISCONNECT.
LEMMA ConSinCambio ==
  ASSUME ConInv, SocketInv', UNCHANGED <<mem, canal, cancel_cb, conexiones>>,
         \A r \in Sockets : Abriendo(r)' <=> Abriendo(r),
         \A r \in Sockets : EnMarco({"Disconect"}, {"DISCONNECT"}, r)'
                              => EnMarco({"Disconect"}, {"DISCONNECT"}, r)
  PROVE  ConInv' /\ UnaConexion
<1>1. Registrados' = Registrados
  BY DEF Registrados
<1>2. CanalesExact' /\ CancelPuesto'
  BY <1>1 DEF ConInv, CanalesExact, CancelPuesto
<1>3. AbriendoEspera'
  BY DEF ConInv, AbriendoEspera
<1>4. DesconectadoLibre'
  BY DEF ConInv, DesconectadoLibre
<1>5. UnaConexion
  BY <1>1 DEF UnaConexion
<1> QED BY <1>2, <1>3, <1>4, <1>5 DEF ConInv, BoundedList

\* A connection is freed: it leaves its position and nobody else's.
LEMMA ConLibera ==
  ASSUME ConInv, SocketInv', NEW s \in Registrados,
         NEW marcos \in Seq(Marcos), SocketFree(s, marcos), DisconectConexion(s),
         Len(marcos) <= Len(pila),
         \A k \in 1 .. Len(marcos) : marcos[k] = pila[k],
         \A k \in 1 .. Len(pila) : pila[k].fn \in {"ServerConnect", "Bind"} => k \in 1 .. Len(marcos)
  PROVE  ConInv' /\ MismosMarcos /\ UnaConexion
<1> DEFINE pos == canal[s]
<1>1. /\ s \in Sockets
      /\ mem[s] = "vivo"
      /\ cancel_cb[s]
      /\ TypeOK
      /\ EsLista(conexiones, Sockets)
  BY DEF ConInv, SocketInv, Registrados, CancelPuesto
<1>2. /\ mem' = [mem EXCEPT ![s] = "libre"]
      /\ canal' = [canal EXCEPT ![s] = 0]
      /\ cancel_cb' = [cancel_cb EXCEPT ![s] = FALSE]
      /\ conexiones' = zlListapFreeItem(conexiones, pos)
  BY <1>1, Zenon DEF SocketFree, DisconectConexion
<1>3. /\ \A r \in Sockets : r # s => /\ mem'[r] = mem[r]
                                     /\ canal'[r] = canal[r]
                                     /\ cancel_cb'[r] = cancel_cb[r]
      /\ mem'[s] = "libre"
  BY <1>1, <1>2 DEF TypeOK
<1>4. pos \in Posiciones(conexiones) /\ zlListapItem(conexiones, pos) = s
  BY DEF ConInv, CanalesExact
<1>5. pos \in Ocupadas(conexiones)
  BY <1>1, <1>4, SocketAssumption DEF Ocupadas, Huecos
<1> HIDE DEF pos
<1>6. /\ EsLista(conexiones', Sockets)
      /\ Ocupadas(conexiones') = Ocupadas(conexiones) \ {pos}
      /\ Posiciones(conexiones') = Posiciones(conexiones)
      /\ zlListapItem(conexiones', pos) = NULL
      /\ \A otra \in Posiciones(conexiones) \ {pos} :
           zlListapItem(conexiones', otra) = zlListapItem(conexiones, otra)
  BY <1>1, <1>2, <1>5, BorradoEsLista, SocketAssumption
<1>7. Num(conexiones') = Num(conexiones)
  <2>1. 0 \in Nat
    OBVIOUS
  <2> QED BY <1>1, <1>6, <2>1, NumDePosiciones
<1>8. /\ \A k \in 1 .. Len(marcos) : k \in 1 .. Len(pila') /\ pila'[k] = marcos[k]
      /\ \A k \in 1 .. Len(pila') :
           \/ k \in 1 .. Len(marcos) /\ pila'[k] = marcos[k]
           \/ pila'[k] = Marco("Disconect", "DISCONNECT", s)
  BY <1>1, PilaDeSocketFree
<1>9. \A k \in 1 .. Len(marcos) : k \in 1 .. Len(pila)
  <2>1. Len(marcos) \in Nat
    BY LenProperties
  <2>2. Len(pila) \in Nat
    BY <1>1, LenProperties DEF TypeOK
  <2> QED BY <2>1, <2>2
<1>10. MismosMarcos
  <2> SUFFICES ASSUME NEW fn \in {"ServerConnect", "Bind"}, NEW aviso \in Avisos,
                      NEW r \in Sockets \cup {NULL}
               PROVE  EnMarco({fn}, {aviso}, r)' <=> EnMarco({fn}, {aviso}, r)
    BY DEF MismosMarcos
  <2>1. ASSUME EnMarco({fn}, {aviso}, r)' PROVE EnMarco({fn}, {aviso}, r)
    BY <1>8, <1>9, <2>1 DEF EnMarco, Marco
  <2>2. ASSUME EnMarco({fn}, {aviso}, r) PROVE EnMarco({fn}, {aviso}, r)'
    BY <1>8, <2>2 DEF EnMarco
  <2> QED BY <2>1, <2>2
<1>11. Registrados' = Registrados \ {s}
  BY <1>3, <1>10, MismosAbriendo DEF Registrados
<1>12. CanalesExact'
  <2>1. ASSUME NEW r \in Registrados'
        PROVE  canal'[r] \in Posiciones(conexiones') /\ zlListapItem(conexiones', canal'[r]) = r
    <3>1. r \in Registrados /\ r # s /\ canal'[r] = canal[r]
      BY <1>3, <1>11, <2>1 DEF Registrados
    <3>2. canal[r] \in Posiciones(conexiones) /\ zlListapItem(conexiones, canal[r]) = r
      BY <3>1 DEF ConInv, CanalesExact
    <3>3. canal[r] # pos
      BY <1>4, <3>1, <3>2
    <3> QED BY <1>6, <3>1, <3>2, <3>3
  <2>2. ASSUME NEW p \in Ocupadas(conexiones')
        PROVE  /\ zlListapItem(conexiones', p) \in Registrados'
               /\ canal'[zlListapItem(conexiones', p)] = p
    <3>1. p \in Ocupadas(conexiones) /\ p \in Posiciones(conexiones) /\ p # pos
      BY <1>6, <2>2 DEF Ocupadas
    <3>2. /\ zlListapItem(conexiones', p) = zlListapItem(conexiones, p)
          /\ zlListapItem(conexiones, p) \in Registrados
          /\ canal[zlListapItem(conexiones, p)] = p
      BY <1>6, <3>1 DEF ConInv, CanalesExact
    <3>3. zlListapItem(conexiones, p) # s
      BY <3>1, <3>2 DEF pos
    <3> QED BY <1>3, <1>11, <3>2, <3>3 DEF Registrados
  <2> QED BY <2>1, <2>2 DEF CanalesExact
<1>13. AbriendoEspera'
  <2> SUFFICES ASSUME NEW r \in Sockets, Abriendo(r)'
               PROVE  /\ mem'[r] = "vivo"
                      /\ canal'[r] \in Huecos(conexiones') \cup {Num(conexiones')}
                      /\ canal'[r] < Cardinality(Sockets)
    BY DEF AbriendoEspera
  <2>1. Abriendo(r) /\ r # s
    BY <1>10, MismosAbriendo DEF Registrados
  <2>2. /\ mem[r] = "vivo"
        /\ canal[r] \in Huecos(conexiones) \cup {Num(conexiones)}
        /\ canal[r] < Cardinality(Sockets)
    BY <2>1 DEF ConInv, AbriendoEspera
  <2>3. Huecos(conexiones) \subseteq Huecos(conexiones')
    BY <1>6 DEF Huecos
  <2> QED BY <1>3, <1>7, <2>1, <2>2, <2>3
<1>14. CancelPuesto'
  BY <1>3, <1>11 DEF ConInv, CancelPuesto, Registrados
<1>15. DesconectadoLibre'
  <2> SUFFICES ASSUME NEW r \in Sockets, NEW k \in 1 .. Len(pila'), r # s,
                      pila'[k].fn = "Disconect", pila'[k].aviso = "DISCONNECT", pila'[k].s = r
               PROVE  mem'[r] = "libre"
    BY <1>3 DEF DesconectadoLibre, EnMarco
  <2>1. k \in 1 .. Len(pila) /\ pila'[k] = pila[k]
    BY <1>8, <1>9 DEF Marco
  <2>2. mem[r] = "libre"
    BY <2>1 DEF ConInv, DesconectadoLibre, EnMarco
  <2> QED BY <1>3, <2>2
<1>16. UnaConexion
  <2>1. pila' = Append(marcos, Marco("Disconect", "DISCONNECT", s))
    BY <1>1, Zenon DEF SocketFree
  <2>2. Marco("Disconect", "DISCONNECT", s) \in Marcos
    BY <1>1, MarcoTipo DEF FuncionesDeSocket, Avisos
  <2>3. /\ Len(pila') = Len(marcos) + 1
        /\ pila'[Len(marcos) + 1] = Marco("Disconect", "DISCONNECT", s)
        /\ Len(marcos) \in Nat
    BY <2>1, <2>2, AppendProperties, LenProperties
  <2>4. pila' # <<>>
    BY <2>3, EmptySeq
  <2>5. \A r \in Registrados : r \in Registrados' => canal'[r] = canal[r]
    BY <1>3, <1>11 DEF Registrados
  <2> QED BY <1>11, <2>3, <2>4, <2>5 DEF UnaConexion
<1> QED BY <1>6, <1>7, <1>10, <1>16, <1>12, <1>13, <1>14, <1>15 DEF ConInv, BoundedList

-----------------------------------------------------------------------------
\* The events of the loop: the stack was empty, and what is pushed is neither a
\* CONNECT of the server nor a DISCONNECT.
LEMMA ConBucleSegura ==
  ASSUME ConInv, ConBucle
  PROVE  ConInv' /\ MismosMarcos /\ UnaConexion
<1>1. SocketInv /\ SocketInv' /\ TypeOK /\ conexiones' = conexiones
  BY BucleSegura DEF ConInv, SocketInv, ConBucle
<1>2. /\ pila = <<>> /\ UNCHANGED <<mem, canal, cancel_cb>>
      /\ \E s \in Sockets, fn \in {"Read_cb", "Write_cb", "Event_cb", "Timer_cb"}, aviso \in Avisos :
           pila' = Append(pila, Marco(fn, aviso, s))
  <2>1. PICK s \in Sockets : \/ zlEvtSocketRead_cb(s)
                             \/ zlEvtSocketWrite_cb(s)
                             \/ Event_cbConnected(s)
                             \/ Event_cbFin(s)
                             \/ \E i \in Timers : zlEvtSocketTimer_cb(s, i)
    BY DEF ConBucle, Bucle
  <2>2. CASE zlEvtSocketRead_cb(s)
    BY <2>2 DEF zlEvtSocketRead_cb, EnBucle, Avisa, socketVars, Avisos
  <2>3. CASE zlEvtSocketWrite_cb(s)
    BY <2>3 DEF zlEvtSocketWrite_cb, EnBucle, Avisa, Avisos
  <2>4. CASE Event_cbConnected(s)
    BY <2>4 DEF Event_cbConnected, EnBucle, Avisa, Avisos
  <2>5. CASE Event_cbFin(s)
    <3>1. (IF isConnected[s] THEN "FIN" ELSE "RECHAZADO") \in Avisos
      BY DEF Avisos
    <3> QED BY <2>5, <3>1 DEF Event_cbFin, EnBucle, Avisa, socketVars
  <2>6. CASE \E i \in Timers : zlEvtSocketTimer_cb(s, i)
    <3>1. PICK i \in Timers : zlEvtSocketTimer_cb(s, i)
      BY <2>6
    <3>2. mem[s] = "vivo"
      BY <1>1, <3>1 DEF zlEvtSocketTimer_cb, SocketInv, NoUB
    <3> QED BY <3>1, <3>2 DEF zlEvtSocketTimer_cb, EnBucle, Avisa, Avisos
  <2> QED BY <2>1, <2>2, <2>3, <2>4, <2>5, <2>6
<1>3. /\ MismosMarcos
      /\ \A r \in Sockets : ~ EnMarco({"Disconect"}, {"DISCONNECT"}, r)'
  <2>1. PICK s \in Sockets, fn \in {"Read_cb", "Write_cb", "Event_cb", "Timer_cb"}, aviso \in Avisos :
          pila' = Append(pila, Marco(fn, aviso, s))
    BY <1>2
  <2>2. Marco(fn, aviso, s) \in Marcos /\ Marco(fn, aviso, s).fn = fn
    BY MarcoTipo DEF FuncionesDeSocket, Marco
  <2>3. Len(pila) = 0 /\ Len(pila') = 1 /\ pila'[1] = Marco(fn, aviso, s)
    BY <1>1, <1>2, <2>1, <2>2, AvisaEnBucle, EmptySeq
  <2>4. MismosMarcos
    BY <2>2, <2>3, MismosNinguno
  <2> QED BY <2>2, <2>3, <2>4 DEF EnMarco
<1> QED BY <1>1, <1>2, <1>3, ConSinCambio, MismosAbriendo

\* A callback returns.
LEMMA ConVuelveSegura ==
  ASSUME ConInv, ConVuelve
  PROVE  ConInv' /\ MismosMarcos /\ UnaConexion
<1>1. SocketInv /\ TypeOK /\ SoloDisconectEncima
  BY DEF ConInv, SocketInv
<1>2. CASE VuelveSinMas /\ UNCHANGED conexiones
  <2>1. /\ pila # <<>>
        /\ Cima.fn \in {"Read_cb", "Write_cb", "Timer_cb", "Event_cb"}
        /\ pila' = Resto
        /\ UNCHANGED <<mem, canal, cancel_cb, conexiones>>
    BY <1>2 DEF VuelveSinMas, VuelveA, socketVars
  <2>2. Len(pila) = 1 /\ Resto = <<>> /\ Cima = pila[1]
    BY <1>1, <2>1, CimaSola
  <2>3. Len(pila') = 0
    BY <2>1, <2>2, EmptySeq
  <2>4. SocketInv'
    BY <1>1, <1>2, VuelveSegura DEF Vuelve
  <2>5. \A r \in Sockets : ~ EnMarco({"Disconect"}, {"DISCONNECT"}, r)'
    BY <2>3 DEF EnMarco
  <2>6. MismosMarcos
    BY <2>1, <2>2, <2>3, MismosNinguno
  <2> QED BY <2>1, <2>4, <2>5, <2>6, ConSinCambio, MismosAbriendo
<1>3. CASE ConVuelveYLibera
  <2>1. /\ pila # <<>>
        /\ Cima.fn = "Event_cb"
        /\ Cima.aviso \in {"FIN", "RECHAZADO"}
        /\ SocketFree(Cima.s, Resto)
        /\ DisconectConexion(Cima.s)
        /\ VuelveYLibera
    BY <1>3, Zenon DEF ConVuelveYLibera, VuelveYLibera, VuelveA
  <2>2. Len(pila) = 1 /\ Resto = <<>> /\ Cima = pila[1] /\ Len(Resto) = 0
    BY <1>1, <2>1, CimaSola, EmptySeq
  <2>3. Cima.s \in Sockets /\ Resto \in Seq(Marcos)
    BY <1>1, <2>1, PilaResto, CimaDeSocket DEF TypeOK
  <2>4. Cerrando(Cima.s)
    BY <2>1, <2>2 DEF Cerrando, EnMarco
  <2>5. Cima.s \in Registrados
    BY <1>1, <2>1, <2>2, <2>3, <2>4 DEF SocketInv, ClosingIsAlive, Registrados, Abriendo, EnMarco
  <2>6. SocketInv'
    BY <1>1, <2>1, VuelveSegura DEF Vuelve
  <2>7. \A k \in 1 .. Len(pila) : pila[k].fn \notin {"ServerConnect", "Bind"}
    BY <2>1, <2>2
  <2>8. Len(Resto) <= Len(pila) /\ \A k \in 1 .. Len(Resto) : Resto[k] = pila[k]
    BY <2>2
  <2> QED BY <2>1, <2>3, <2>5, <2>6, <2>7, <2>8, ConLibera
<1>4. CASE VuelveADisconect
  <2>1. /\ pila # <<>>
        /\ Cima.fn = "Disconect"
        /\ pila' = Resto
        /\ UNCHANGED <<socketVars, ub, conexiones>>
    BY <1>4 DEF VuelveADisconect, VuelveA
  <2>2. /\ pila' \in Seq(Marcos)
        /\ Len(pila') = Len(pila) - 1
        /\ Len(pila) \in Nat
        /\ \A k \in 1 .. Len(pila) - 1 : pila'[k] = pila[k]
    BY <1>1, <2>1, PilaResto, LenProperties DEF TypeOK
  <2>3. \A k \in 1 .. Len(pila') : k \in 1 .. Len(pila) /\ pila'[k] = pila[k]
    BY <2>2
  <2>4. \A k \in 1 .. Len(pila) : k \in 1 .. Len(pila') \/ pila[k] = Cima
    BY <2>2 DEF Cima
  <2>5. SocketInv'
    <3>1. TypeOK'
      BY <1>1, <2>1, <2>2 DEF TypeOK, socketVars
    <3>2. NoUB' /\ TimersDieWithSocket'
      BY <1>1, <2>1 DEF SocketInv, NoUB, TimersDieWithSocket, socketVars
    <3>3. ClosingIsAlive'
      <4>1. \A r \in Sockets : Cerrando(r)' => Cerrando(r)
        BY <2>3 DEF Cerrando, EnMarco
      <4> QED BY <1>1, <2>1, <4>1 DEF SocketInv, ClosingIsAlive, socketVars
    <3>4. SoloDisconectEncima'
      <4>1. \A k \in 2 .. Len(pila') : k \in 2 .. Len(pila) /\ k \in 1 .. Len(pila')
        BY <2>2
      <4> QED BY <1>1, <2>3, <4>1 DEF SoloDisconectEncima
    <3> QED BY <3>1, <3>2, <3>3, <3>4 DEF SocketInv
  <2>6. MismosMarcos
    <3> SUFFICES ASSUME NEW fn \in {"ServerConnect", "Bind"}, NEW aviso \in Avisos,
                        NEW r \in Sockets \cup {NULL}
                 PROVE  EnMarco({fn}, {aviso}, r)' <=> EnMarco({fn}, {aviso}, r)
      BY DEF MismosMarcos
    <3>1. EnMarco({fn}, {aviso}, r)' => EnMarco({fn}, {aviso}, r)
      BY <2>3 DEF EnMarco
    <3>2. EnMarco({fn}, {aviso}, r) => EnMarco({fn}, {aviso}, r)'
      BY <2>1, <2>3, <2>4 DEF EnMarco
    <3> QED BY <3>1, <3>2
  <2>8. \A r \in Sockets : EnMarco({"Disconect"}, {"DISCONNECT"}, r)'
                             => EnMarco({"Disconect"}, {"DISCONNECT"}, r)
    BY <2>3 DEF EnMarco
  <2>7. UNCHANGED <<mem, canal, cancel_cb, conexiones>>
    BY <2>1 DEF socketVars
  <2> QED BY <2>5, <2>6, <2>7, <2>8, ConSinCambio, MismosAbriendo
<1> QED BY <1>2, <1>3, <1>4 DEF ConVuelve

\* The calls of the application.
LEMMA ConLlamadasSegura ==
  ASSUME {"cerrando", "gastado"} \subseteq Reglas, ConInv, ConLlamadas,
         \A s \in Sockets : Abriendo(s) => "abriendo" \in Reglas
  PROVE  ConInv' /\ MismosMarcos /\ UnaConexion
<1>1. SocketInv /\ TypeOK
  BY DEF ConInv, SocketInv
<1>2. PICK s \in Sockets : ConSocketFree(s) \/ (LlamadasSinLiberar(s) /\ UNCHANGED conexiones)
  BY DEF ConLlamadas
<1>3. SocketInv'
  BY <1>1, <1>2, LlamadasSegura DEF Llamadas, ConSocketFree
<1>4. CASE ConSocketFree(s)
  <2>1. mem[s] = "vivo" /\ ~ Abriendo(s) /\ SocketFree(s, pila) /\ DisconectConexion(s)
    BY <1>4 DEF ConSocketFree, zlEvtSocketFree
  <2>2. s \in Registrados
    BY <2>1 DEF Registrados
  <2>3. pila \in Seq(Marcos) /\ Len(pila) \in Nat
    BY <1>1, LenProperties DEF TypeOK
  <2> QED BY <1>3, <2>1, <2>2, <2>3, ConLibera
<1>5. CASE LlamadasSinLiberar(s) /\ UNCHANGED conexiones
  <2>1. UNCHANGED <<mem, canal, cancel_cb, pila, conexiones>>
    BY <1>5 DEF LlamadasSinLiberar, zlEvtSocketTimerActiva, zlEvtSocketTimerDesactiva,
                zlEvtSocketWriteCommandCierre
  <2>2. /\ MismosMarcos
        /\ \A r \in Sockets : EnMarco({"Disconect"}, {"DISCONNECT"}, r)'
                                => EnMarco({"Disconect"}, {"DISCONNECT"}, r)
    BY <2>1 DEF MismosMarcos, EnMarco
  <2> QED BY <1>3, <2>1, <2>2, ConSinCambio, MismosAbriendo
<1> QED BY <1>2, <1>4, <1>5

-----------------------------------------------------------------------------
\* A socket enters the list at the position that was looked up for it, when no
\* other is being told CONNECT.
LEMMA ConEntra ==
  ASSUME IsFiniteSet(Sockets), ConInv, SocketInv', NEW s \in Sockets, s \notin Registrados,
         NEW pos \in Huecos(conexiones) \cup {Num(conexiones)}, pos < Cardinality(Sockets),
         conexiones' = zlListapUpdateOrAppendPos(conexiones, s, pos),
         mem'[s] = "vivo", canal'[s] = pos, cancel_cb'[s],
         \A r \in Sockets : r # s => /\ mem'[r] = mem[r]
                                     /\ canal'[r] = canal[r]
                                     /\ cancel_cb'[r] = cancel_cb[r]
                                     /\ ~ Abriendo(r),
         \A r \in Sockets : ~ Abriendo(r)',
         \A r \in Sockets : EnMarco({"Disconect"}, {"DISCONNECT"}, r)'
                              => EnMarco({"Disconect"}, {"DISCONNECT"}, r) /\ r # s
  PROVE  ConInv' /\ UnaConexion
<1>1. EsLista(conexiones, Sockets)
  BY DEF ConInv
<1>2. /\ EsLista(conexiones', Sockets)
      /\ pos \notin Ocupadas(conexiones)
      /\ Ocupadas(conexiones') = Ocupadas(conexiones) \cup {pos}
      /\ Posiciones(conexiones') = Posiciones(conexiones) \cup {pos}
      /\ zlListapItem(conexiones', pos) = s
      /\ \A otra \in Posiciones(conexiones) \ {pos} :
           zlListapItem(conexiones', otra) = zlListapItem(conexiones, otra)
  BY <1>1, GuardadoEsLista, SocketAssumption
<1>3. Registrados' = Registrados \cup {s}
  BY DEF Registrados
<1>4. CanalesExact'
  <2>1. ASSUME NEW r \in Registrados'
        PROVE  canal'[r] \in Posiciones(conexiones') /\ zlListapItem(conexiones', canal'[r]) = r
    <3>1. CASE r = s
      BY <1>2, <3>1
    <3>2. CASE r # s
      <4>1. r \in Registrados /\ r \in Sockets /\ canal'[r] = canal[r]
        BY <1>3, <2>1, <3>2 DEF Registrados
      <4>2. canal[r] \in Posiciones(conexiones) /\ zlListapItem(conexiones, canal[r]) = r
        BY <4>1 DEF ConInv, CanalesExact
      <4>3. canal[r] \in Ocupadas(conexiones)
        BY <4>1, <4>2, SocketAssumption DEF Ocupadas, Huecos
      <4> QED BY <1>2, <4>1, <4>2, <4>3
    <3> QED BY <3>1, <3>2
  <2>2. ASSUME NEW p \in Ocupadas(conexiones')
        PROVE  /\ zlListapItem(conexiones', p) \in Registrados'
               /\ canal'[zlListapItem(conexiones', p)] = p
    <3>1. CASE p = pos
      BY <1>2, <1>3, <3>1
    <3>2. CASE p # pos
      <4>1. p \in Ocupadas(conexiones) /\ p \in Posiciones(conexiones)
        BY <1>2, <2>2, <3>2 DEF Ocupadas
      <4>2. /\ zlListapItem(conexiones', p) = zlListapItem(conexiones, p)
            /\ zlListapItem(conexiones, p) \in Registrados
            /\ canal[zlListapItem(conexiones, p)] = p
        BY <1>2, <3>2, <4>1 DEF ConInv, CanalesExact
      <4> QED BY <1>3, <4>2 DEF Registrados
    <3> QED BY <3>1, <3>2
  <2> QED BY <2>1, <2>2 DEF CanalesExact
<1>5. AbriendoEspera'
  BY DEF AbriendoEspera
<1>6. CancelPuesto'
  BY <1>3 DEF ConInv, CancelPuesto, Registrados
<1>7. DesconectadoLibre'
  BY DEF ConInv, DesconectadoLibre
<1>8. BoundedList'
  <2>1. Cardinality(Sockets) \in Nat
    BY FS_CardinalityType
  <2>2. Num(conexiones) \in Nat /\ Num(conexiones') \in Nat
    BY <1>1, <1>2, LenProperties DEF EsLista, Num
  <2>3. pos \in Nat
    BY <2>2 DEF Huecos, Posiciones
  <2>4. Num(conexiones') <= Num(conexiones) \/ Num(conexiones') = pos + 1
    BY <1>1, <1>2, <2>3, NumDePosiciones
  <2> QED BY <2>1, <2>2, <2>3, <2>4 DEF ConInv, BoundedList
<1>9. UnaConexion
  <2>1. \A r \in Registrados : canal'[r] = canal[r]
    BY DEF Registrados
  <2> QED BY <1>3, <2>1 DEF UnaConexion
<1> QED BY <1>2, <1>4, <1>5, <1>6, <1>7, <1>8, <1>9 DEF ConInv

\* A socket that is not a connection yet finds a position below the number of
\* sockets.
LEMMA ConCabe ==
  ASSUME IsFiniteSet(Sockets), ConInv, NEW s \in Sockets, s \notin Registrados
  PROVE  /\ zlListapFirstItemFree(conexiones) \in Huecos(conexiones) \cup {Num(conexiones)}
         /\ zlListapFirstItemFree(conexiones) \in Nat
         /\ zlListapFirstItemFree(conexiones) < Cardinality(Sockets)
<1> DEFINE V == Sockets \cup {NULL}
           n == zlListapFirstItemFree(conexiones)
<1>1. EsLista(conexiones, Sockets)
  BY DEF ConInv
<1>2. conexiones \in ListaDe(V)
  BY <1>1 DEF EsLista, ListaDe
<1>3. n \in Huecos(conexiones) \cup {Num(conexiones)} /\ n \in Nat
  <2> HIDE DEF V
  <2> QED BY <1>2, PrimerHueco
<1>4. /\ \A pos \in Ocupadas(conexiones) : zlListapItem(conexiones, pos) # s
      /\ \A p, q \in Ocupadas(conexiones) :
           zlListapItem(conexiones, p) = zlListapItem(conexiones, q) => p = q
  BY DEF ConInv, CanalesExact
<1>5. n + 1 <= Cardinality(Sockets) /\ Cardinality(Sockets) \in Nat
  BY <1>1, <1>4, CabeUnoMas, FS_CardinalityType
<1> HIDE DEF n
<1>6. n < Cardinality(Sockets)
  BY <1>3, <1>5
<1> QED BY <1>3, <1>6 DEF n

\* An owner that has not started.
LEMMA ConInitSegura ==
  ASSUME IsFiniteSet(Sockets), ConInit
  PROVE  ConInv /\ \A s \in Sockets : ~ Abriendo(s)
<1>1. SocketInv
  BY InitSegura DEF ConInit
<1>2. Len(pila) = 0 /\ \A s \in Sockets : mem[s] = "libre"
  BY EmptySeq DEF ConInit, Init
<1>3. \A s \in Sockets : ~ Abriendo(s) /\ ~ EnMarco({"Disconect"}, {"DISCONNECT"}, s)
  BY <1>2 DEF Abriendo, EnMarco
<1>4. /\ conexiones.items = <<>>
      /\ conexiones.numActivos = 0
      /\ conexiones \in [items : Seq(Sockets \cup {NULL}), numActivos : Int, itera : Nat]
  BY EmptySeq DEF ConInit, zlListapCrea
<1>5. Num(conexiones) = 0 /\ Posiciones(conexiones) = {} /\ Ocupadas(conexiones) = {}
  BY <1>4, EmptySeq DEF Num, Posiciones, Ocupadas
<1>6. Cardinality({}) = 0 /\ Cardinality(Sockets) \in Nat
  BY FS_EmptySet, FS_CardinalityType
<1>7. EsLista(conexiones, Sockets) /\ BoundedList
  BY <1>4, <1>5, <1>6 DEF EsLista, BoundedList
<1>8. Registrados = {}
  BY <1>2 DEF Registrados
<1> QED BY <1>1, <1>3, <1>5, <1>7, <1>8
        DEF ConInv, CanalesExact, AbriendoEspera, CancelPuesto, DesconectadoLibre

-----------------------------------------------------------------------------
\* What follows from ConInv in any state.

\* As many pointers as connections: each connection is at one position.
LEMMA ConNum == ConInv => NumConexionesExact
<1> SUFFICES ASSUME ConInv PROVE NumConexionesExact
  OBVIOUS
<1> DEFINE O == Ocupadas(conexiones)
           R == Registrados
           f == [pos \in O |-> zlListapItem(conexiones, pos)]
<1>1. EsLista(conexiones, Sockets) /\ IsFiniteSet(O)
  <2> DEFINE V == Sockets \cup {NULL}
  <2>1. EsLista(conexiones, Sockets)
    BY DEF ConInv
  <2>2. conexiones \in ListaDe(V)
    BY <2>1 DEF EsLista, ListaDe
  <2> HIDE DEF V
  <2> QED BY <2>1, <2>2, OcupadasFinito
<1>2. f \in [O -> R] /\ \A p, q \in O : f[p] = f[q] => p = q
  BY DEF ConInv, CanalesExact
<1>3. \A s \in R : \E pos \in O : f[pos] = s
  <2> SUFFICES ASSUME NEW s \in R PROVE \E pos \in O : f[pos] = s
    OBVIOUS
  <2>1. canal[s] \in Posiciones(conexiones) /\ zlListapItem(conexiones, canal[s]) = s
    BY DEF ConInv, CanalesExact
  <2>2. s # NULL
    BY SocketAssumption DEF Registrados
  <2>3. canal[s] \in O
    BY <2>1, <2>2 DEF Ocupadas, Huecos
  <2> QED BY <2>1, <2>3
<1>4. Cardinality(R) = Cardinality(O)
  <2> HIDE DEF O, R, f
  <2>1. f \in Bijection(O, R)
    BY <1>2, <1>3 DEF Bijection, Injection, IsInjective, Surjection
  <2>2. ExistsBijection(O, R)
    BY <2>1 DEF ExistsBijection
  <2> QED BY <1>1, <2>2, FS_Bijection
<1> QED BY <1>1, <1>4 DEF EsLista, NumConexionesExact

\* A connection of which DISCONNECT is being told is in no position.
LEMMA ConDisconnect == ConInv => DisconnectAfterFree
<1> SUFFICES ASSUME ConInv, NEW s \in Sockets, EnMarco({"Disconect"}, {"DISCONNECT"}, s)
             PROVE  /\ mem[s] = "libre"
                    /\ \A pos \in Posiciones(conexiones) : zlListapItem(conexiones, pos) # s
  BY DEF DisconnectAfterFree
<1>1. mem[s] = "libre"
  BY DEF ConInv, DesconectadoLibre
<1>2. \A pos \in Ocupadas(conexiones) : zlListapItem(conexiones, pos) # s
  BY <1>1 DEF ConInv, CanalesExact, Registrados
<1> QED BY <1>1, <1>2, SocketAssumption DEF Ocupadas, Huecos

-----------------------------------------------------------------------------
\* Canales.

\* The channel that the refinement mapping finds is the canal of a connection.
LEMMA ConPosicion ==
  ASSUME ConInv
  PROVE  \A s \in Sockets :
            PosicionDe(conexiones, s) = IF s \in Registrados THEN canal[s] ELSE SinCanal
<1> SUFFICES ASSUME NEW s \in Sockets
             PROVE  PosicionDe(conexiones, s) = IF s \in Registrados THEN canal[s] ELSE SinCanal
  OBVIOUS
<1>1. \A pos \in Posiciones(conexiones) : zlListapItem(conexiones, pos) = s
                                            => s \in Registrados /\ canal[s] = pos
  BY SocketAssumption DEF ConInv, CanalesExact, Ocupadas, Huecos
<1>2. CASE s \in Registrados
  <2>1. canal[s] \in Posiciones(conexiones) /\ zlListapItem(conexiones, canal[s]) = s
    BY <1>2 DEF ConInv, CanalesExact
  <2> QED BY <1>1, <1>2, <2>1 DEF PosicionDe
<1>3. CASE s \notin Registrados
  BY <1>1, <1>3 DEF PosicionDe
<1> QED BY <1>2, <1>3

\* The channel of a connection is one.
LEMMA ConAcotada ==
  ASSUME ConInv, NEW s \in Registrados
  PROVE  canal[s] # SinCanal
<1>1. Num(conexiones) \in Nat
  BY LenProperties DEF ConInv, EsLista, Num
<1>2. canal[s] \in Posiciones(conexiones)
  BY DEF ConInv, CanalesExact
<1> QED BY <1>1, <1>2 DEF Posiciones, SinCanal

\* An owner with no connections.
LEMMA ConInitRefina == ConInit => Abstracto!Init
<1> SUFFICES ASSUME ConInit PROVE Abstracto!Init
  OBVIOUS
<1>1. conexiones.items = <<>> /\ conexiones.numActivos = 0
  BY DEF ConInit, zlListapCrea
<1>2. Posiciones(conexiones) = {}
  BY <1>1, EmptySeq DEF Posiciones, Num
<1>3. \A s \in Sockets : PosicionDe(conexiones, s) = SinCanal
  BY <1>2 DEF PosicionDe
<1> QED BY <1>1, <1>3 DEF Abstracto!Init, Abstracto!SinCanal, SinCanal

\* A step that changes at most one connection is one of Canales, or none.
LEMMA ConRefina ==
  ASSUME IsFiniteSet(Sockets), ConInv, ConInv', UnaConexion
  PROVE  [Abstracto!Next]_(Abstracto!vars)
<1> DEFINE mapa == [s \in Sockets |-> PosicionDe(conexiones, s)]
           n == conexiones.numActivos
<1>1. /\ mapa = [s \in Sockets |-> IF s \in Registrados THEN canal[s] ELSE SinCanal]
      /\ n = Cardinality(Registrados)
  BY ConPosicion, ConNum DEF NumConexionesExact
<1>2. /\ mapa' = [s \in Sockets |-> IF s \in Registrados' THEN canal'[s] ELSE SinCanal]
      /\ n' = Cardinality(Registrados')
  <2>1. (\A s \in Sockets :
           PosicionDe(conexiones, s) = IF s \in Registrados THEN canal[s] ELSE SinCanal)'
    BY ConPosicion, PTL
  <2>2. NumConexionesExact'
    BY ConNum, PTL
  <2> QED BY <2>1, <2>2 DEF NumConexionesExact
<1>3. Registrados \subseteq Sockets /\ IsFiniteSet(Registrados)
  BY FS_Subset DEF Registrados
<1>4. \A s \in Registrados : canal[s] # SinCanal
  BY ConAcotada
<1>5. Abstracto!Abiertos = Registrados
  BY <1>1, <1>3, <1>4 DEF Abstracto!Abiertos, Abstracto!SinCanal, SinCanal
<1>6. CASE Registrados' = Registrados
  <2>1. mapa' = mapa /\ n' = n
    BY <1>1, <1>2, <1>6 DEF UnaConexion
  <2> QED BY <2>1 DEF Abstracto!vars
<1>7. ASSUME NEW s \in Sockets, s \notin Registrados, Registrados' = Registrados \cup {s}
      PROVE  Abstracto!Next
  <2> DEFINE c == canal'[s]
  <2>1. c \in 0 .. Cardinality(Sockets) - 1
    <3>1. Num(conexiones') \in Nat
      BY LenProperties DEF ConInv, EsLista, Num
    <3>2. c \in Posiciones(conexiones') /\ Num(conexiones') <= Cardinality(Sockets)
      BY <1>7 DEF ConInv, CanalesExact, BoundedList
    <3>3. Cardinality(Sockets) \in Nat
      BY FS_CardinalityType
    <3> QED BY <3>1, <3>2, <3>3 DEF Posiciones
  <2>2. \A r \in Registrados : canal'[r] = canal[r] /\ canal[r] # c
    <3>1. \A r \in Registrados : canal'[r] = canal[r]
      BY <1>7 DEF UnaConexion
    <3>2. /\ zlListapItem(conexiones', c) = s
          /\ \A r \in Registrados : zlListapItem(conexiones', canal'[r]) = r
      BY <1>7 DEF ConInv, CanalesExact
    <3> QED BY <1>7, <3>1, <3>2
  <2> HIDE DEF c
  <2>3. mapa' = [mapa EXCEPT ![s] = c]
    BY <1>1, <1>2, <1>7, <2>2 DEF c
  <2>4. n' = n + 1
    BY <1>1, <1>2, <1>3, <1>7, FS_AddElement
  <2>5. c \in Abstracto!Libres
    <3>1. Abstracto!Cardinality(Sockets) = Cardinality(Sockets)
      BY Zenon DEF Abstracto!Cardinality, Cardinality
    <3>2. \A r \in Registrados : mapa[r] # c
      BY <1>1, <1>3, <2>2
    <3> QED BY <1>5, <2>1, <3>1, <3>2 DEF Abstracto!Libres, Abstracto!EnUso
  <2>6. Abstracto!Abre(s, c)
    BY <1>5, <1>7, <2>3, <2>4, <2>5 DEF Abstracto!Abre
  <2> QED BY <2>5, <2>6 DEF Abstracto!Next
<1>8. ASSUME NEW s \in Registrados, Registrados' = Registrados \ {s}
      PROVE  Abstracto!Next
  <2>1. mapa' = [mapa EXCEPT ![s] = SinCanal]
    BY <1>1, <1>2, <1>3, <1>8 DEF UnaConexion
  <2>2. n' = n - 1
    BY <1>1, <1>2, <1>3, <1>8, FS_RemoveElement
  <2>3. Abstracto!Cierra(s)
    BY <1>5, <2>1, <2>2 DEF Abstracto!Cierra, Abstracto!SinCanal, SinCanal
  <2> QED BY <1>3, <2>3 DEF Abstracto!Next
<1> QED BY <1>6, <1>7, <1>8 DEF UnaConexion
=============================================================================
