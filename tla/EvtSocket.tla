----------------------------- MODULE EvtSocket ------------------------------
(***************************************************************************)
(* zlEvtSocketComun.c: the sockets that the server and the client share,   *)
(* their ten timers, and the calls back into the application.              *)
(*                                                                         *)
(* The program is one thread around the event loop of libevent.  What is   *)
(* hard is not concurrency but re-entrance: the library calls the          *)
(* application in the middle of its own functions, the application calls   *)
(* the library back (and may free the very socket it was called for), and  *)
(* the library then goes on with what it had in its local variables.  The  *)
(* variable pila is that call stack: one frame per library function that   *)
(* waits for a callback of the application to return.                      *)
(*                                                                         *)
(* Next below is the program of testClient.c: sockets without an owner     *)
(* (zlEvtSocketClienteConnectBasic).  EvtServer and EvtClient extend this  *)
(* module with an owner that keeps a list of its connections.              *)
(***************************************************************************)
EXTENDS Nulo, Integers, Sequences, FiniteSets

CONSTANTS
  Sockets,    \* the addresses malloc can return for a zlEvtSocket_t
  Timers,     \* the numbers of the timers of a socket, 0..9 in the code
  Reglas      \* what the application is careful about, see below

\* The rules an application has to keep for the library to be safe.  None of
\* them is written in the documentation; a run that drops one shows why.
\*   "gastado"  : it does not activate a timer that has already gone off
\*   "cerrando" : it does not free a socket inside its FIN or RECHAZADO callback
\*   "abriendo" : it does not free a server socket inside its CONNECT callback
TodasLasReglas == {"gastado", "cerrando", "abriendo"}

ASSUME SocketAssumption == /\ NULL \notin Sockets
                           /\ Reglas \subseteq TodasLasReglas

VARIABLES
  mem,          \* "libre" or "vivo": whether the struct is allocated
  isConnected,  \* socket->isConnected
  canal,        \* socket->canal
  cancel_cb,    \* whether socket->cancel_cb is set
  timer,        \* socket->timer[i].timer, in the words of the table of zlEvtTimer.c
  salida,       \* whether the output evbuffer of socket->buffer holds bytes
  closeOnWrite, \* socket->closeOnWrite
  pila,         \* the library functions waiting for a callback, outermost first
  ub            \* what undefined behaviour was met: the program is then dead

escritura == <<salida, closeOnWrite>>
socketVars == <<mem, isConnected, canal, cancel_cb, timer, salida, closeOnWrite>>
vars == <<socketVars, pila, ub>>

\* None is a NULL pointer; Desactivado and Activo are a libevent event that is
\* allocated, and allocated and pending.
EstadosTimer == {"None", "Desactivado", "Activo"}

FuncionesDeSocket == {"Read_cb", "Write_cb", "Event_cb", "Timer_cb",
                      "ConnectYa", "ServerConnect", "Disconect"}
FuncionesDeServidor == {"Accept_cb", "Bind"}

\* zlEvtSocketTipoEvento_e, and the events of the owner.
Avisos == {"CONNECT", "DATOS", "WRITE", "FIN", "TIMEOUT", "RECHAZADO",
           "SERVER_CONNECT", "BIND", "NO_BIND", "DISCONNECT"}

\* A function of the library that has called the application: which one, with
\* which event, and about which socket.
Marco(fn, aviso, s) == [fn |-> fn, aviso |-> aviso, s |-> s]

\* NULL stands for the socket of a callback that is not about one.
Marcos == [fn : FuncionesDeSocket, aviso : Avisos, s : Sockets]
            \cup [fn : FuncionesDeServidor, aviso : Avisos, s : {NULL}]

\* The variables hold what their C types and the comments above allow.

TypeOK == /\ mem \in [Sockets -> {"libre", "vivo"}]
          /\ isConnected \in [Sockets -> BOOLEAN]
          /\ canal \in [Sockets -> Nat]
          /\ cancel_cb \in [Sockets -> BOOLEAN]
          /\ timer \in [Sockets -> [Timers -> EstadosTimer]]
          /\ salida \in [Sockets -> BOOLEAN]
          /\ closeOnWrite \in [Sockets -> BOOLEAN]
          /\ pila \in Seq(Marcos)
          /\ ub \in {"no", "memoria liberada", "timer NULL"}

Init == /\ mem = [s \in Sockets |-> "libre"]
        /\ isConnected = [s \in Sockets |-> FALSE]
        /\ canal = [s \in Sockets |-> 0]
        /\ cancel_cb = [s \in Sockets |-> FALSE]
        /\ timer = [s \in Sockets |-> [i \in Timers |-> "None"]]
        /\ salida = [s \in Sockets |-> FALSE]
        /\ closeOnWrite = [s \in Sockets |-> FALSE]
        /\ pila = <<>>
        /\ ub = "no"

-----------------------------------------------------------------------------
\* Where control is.

\* The loop is about to take the next event.
EnBucle == pila = <<>> /\ ub = "no"

\* The application is running: a callback, or its own code outside any.
EnAplicacion == ub = "no"

Cima == pila[Len(pila)]

Resto == SubSeq(pila, 1, Len(pila) - 1)

\* The innermost callback returns to function fn.
VuelveA(fn) == pila # <<>> /\ ub = "no" /\ Cima.fn = fn

EnMarco(fns, avisos, s) ==
  \E k \in 1 .. Len(pila) :
    pila[k].fn \in fns /\ pila[k].aviso \in avisos /\ pila[k].s = s

\* The remote end is gone, the application is being told, and the library will
\* free the socket when the application returns.
Cerrando(s) == EnMarco({"Event_cb", "ConnectYa"}, {"FIN", "RECHAZADO"}, s)

\* The socket was accepted, the application is being told, and the library has
\* not finished with it.
Abriendo(s) == EnMarco({"ServerConnect"}, {"CONNECT"}, s)

-----------------------------------------------------------------------------
\* Effects shared by several functions.

SinTimers == [i \in Timers |-> "None"]
TimersNuevos == [i \in Timers |-> "Desactivado"]

\* malloc and memset: the address is not one that a frame still names.
Reserva(s, conectado, pos, timers) ==
  /\ mem[s] = "libre"
  /\ \A k \in 1 .. Len(pila) : pila[k].s # s
  /\ mem' = [mem EXCEPT ![s] = "vivo"]
  /\ isConnected' = [isConnected EXCEPT ![s] = conectado]
  /\ canal' = [canal EXCEPT ![s] = pos]
  /\ timer' = [timer EXCEPT ![s] = timers]
  /\ salida' = [salida EXCEPT ![s] = FALSE]
  /\ closeOnWrite' = [closeOnWrite EXCEPT ![s] = FALSE]

\* zlEvtSocketTimersInicializa
TimersInicializa(s) == timer' = [timer EXCEPT ![s] = TimersNuevos]

\* Mutant of SocketFree: zlEvtSocketTimersFree is not called.
SocketFreeSinTimers(s, marcos) ==
  IF mem[s] = "vivo"
  THEN /\ mem' = [mem EXCEPT ![s] = "libre"]
       /\ isConnected' = [isConnected EXCEPT ![s] = FALSE]
       /\ canal' = [canal EXCEPT ![s] = 0]
       /\ cancel_cb' = [cancel_cb EXCEPT ![s] = FALSE]
       /\ salida' = [salida EXCEPT ![s] = FALSE]
       /\ closeOnWrite' = [closeOnWrite EXCEPT ![s] = FALSE]
       /\ pila' = IF cancel_cb[s]
                  THEN Append(marcos, Marco("Disconect", "DISCONNECT", s))
                  ELSE marcos
       /\ UNCHANGED <<timer, ub>>
  ELSE ub' = "memoria liberada" /\ UNCHANGED <<socketVars, pila>>

\* zlEvtSocketFree(s) called with the frames marcos on the stack: the
\* bufferevent, the timers and the struct go first, then the owner is told.
\* The content of freed memory is not modelled: it reads as after memset.
SocketFree(s, marcos) ==
  IF mem[s] = "vivo"
  THEN /\ mem' = [mem EXCEPT ![s] = "libre"]
       /\ isConnected' = [isConnected EXCEPT ![s] = FALSE]
       /\ canal' = [canal EXCEPT ![s] = 0]
       /\ cancel_cb' = [cancel_cb EXCEPT ![s] = FALSE]
       /\ timer' = [timer EXCEPT ![s] = SinTimers]
       /\ salida' = [salida EXCEPT ![s] = FALSE]
       /\ closeOnWrite' = [closeOnWrite EXCEPT ![s] = FALSE]
       /\ pila' = IF cancel_cb[s]
                  THEN Append(marcos, Marco("Disconect", "DISCONNECT", s))
                  ELSE marcos
       /\ UNCHANGED ub
  ELSE /\ ub' = "memoria liberada"
       /\ UNCHANGED <<socketVars, pila>>

\* A libevent callback of the library calls socket_cb and has nothing left to
\* do when it returns, or has what the corresponding Vuelve action says.
Avisa(fn, aviso, s) == pila' = Append(pila, Marco(fn, aviso, s))

-----------------------------------------------------------------------------
\* Events of the loop.

zlEvtSocketRead_cb(s) ==
  /\ EnBucle /\ mem[s] = "vivo" /\ isConnected[s]
  /\ Avisa("Read_cb", "DATOS", s)
  /\ UNCHANGED <<socketVars, ub>>

\* The output is drained (or was empty when writing was enabled).
zlEvtSocketWrite_cb(s) ==
  /\ EnBucle /\ mem[s] = "vivo" /\ isConnected[s]
  /\ salida' = [salida EXCEPT ![s] = FALSE]
  /\ Avisa("Write_cb", "WRITE", s)
  /\ UNCHANGED <<mem, isConnected, canal, cancel_cb, timer, closeOnWrite, ub>>

\* BEV_EVENT_CONNECTED
Event_cbConnected(s) ==
  /\ EnBucle /\ mem[s] = "vivo" /\ ~isConnected[s]
  /\ isConnected' = [isConnected EXCEPT ![s] = TRUE]
  /\ Avisa("Event_cb", "CONNECT", s)
  /\ UNCHANGED <<mem, canal, cancel_cb, timer, escritura, ub>>

\* Mutant of Event_cbFin: the socket is freed before the application is told.
Event_cbFinLiberaAntes(s) ==
  /\ EnBucle /\ mem[s] = "vivo"
  /\ SocketFree(s, Append(pila, Marco("Event_cb", "FIN", s)))

\* BEV_EVENT_ERROR or BEV_EVENT_EOF
Event_cbFin(s) ==
  /\ EnBucle /\ mem[s] = "vivo"
  /\ Avisa("Event_cb", IF isConnected[s] THEN "FIN" ELSE "RECHAZADO", s)
  /\ UNCHANGED <<socketVars, ub>>

\* The event of timer i is on: its zlEvtTimer is freed and the slot left NULL
\* before the application is told; nothing creates it again.
zlEvtSocketTimer_cb(s, i) ==
  /\ EnBucle /\ timer[s][i] = "Activo"
  /\ IF mem[s] = "vivo"
     THEN /\ timer' = [timer EXCEPT ![s][i] = "None"]
          /\ Avisa("Timer_cb", "TIMEOUT", s)
          /\ UNCHANGED <<mem, isConnected, canal, cancel_cb, escritura, ub>>
     ELSE /\ ub' = "memoria liberada"
          /\ UNCHANGED <<socketVars, pila>>

\* The callback returns to a function that has nothing left to do.
VuelveSinMas ==
  /\ \/ VuelveA("Read_cb")
     \/ VuelveA("Write_cb")
     \/ VuelveA("Timer_cb")
     \/ VuelveA("Event_cb") /\ Cima.aviso = "CONNECT"
  /\ pila' = Resto
  /\ UNCHANGED <<socketVars, ub>>

\* Mutant of VuelveYLibera: a socket that was connected is left to the
\* application.
VuelveYLiberaRechazados ==
  /\ VuelveA("Event_cb") /\ Cima.aviso \in {"FIN", "RECHAZADO"}
  /\ IF Cima.aviso = "RECHAZADO"
     THEN SocketFree(Cima.s, Resto)
     ELSE pila' = Resto /\ UNCHANGED <<socketVars, ub>>

\* Back from FIN or RECHAZADO, Event_cb frees the socket.
VuelveYLibera ==
  /\ VuelveA("Event_cb") /\ Cima.aviso \in {"FIN", "RECHAZADO"}
  /\ SocketFree(Cima.s, Resto)

Bucle == \E s \in Sockets : \/ zlEvtSocketRead_cb(s)
                            \/ zlEvtSocketWrite_cb(s)
                            \/ Event_cbConnected(s)
                            \/ Event_cbFin(s)
                            \/ \E i \in Timers : zlEvtSocketTimer_cb(s, i)

Vuelve == VuelveSinMas \/ VuelveYLibera

-----------------------------------------------------------------------------
\* Calls of the application, from a callback or from outside (eventoInicia, or
\* an event of its own).  It holds no pointer to a socket it knows to be gone.

zlEvtSocketFree(s) ==
  /\ EnAplicacion /\ mem[s] = "vivo"
  /\ "cerrando" \in Reglas => ~Cerrando(s)
  /\ "abriendo" \in Reglas => ~Abriendo(s)
  /\ SocketFree(s, pila)

\* The pointer of the slot is followed without a look.
zlEvtSocketTimerActiva(s, i) ==
  /\ EnAplicacion /\ mem[s] = "vivo"
  /\ "gastado" \in Reglas => timer[s][i] # "None"
  /\ IF timer[s][i] = "None"
     THEN ub' = "timer NULL" /\ UNCHANGED timer
     ELSE timer' = [timer EXCEPT ![s][i] = "Activo"] /\ UNCHANGED ub
  /\ UNCHANGED <<mem, isConnected, canal, cancel_cb, escritura, pila>>

\* Here the pointer is looked at.
zlEvtSocketTimerDesactiva(s, i) ==
  /\ EnAplicacion /\ mem[s] = "vivo" /\ timer[s][i] # "None"
  /\ timer' = [timer EXCEPT ![s][i] = "Desactivado"]
  /\ UNCHANGED <<mem, isConnected, canal, cancel_cb, escritura, pila, ub>>

\* zlEvtSocketWriteCommand is the call with cierra = FALSE.
zlEvtSocketWriteCommandCierre(s, cierra) ==
  /\ EnAplicacion /\ mem[s] = "vivo"
  /\ salida' = [salida EXCEPT ![s] = TRUE]
  /\ closeOnWrite' = [closeOnWrite EXCEPT ![s] = cierra]
  /\ UNCHANGED <<mem, isConnected, canal, cancel_cb, timer, pila, ub>>

\* Mutant of zlEvtSocketClienteConnectBasic: "no channel" is a negative one.
ConnectBasicSinCanal(s) ==
  /\ EnAplicacion
  /\ Reserva(s, FALSE, -1, TimersNuevos)
  /\ cancel_cb' = [cancel_cb EXCEPT ![s] = FALSE]
  /\ UNCHANGED <<pila, ub>>

\* No owner: socket->cancel_cb = NULL.
zlEvtSocketClienteConnectBasic(s) ==
  /\ EnAplicacion
  /\ Reserva(s, FALSE, 0, TimersNuevos)
  /\ cancel_cb' = [cancel_cb EXCEPT ![s] = FALSE]
  /\ UNCHANGED <<pila, ub>>

LlamadasSinLiberar(s) ==
  \/ \E i \in Timers : zlEvtSocketTimerActiva(s, i) \/ zlEvtSocketTimerDesactiva(s, i)
  \/ \E cierra \in BOOLEAN : zlEvtSocketWriteCommandCierre(s, cierra)

Llamadas == \E s \in Sockets :
               \/ zlEvtSocketFree(s)
               \/ LlamadasSinLiberar(s)

-----------------------------------------------------------------------------
Next == \/ Bucle
        \/ Vuelve
        \/ Llamadas
        \/ \E s \in Sockets : zlEvtSocketClienteConnectBasic(s)

\* A callback of the application returns; so does the function that called it.
Fairness == WF_vars(Vuelve)

Spec == Init /\ [][Next]_vars /\ Fairness

-----------------------------------------------------------------------------
\* No function of the library touches a socket or a timer that is gone, wherever
\* the application frees its sockets (its own or others, nested to any depth).
NoUB == ub = "no"

\* zlEvtSocketFree takes the timers with it: none is left that would go off on a
\* socket whose memory was returned, although timers are events of the base and
\* not of the socket.
TimersDieWithSocket ==
  \A s \in Sockets : mem[s] = "libre" => \A i \in Timers : timer[s][i] = "None"

\* The socket that Event_cb will free when FIN or RECHAZADO returns is still
\* there all through that callback.
ClosingIsAlive == \A s \in Sockets : Cerrando(s) => mem[s] = "vivo"

\* Only the callback of DISCONNECT is ever run inside another one: whatever else
\* the library reports, it reports from the loop.
SoloDisconectEncima == \A k \in 2 .. Len(pila) : pila[k].fn = "Disconect"

\* What the steps of sockets preserve, with or without an owner: NoUB needs the
\* three conjuncts after it.
SocketInv == /\ TypeOK
             /\ NoUB
             /\ TimersDieWithSocket
             /\ ClosingIsAlive
             /\ SoloDisconectEncima

\* "10 timers para usar como queramos" (zlEvtSocketComun.h:56): activating a timer
\* of a socket that is there never follows a NULL pointer.
ActivateIsSafe == ub # "timer NULL"

\* A socket of which the application was told FIN or RECHAZADO is freed without
\* any help of the application ("No hay que hacer nada aqui respecto al socket").
ClosedIsFreed ==
  \A s \in Sockets : Cerrando(s) ~> mem[s] = "libre"
=============================================================================
