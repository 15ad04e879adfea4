----------------------------- MODULE EvtClientYa ----------------------------
(***************************************************************************)
(* The client of EvtClient when bufferevent_socket_connect can fail before *)
(* it returns (connect(2) says at once that there is no route).  The       *)
(* libevent the library is written for (a 2.0: zlEvtTimer.c:52-54 stands   *)
(* in for a function of later versions) then calls the event callback from *)
(* inside bufferevent_socket_connect, and zlEvtSocketClienteConnect looks  *)
(* neither at the answer nor at whether its socket is still there.         *)
(***************************************************************************)
EXTENDS EvtClient

\* Event_cb tells RECHAZADO when zlEvtSocketClienteConnect has set neither
\* cancel_cb nor the timers, and zlEvtClientCommandConnect no canal.
ConnectFallaYa(s) ==
  /\ EnAplicacion
  /\ Reserva(s, FALSE, 0, SinTimers)
  /\ cancel_cb' = [cancel_cb EXCEPT ![s] = FALSE]
  /\ Avisa("ConnectYa", "RECHAZADO", s)
  /\ UNCHANGED <<ub, conexiones>>

\* Event_cb frees the socket, no owner is told, and zlEvtSocketClienteConnect goes
\* on with bufferevent_enable(socket->buffer).
VuelveDeFallaYa ==
  /\ VuelveA("ConnectYa")
  /\ ub' = "memoria liberada"
  /\ mem' = [mem EXCEPT ![Cima.s] = "libre"]
  /\ UNCHANGED <<isConnected, canal, cancel_cb, timer, escritura, pila, conexiones>>

YaNext == \/ ClientNext
          \/ \E s \in Sockets : ConnectFallaYa(s)
          \/ VuelveDeFallaYa

YaSpec == ConInit /\ [][YaNext]_conVars

-----------------------------------------------------------------------------
\* "No hay que hacer nada aqui respecto al socket" (leeme.md:52): an application
\* that leaves a rejected socket alone never makes the library use freed memory.
RejectedNeedsNothing == ub # "memoria liberada"
=============================================================================
