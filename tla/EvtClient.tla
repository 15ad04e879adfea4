------------------------------ MODULE EvtClient -----------------------------
(***************************************************************************)
(* zlEvtClient.c: an owner of outgoing connections.  Each call of          *)
(* zlEvtClientCommandConnect makes a socket and then keeps it in the list  *)
(* of the client; the position becomes socket->canal.                      *)
(*                                                                         *)
(* The application may call it anywhere, so a connection can be opened,    *)
(* and take a position, inside the callback that reports the end of        *)
(* another one (the usual place to reconnect from).                        *)
(***************************************************************************)
EXTENDS Conexiones

-----------------------------------------------------------------------------
\* Mutant of zlEvtClientCommandConnect: canal keeps the 0 of memset.
CommandConnectSinCanal(s) ==
  /\ EnAplicacion
  /\ Reserva(s, FALSE, 0, TimersNuevos)
  /\ cancel_cb' = [cancel_cb EXCEPT ![s] = TRUE]
  /\ conexiones' = zlListapUpdateOrAppend(conexiones, s)
  /\ UNCHANGED <<pila, ub>>

\* The connection is under way when bufferevent_socket_connect returns: its
\* outcome comes from the loop, when everything is in place.
zlEvtClientCommandConnect(s) ==
  /\ EnAplicacion
  /\ Reserva(s, FALSE, zlListapFirstItemFree(conexiones), TimersNuevos)
  /\ cancel_cb' = [cancel_cb EXCEPT ![s] = TRUE]
  /\ conexiones' = zlListapUpdateOrAppend(conexiones, s)
  /\ UNCHANGED <<pila, ub>>

ClientNext == \/ ConBucle
              \/ ConVuelve
              \/ ConLlamadas
              \/ \E s \in Sockets : zlEvtClientCommandConnect(s)

ClientSpec == ConInit /\ [][ClientNext]_conVars

-----------------------------------------------------------------------------
\* What every step of a client preserves: no socket of it is ever accepted.
ClientInv == ConInv /\ \A s \in Sockets : ~Abriendo(s)
=============================================================================
