---------------------------- MODULE PruebaSocket ----------------------------
(***************************************************************************)
(* testSocketMain.c, testServer1.c and testCliente1.c, the test of the     *)
(* former zlEvtSocket.lib (SocketViejo): a client that finds nobody at the *)
(* port; and a server and a client in one loop, whose messages are not     *)
(* delimited: a read gives what has come, whether it is one message, two   *)
(* or more.  A message is short enough to come whole.                      *)
(***************************************************************************)
EXTENDS Integers, Sequences

VARIABLES
  sMain,       \* what main is at: "inicio", "test1", "test2" or "fin"
  sServer,     \* the listener of testServer1: "no", "intenta", "escucha" or "libre"
  sDiferido,   \* the timer of lanzaCliente1Diferido waits
  sSocket,     \* of the socket of main, of the client and of its connection in the
               \* server: "no", "conecta", "abierto" or "cerrado"
  sRed,        \* what is on its way to the client and to the server
  sContador,   \* contadorCliente1
  sMal         \* an assertion failed

pruebaSocketVars == <<sMain, sServer, sDiferido, sSocket, sRed, sContador, sMal>>

FINSERVER == 100     \* "finServer" and "cierrate"; "hola" and a number is the number
CIERRATE == 200

PruebaSocketInit ==
  /\ sMain = "inicio"
  /\ sServer = "no"
  /\ sDiferido = FALSE
  /\ sSocket = [s \in {"main", "cliente", "server"} |-> "no"]
  /\ sRed = [s \in {"cliente", "server"} |-> <<>>]
  /\ sContador = 0
  /\ sMal = FALSE

\* event_base_dispatch has no event left.
SinEventos == /\ sServer \in {"no", "libre"} /\ ~sDiferido
              /\ \A s \in DOMAIN sSocket : sSocket[s] \in {"no", "cerrado"}

mainTest1 == /\ sMain = "inicio"
             /\ sMain' = "test1"
             /\ sSocket' = [sSocket EXCEPT !["main"] = "conecta"]
             /\ UNCHANGED <<sServer, sDiferido, sRed, sContador, sMal>>

\* testServer1, and the timer of the client.
mainTest2 == /\ sMain = "test1" /\ SinEventos
             /\ sMain' = "test2"
             /\ sServer' = "intenta"
             /\ sDiferido' = TRUE
             /\ UNCHANGED <<sSocket, sRed, sContador, sMal>>

finTest2 == /\ sMain = "test2" /\ SinEventos
           /\ sMain' = "fin"
           /\ UNCHANGED <<sServer, sDiferido, sSocket, sRed, sContador, sMal>>

\* A connect that finds nobody, or the end of a connection: close_i, which does nothing.
Cierra(s, cuando) ==
  /\ sSocket[s] # "cerrado" /\ cuando
  /\ sSocket' = [sSocket EXCEPT ![s] = "cerrado"]
  /\ UNCHANGED <<sMain, sServer, sDiferido, sRed, sContador, sMal>>
closeSocket == Cierra("main", sSocket["main"] = "conecta" /\ sServer # "escucha")
closeCliente1 == Cierra("cliente", sRed["cliente"] = <<>> /\ sSocket["server"] = "cerrado")
closeServer1 == Cierra("server", sRed["server"] = <<>> /\ sSocket["cliente"] = "cerrado")

\* The port is free, as the first test found it.
bindServer1 == /\ sServer = "intenta"
               /\ sServer' = "escucha"
               /\ UNCHANGED <<sMain, sDiferido, sSocket, sRed, sContador, sMal>>

\* One second after the bind.
lanzaCliente1Diferido ==
  /\ sDiferido /\ sServer = "escucha"
  /\ sDiferido' = FALSE
  /\ sSocket' = [sSocket EXCEPT !["cliente"] = "conecta"]
  /\ UNCHANGED <<sMain, sServer, sRed, sContador, sMal>>

\* The kernel connects them before the loop tells either.
connectServer1 == /\ sServer = "escucha"
                  /\ sSocket["server"] = "no" /\ sSocket["cliente"] # "no"
                  /\ sSocket' = [sSocket EXCEPT !["server"] = "abierto"]
                  /\ UNCHANGED <<sMain, sServer, sDiferido, sRed, sContador, sMal>>

connectCliente1 == /\ sSocket["cliente"] = "conecta"
                   /\ sSocket' = [sSocket EXCEPT !["cliente"] = "abierto"]
                   /\ sContador' = sContador + 1
                   /\ sRed' = [sRed EXCEPT !["server"] = Append(@, sContador')]
                   /\ UNCHANGED <<sMain, sServer, sDiferido, sMal>>

\* What read_i takes out of the buffer, and what it writes.
Recibe(s, otro, k, respuesta) ==
  /\ sSocket[s] = "abierto" /\ k \in 1 .. Len(sRed[s])
  /\ sRed' = [sRed EXCEPT ![s] = SubSeq(@, k + 1, Len(@)), ![otro] = @ \o respuesta]
  /\ UNCHANGED <<sMain, sDiferido>>

\* The echo; or the listener goes and the client is told to close.
readServer1(k) ==
  LET leido == SubSeq(sRed["server"], 1, k)
  IN \/ /\ Recibe("server", "cliente", k, leido) /\ leido[1] # FINSERVER
        /\ UNCHANGED <<sServer, sSocket, sContador, sMal>>
     \/ /\ Recibe("server", "cliente", k, <<CIERRATE>>) /\ leido[1] = FINSERVER
        /\ sServer' = "libre"
        /\ sMal' = (sServer = "libre")
        /\ UNCHANGED <<sSocket, sContador>>

\* What it asked is what must come, and it asks again, three times in all.
readCliente1(k) ==
  LET leido == SubSeq(sRed["cliente"], 1, k)
  IN \/ /\ Recibe("cliente", "server", k, <<>>) /\ leido = <<CIERRATE>>
        /\ sSocket' = [sSocket EXCEPT !["cliente"] = "cerrado"]
        /\ UNCHANGED <<sServer, sContador, sMal>>
     \/ /\ Recibe("cliente", "server", k, IF sContador = 3 THEN <<FINSERVER>> ELSE <<sContador + 1>>)
        /\ leido # <<CIERRATE>>
        /\ sContador' = IF sContador = 3 THEN 3 ELSE sContador + 1
        /\ sMal' = (leido # <<sContador>>)
        /\ UNCHANGED <<sServer, sSocket>>

PruebaSocketNext ==
  /\ ~sMal
  /\ \/ mainTest1 \/ mainTest2 \/ finTest2
     \/ closeSocket \/ closeCliente1 \/ closeServer1
     \/ bindServer1 \/ lanzaCliente1Diferido \/ connectServer1 \/ connectCliente1
     \/ \E k \in 1 .. Len(sRed["server"]) : readServer1(k)
     \/ \E k \in 1 .. Len(sRed["cliente"]) : readCliente1(k)

-----------------------------------------------------------------------------
\* Nothing makes two messages be read as one, and the listener is freed once.
SocketTestHolds == ~sMal

\* The loop of the second test comes to have no events: the listener and both sockets
\* are gone.
SocketTestEnds == <>(sMain = "fin")
=============================================================================
