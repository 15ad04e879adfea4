------------------------------ MODULE Pruebas -------------------------------
(***************************************************************************)
(* The tests of zlEvtSockSer0.lib, in testSocketServerNoProbado: the event *)
(* loop with a server (ServidorViejo), and one or two clients with a       *)
(* thread each that blocks in read until it has the answer and then sends  *)
(* SIGUSR1 to the thread of the loop, where the test is judged.            *)
(*                                                                         *)
(* What is written is counted in lines of the file, and a text or the ETX  *)
(* that ends a file is one more.  Each test is a script, data for the      *)
(* machine below.                                                          *)
(***************************************************************************)
EXTENDS Integers, FiniteSets

CONSTANT Trozos     \* the lines of file3000.txt

ASSUME TrozosAssumption == Trozos \in Nat

VARIABLES
  prueba,       \* the test that runs
  pServidor,    \* "intenta", "escucha" or "libre"
  pEvento,      \* whether the event of SIGUSR1 is there
  pSenal,       \* the signals caught that the loop has not seen
  pConexion,    \* of each client, the server's side
  pCliente,     \* and its own
  pUb,          \* memory of the server was used after it was freed
  pMuerto,      \* "no", or what killed the process: "senal", "memoria"
  pMal          \* an assertion of the test failed

pVars == <<prueba, pServidor, pEvento, pSenal, pConexion, pCliente, pUb, pMuerto, pMal>>
fallos == <<pUb, pMuerto, pMal>>

\* Where a client writes its text and starts to read; what the server answers; how the
\* client reads; what the signal (or the timer) and the end of a connection do.
Guion(clientes, lanza, responde, lee, senal, alCerrar) ==
  [clientes |-> clientes, lanza |-> lanza, responde |-> responde, lee |-> lee,
   senal |-> senal, alCerrar |-> alCerrar]

testCliente ==
  Guion({1}, "connect", "eco", "Read", "cierra", {"servidor", "evento"})
testClienteCloseServer ==
  Guion({1}, "connect", "ecoYCierra", "Read", "texto", {"servidor"})
testClienteLargo1 ==
  Guion({1}, "connect", "archivo", "ReadLargo", "largo", {"servidor"})
testClienteLargo2 ==
  Guion({1}, "connect", "trozos", "ReadLargo1", "largo", {"servidor"})
testVariosClientes ==
  Guion({1, 2}, "bind", "trozos", "multi", "varios", {})

testCierre ==
  Guion({}, "nadie", "nada", "nada", "timer", {})

Guiones == {testCliente, testClienteCloseServer, testClienteLargo1, testClienteLargo2,
            testVariosClientes, testCierre}

Clientes == prueba.clientes
Total == Trozos + 1

PruebaInit ==
  /\ pServidor = "intenta"
  /\ pEvento = (prueba # testCierre)
  /\ pSenal = 0
  /\ pConexion = [c \in {1, 2} |-> [estado |-> "no", texto |-> "no", queda |-> -1,
                                    sale |-> 0, cierra |-> FALSE, red |-> 0]]
  /\ pCliente = [c \in {1, 2} |-> [hilo |-> "no", leido |-> 0, retEstado |-> 1,
                                   terminado |-> 0, abierto |-> TRUE]]
  /\ pUb = FALSE
  /\ pMuerto = "no"
  /\ pMal = FALSE

\* The loop has no event left: it returns, and the process ends, a while after.
PAcabado == /\ pServidor = "libre" /\ ~pEvento
            /\ \A c \in Clientes : pConexion[c].estado = "cerrada"

PSigue == pMuerto = "no" /\ ~pMal

-----------------------------------------------------------------------------
\* The clients.

\* simpleSocketCliente, inside bind_i: connect returns when the kernel has it queued.
ConectaSimple(c) == [pConexion[c] EXCEPT !.estado = "cola"]

\* multiSocketCliente, and its text at once.
ConectaMulti(c) == [pConexion[c] EXCEPT !.estado = "cola", !.texto = "enviado"]

LanzaHilo(c) == [pCliente[c] EXCEPT !.hilo = "lee"]

\* What read can return: some of what has come or, at the end of the connection, 0.
Llega(c) == IF pConexion[c].red > 0 THEN 1 .. pConexion[c].red
            ELSE IF pConexion[c].estado = "cerrada" THEN {0} ELSE {}

\* The last of all that is read is the ETX.
VeETX(c, k) == pConexion[c].cierra /\ pConexion[c].sale = 0 /\ pConexion[c].red = k /\ k > 0

LeeHilo(c, k, sigue) ==
  /\ pCliente[c].hilo = "lee"
  /\ pConexion' = [pConexion EXCEPT ![c].red = @ - k]
  /\ pCliente' = [pCliente EXCEPT ![c].leido = @ + k, ![c].retEstado = k,
                                  ![c].hilo = IF sigue THEN "lee" ELSE "leido"]
  /\ UNCHANGED <<prueba, pServidor, pEvento, pSenal, fallos>>

\* One recv, whatever it gives.
simpleClienteRead(c) == /\ prueba.lee = "Read"
                        /\ \E k \in Llega(c) : LeeHilo(c, k, FALSE)

\* Until the ETX: at the end of the connection it goes on reading.
simpleClienteReadLargo(c) == /\ prueba.lee = "ReadLargo"
                             /\ \E k \in Llega(c) : LeeHilo(c, k, ~VeETX(c, k))

\* Until the ETX or the end.
simpleClienteReadLargo1(c) == /\ prueba.lee = "ReadLargo1"
                              /\ \E k \in Llega(c) : LeeHilo(c, k, ~VeETX(c, k) /\ k > 0)

\* As simpleClienteReadLargo; and before the signal, in a step of its own, terminado.
multiClienteReadLargo(c) ==
  \/ /\ prueba.lee = "multi"
     /\ \E k \in Llega(c) : LeeHilo(c, k, ~VeETX(c, k))
  \/ /\ pCliente[c].hilo = "leido" /\ prueba.lee = "multi" /\ pCliente[c].terminado = 0
     /\ pCliente' = [pCliente EXCEPT ![c].terminado = 1]
     /\ UNCHANGED <<prueba, pServidor, pEvento, pSenal, pConexion, fallos>>

\* pthread_kill: a signal that finds another one pending may be lost in it; without
\* the event, libevent has put back the default action.
pthread_kill(c) ==
  /\ pCliente[c].hilo = "leido"
  /\ prueba.lee = "multi" => pCliente[c].terminado # 0
  /\ pCliente' = [pCliente EXCEPT ![c].hilo = "fin"]
  /\ pMuerto' = IF pEvento THEN "no" ELSE "senal"
  /\ pSenal' \in IF pEvento THEN {1, pSenal + 1} ELSE {pSenal}
  /\ UNCHANGED <<prueba, pServidor, pEvento, pConexion, pUb, pMal>>

-----------------------------------------------------------------------------
\* The loop.

\* The bind timer, and bind_i, where the clients connect.
Bind ==
  /\ pServidor = "intenta"
  /\ pServidor' = "escucha"
  /\ pConexion' = [c \in {1, 2} |-> IF c \notin Clientes THEN pConexion[c]
                                    ELSE IF prueba.lanza = "bind" THEN ConectaMulti(c)
                                    ELSE ConectaSimple(c)]
  /\ pCliente' = [c \in {1, 2} |-> IF c \in Clientes /\ prueba.lanza = "bind"
                                   THEN LanzaHilo(c) ELSE pCliente[c]]
  /\ UNCHANGED <<prueba, pEvento, pSenal, fallos>>

\* Accept_cb and connect_i, where the single clients write and start to read.
Accept(c) ==
  /\ pServidor = "escucha" /\ pConexion[c].estado = "cola"
  /\ pConexion' = [pConexion EXCEPT ![c].estado = "abierta", ![c].texto = "enviado"]
  /\ pCliente' = [pCliente EXCEPT ![c].hilo = IF @ = "no" THEN "lee" ELSE @]
  /\ UNCHANGED <<prueba, pServidor, pEvento, pSenal, fallos>>

Contesta(c, respuesta) ==
  /\ pConexion[c].estado = "abierta" /\ pConexion[c].texto = "enviado"
  /\ pConexion' = [pConexion EXCEPT ![c] = respuesta]
  /\ UNCHANGED <<prueba, pServidor, pEvento, pSenal, pCliente, fallos>>

\* read_i of the tests: the text back, or all of the file, or the file line by line.
readSocket_cb(c) ==
  /\ prueba.responde = "eco"
  /\ Contesta(c, [pConexion[c] EXCEPT !.texto = "leido", !.sale = 1])
c1_readSocket_cb(c) ==
  /\ prueba.responde = "ecoYCierra"
  /\ Contesta(c, [pConexion[c] EXCEPT !.texto = "leido", !.sale = 1, !.cierra = TRUE])
c2_writeFile(c) ==
  /\ prueba.responde = "archivo"
  /\ Contesta(c, [pConexion[c] EXCEPT !.texto = "leido", !.sale = Total, !.cierra = TRUE])
c3_readSocket_cb(c) ==
  /\ prueba.responde = "trozos"
  /\ Contesta(c, [pConexion[c] EXCEPT !.texto = "leido", !.queda = Trozos])

\* The kernel takes part of the output.
Escribe(c) ==
  /\ pConexion[c].estado = "abierta"
  /\ \E k \in 1 .. pConexion[c].sale - 1 :
       pConexion' = [pConexion EXCEPT ![c].sale = @ - k, ![c].red = @ + k]
  /\ UNCHANGED <<prueba, pServidor, pEvento, pSenal, pCliente, fallos>>

\* It takes all of it, or there was none, and write_i is called: the next line, or the
\* ETX and the order to close.
c3_writeSocket_cb(c) ==
  /\ pConexion[c].estado = "abierta" /\ ~pConexion[c].cierra /\ pConexion[c].queda >= 0
  /\ pConexion' = [pConexion EXCEPT ![c].red = @ + pConexion[c].sale,
                                    ![c].sale = 1,
                                    ![c].queda = @ - 1,
                                    ![c].cierra = (pConexion[c].queda = 0)]
  /\ UNCHANGED <<prueba, pServidor, pEvento, pSenal, pCliente, fallos>>

\* In the test of the echo there is no write_i, and in that of the whole file it must
\* not be called.
c2_writeSocket_cb(c) ==
  /\ pConexion[c].estado = "abierta" /\ ~pConexion[c].cierra
  /\ pConexion[c].sale > 0 /\ pConexion[c].queda < 0
  /\ pConexion' = [pConexion EXCEPT ![c].red = @ + pConexion[c].sale, ![c].sale = 0]
  /\ pMal' = (prueba.responde = "archivo")
  /\ UNCHANGED <<prueba, pServidor, pEvento, pSenal, pCliente, pUb, pMuerto>>

\* close_i, where the tests with one client free the server; the library then reads the
\* server, and writes in its register if it says that it has one.  Of a server that was
\* freed it finds what is left there, and goes on, or the process dies of it.
AlCerrar == /\ pServidor' = IF "servidor" \in prueba.alCerrar THEN "libre" ELSE pServidor
            /\ pEvento' = (pEvento /\ "evento" \notin prueba.alCerrar)
            /\ pUb' = (pUb \/ pServidor' = "libre")
            /\ pMuerto' \in IF pServidor' = "libre" THEN {"no", "memoria"} ELSE {"no"}

\* Mutant of WriteClose_cb: the connection is closed without waiting for the output.
CierraSinEscribir(c) ==
  /\ pConexion[c].estado = "abierta" /\ pConexion[c].cierra
  /\ pConexion' = [pConexion EXCEPT ![c].sale = 0, ![c].estado = "cerrada"]
  /\ AlCerrar
  /\ UNCHANGED <<prueba, pSenal, pCliente, pMal>>

\* The last of the output is taken and the order was to close: close_i, and the end of
\* the connection.
WriteClose_cb(c) ==
  /\ pConexion[c].estado = "abierta" /\ pConexion[c].cierra
  /\ pConexion' = [pConexion EXCEPT ![c].red = @ + pConexion[c].sale, ![c].sale = 0,
                                    ![c].estado = "cerrada"]
  /\ AlCerrar
  /\ UNCHANGED <<prueba, pSenal, pCliente, pMal>>

\* The end of the connection that a client closed: closeSocket_cb looks at what it read.
closeSocket_cb(c) ==
  /\ pConexion[c].estado = "abierta" /\ ~pCliente[c].abierto
  /\ pConexion' = [pConexion EXCEPT ![c].estado = "cerrada"]
  /\ AlCerrar
  /\ pMal' = (pCliente[c].leido # 1)
  /\ UNCHANGED <<prueba, pSenal, pCliente>>

-----------------------------------------------------------------------------
\* The callback of SIGUSR1.
Senal(s) == prueba.senal = s /\ pEvento /\ pSenal > 0

sigusr1_cb ==
  /\ Senal("cierra")
  /\ pCliente' = [pCliente EXCEPT ![1].abierto = FALSE]
  /\ pSenal' = pSenal - 1
  /\ UNCHANGED <<prueba, pServidor, pEvento, pConexion, fallos>>

\* event_free: what was caught and not seen is dropped.
LiberaEvento == pEvento' = FALSE /\ pSenal' = 0

c1_sigusr1_cb ==
  /\ Senal("texto")
  /\ pMal' = (pCliente[1].leido # 1)
  /\ LiberaEvento
  /\ UNCHANGED <<prueba, pServidor, pConexion, pCliente, pUb, pMuerto>>

c2_sigusr1_cb ==
  /\ Senal("largo")
  /\ pMal' = (pCliente[1].retEstado <= 0 \/ pCliente[1].leido # Total)
  /\ LiberaEvento
  /\ UNCHANGED <<prueba, pServidor, pConexion, pCliente, pUb, pMuerto>>

ABien(comprobados) ==
  /\ pMal' = (\E c \in comprobados : pCliente[c].retEstado <= 0 \/ pCliente[c].leido # Total)
  /\ pCliente' = [c \in {1, 2} |-> IF c \in comprobados
                                   THEN [pCliente[c] EXCEPT !.terminado = 2] ELSE pCliente[c]]
  /\ IF \A c \in Clientes : pCliente'[c].terminado = 2
     THEN LiberaEvento /\ pServidor' = "libre"
     ELSE pSenal' = pSenal - 1 /\ UNCHANGED <<pEvento, pServidor>>
  /\ UNCHANGED <<prueba, pConexion, pUb, pMuerto>>

\* Mutant of c4_sigusr1_cb: one client for each signal.
SenalSoloUno ==
  /\ Senal("varios")
  /\ LET listos == {c \in Clientes : pCliente[c].terminado = 1}
     IN ABien(IF 1 \in listos THEN {1} ELSE listos)

\* All the clients that have finished, whoever sent the signal; and after the last of
\* them the server goes.
c4_sigusr1_cb ==
  /\ Senal("varios")
  /\ ABien({c \in Clientes : pCliente[c].terminado = 1})

\* The timer of testCierre, three seconds after the bind.
funcionDiferida ==
  /\ prueba.senal = "timer" /\ pServidor = "escucha"
  /\ pServidor' = "libre"
  /\ UNCHANGED <<prueba, pEvento, pSenal, pConexion, pCliente, fallos>>

Hilos == \E c \in Clientes : \/ simpleClienteRead(c) \/ simpleClienteReadLargo(c)
                              \/ simpleClienteReadLargo1(c) \/ multiClienteReadLargo(c)
                              \/ pthread_kill(c)

Loop == \/ Bind
        \/ \E c \in Clientes :
             \/ Accept(c)
             \/ readSocket_cb(c) \/ c1_readSocket_cb(c) \/ c2_writeFile(c) \/ c3_readSocket_cb(c)
             \/ Escribe(c) \/ c2_writeSocket_cb(c) \/ c3_writeSocket_cb(c)
             \/ WriteClose_cb(c) \/ closeSocket_cb(c)
        \/ sigusr1_cb \/ c1_sigusr1_cb \/ c2_sigusr1_cb \/ c4_sigusr1_cb
        \/ funcionDiferida

PruebaNext == PSigue /\ (Hilos \/ (~PAcabado /\ Loop))

\* Neither the loop nor the threads stop while they have something to do.
PruebaSpec == /\ prueba \in Guiones /\ PruebaInit
              /\ [][PruebaNext]_pVars
              /\ WF_pVars(PruebaNext)

-----------------------------------------------------------------------------
\* No assertion of a test fails, whatever the order of the threads, of the signals and
\* of what the kernel takes and gives, as long as the process lives.
ServerTestsHold == ~pMal

\* A test whose process nothing kills is left without events, and ends.  The two below
\* are about what kills it.
ServerTestsEnd == ([](pMuerto = "no")) => <>PAcabado

\* The comment on close_i says that all is closed in it and the program then leaves by
\* itself: the server is not used when it has been freed there.  (It is.)
ServerOutlivesConnections == ~pUb

\* A test with threads frees its server, and its event, when the clients have all of
\* their answers, and the program leaves by itself.  (The signal of one of them may be
\* still to come, and kill it.)
NobodyIsKilled == pMuerto # "senal"
=============================================================================
