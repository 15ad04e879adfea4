--------------------------- MODULE RegistroViejo ----------------------------
(***************************************************************************)
(* What the two servers of libevent.ws.old have alike: a listener that is  *)
(* bound by a timer, which tries again or not, and a register of the       *)
(* connections whose slots, once made, keep a log each for the connections *)
(* that come to have them.  The logs are channels of zlLog (module Log),   *)
(* where the application has another.                                      *)
(***************************************************************************)
EXTENDS Viejo, FiniteSets

CONSTANT FilesLog    \* the FILEs that fopen can return for these logs

\* Module Log has what happens when fopen fails.
ASSUME FilesLogAssumption == /\ IsFiniteSet(Cxs) /\ NULL \notin Cxs
                             /\ NULL \notin FilesLog \cup {"stdout"}
                             /\ "stdout" \notin FilesLog
                             /\ Cardinality(FilesLog) > Cardinality(Cxs)

VARIABLES
  vServidor,     \* "no", "creado", "intenta", "fallo", "escucha", or "libre" at the end
  vRegistra,     \* the server has a register, or the sockets a list
  vPrefijo,      \* prefijoLog is not empty
  vRegistro,     \* the slots: item, or NULL, and nLog
  vNItem,        \* the number of the slot of each connection, or -1
  vLog, vAbiertos, vNumero, vEnUso, vPedido    \* those of Log

ajustes == <<vRegistra, vPrefijo>>
logVars == <<vLog, vAbiertos, vNumero, vEnUso, vPedido>>
registroVars == <<vRegistro, vNItem, logVars>>
servidorVars == <<vServidor, ajustes, registroVars>>

\* What stays as it was: the general log, the panic log, and that nothing is flushed.
Quieto == [general |-> [Activo |-> FALSE, LogFd |-> NULL, LogLevel |-> 0],
           panic |-> NULL, flush |-> FALSE, ub |-> FALSE, vivo |-> TRUE]

\* One log for each slot there can be, and after them that of the application.
LogApp == Cardinality(Cxs)

Lg == INSTANCE Log WITH
        Logs <- 0 .. LogApp, Files <- FilesLog, STDOUT <- "stdout", Niveles <- {1},
        ReglasLog <- {"cerrado", "reinicia"},
        zlLog <- vLog, abiertos <- vAbiertos, numero <- vNumero, enUso <- vEnUso,
        pedido <- vPedido, zlLogs <- Quieto.general, MiPanic <- Quieto.panic,
        zlLogFlush <- Quieto.flush, pendiente <- {}, ubLog <- Quieto.ub, vivo <- Quieto.vivo

RegistroInit == /\ vServidor = "no"
                /\ vRegistra \in BOOLEAN
                /\ vPrefijo \in {FALSE, vRegistra}
                /\ vRegistro = <<>>
                /\ vNItem = [s \in Cxs |-> -1]
                /\ vLog = <<>>
                /\ vAbiertos = {"stdout"}
                /\ vNumero = [l \in 0 .. LogApp |-> -1]
                /\ vEnUso = {}
                /\ vPedido = [l \in 0 .. LogApp |-> Lg!zlLog0]

\* What fopen returns: any FILE that is not open.
Fopen == CHOOSE fd \in FilesLog : fd \notin vAbiertos

-----------------------------------------------------------------------------
Huecos == {i \in DOMAIN vRegistro : vRegistro[i].item = NULL}

\* The first slot without a connection, or the one past the end.
Hueco == IF Huecos = {}
         THEN Len(vRegistro) + 1
         ELSE CHOOSE i \in Huecos : \A otro \in Huecos : i <= otro

\* A new slot with its log; one that has been used before keeps the log it had.
Anota(s) ==
  /\ vNItem' = [vNItem EXCEPT ![s] = Hueco - 1]
  /\ IF Hueco \in DOMAIN vRegistro
     THEN vRegistro' = [vRegistro EXCEPT ![Hueco].item = s] /\ UNCHANGED logVars
     ELSE IF vPrefijo
          THEN /\ Lg!LgInit(Hueco - 1, Fopen, 1)
               /\ vRegistro' = Append(vRegistro, [item |-> s, nLog |-> Lg!Crea])
          ELSE vRegistro' = Append(vRegistro, [item |-> s, nLog |-> -1]) /\ UNCHANGED logVars

Borra(n) ==
  /\ vRegistro' = IF n + 1 \in DOMAIN vRegistro
                  THEN [vRegistro EXCEPT ![n + 1].item = NULL]
                  ELSE vRegistro
  /\ UNCHANGED <<vNItem, logVars>>

\* The connection gets its slot, if there is a register.
Entra(s) == IF vRegistra
            THEN Anota(s)
            ELSE vNItem' = [vNItem EXCEPT ![s] = -1] /\ UNCHANGED <<vRegistro, logVars>>

\* The application opens and closes a log of its own.
LogAppInit == /\ ~vUb
              /\ Lg!LgInit(LogApp, Fopen, 1)
              /\ UNCHANGED <<viejoVars, vServidor, ajustes, vRegistro, vNItem>>
LogAppClose == /\ ~vUb
               /\ Lg!LgClose(LogApp)
               /\ UNCHANGED <<viejoVars, vServidor, ajustes, vRegistro, vNItem>>

-----------------------------------------------------------------------------
Estado(desde, hasta) == ~vUb /\ vServidor = desde /\ vServidor' = hasta
                      /\ UNCHANGED <<ajustes, registroVars, conexionVars, vUb>>

\* The timer of the bind: it listens, or tries again without a word when there is a
\* timeoutBind, or gives up when there is none.
TimeoutBind == \/ VBucle /\ Estado("intenta", "escucha") /\ VAvisaYNada
               \/ VBucle /\ Estado("intenta", "intenta") /\ UNCHANGED vPila
               \/ VBucle /\ Estado("intenta", "fallo") /\ VAvisaYNada

\* evconnlistener_free of what was never a listener, or was freed, is undefined.
LiberaListener ==
  /\ ~vUb /\ vServidor # "no"
  /\ "servidor" \in ReglasViejas => vServidor = "escucha"
  /\ vUb' = (vServidor # "escucha")
  /\ vServidor' = "libre"
  /\ UNCHANGED <<ajustes, registroVars, conexionVars, vPila>>

-----------------------------------------------------------------------------
\* The register has each connection that is alive in the slot it is told to have, and
\* no other; and a slot that has a log keeps it, one that neither another slot nor the
\* application has, whatever of these is opened and closed.
RegisterIsExact ==
  /\ \A i \in DOMAIN vRegistro :
       /\ vRegistro[i].item # NULL
            => vMem[vRegistro[i].item] = "vivo" /\ vNItem[vRegistro[i].item] = i - 1
       /\ vPrefijo => /\ i - 1 \in vEnUso
                      /\ vRegistro[i].nLog = vNumero[i - 1]
                      /\ Lg!EnTabla(vRegistro[i].nLog) = vPedido[i - 1]
                      /\ \A l \in vEnUso \ {i - 1} : vNumero[l] # vRegistro[i].nLog
  /\ \A s \in Cxs : vRegistra /\ vMem[s] = "vivo" => vRegistro[vNItem[s] + 1].item = s
=============================================================================
