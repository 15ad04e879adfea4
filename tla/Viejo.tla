------------------------------- MODULE Viejo --------------------------------
(***************************************************************************)
(* What the libraries of libevent.ws.old have in common: connections that  *)
(* the event loop tells of, callbacks of the application in the middle of  *)
(* the library's functions (vPila, one frame each, see EvtSocket), and a   *)
(* connection that closes by itself when its output is written, which the  *)
(* libraries that replace them no longer do.                               *)
(***************************************************************************)
EXTENDS Nulo, Integers, Sequences

CONSTANTS
  Cxs,           \* the addresses malloc can return for a connection
  ReglasViejas   \* what the application is careful about

\* None of these is written anywhere; without each of them something freed is used.
\*   "fin"       : it does not free a connection inside the callback of its end
\*   "connect"   : it does not free a client of zlSocketClient1 inside CONNECT
\*   "respuesta" : it frees one with an answer time when the timer of the answer is
\*                 not running, and asks for it to be closed once it has gone off
\*   "servidor"  : it frees a server that listens, once, and where the connections
\*                 point to the server when all of them are gone
\*   "lista"     : it frees a list of sockets last of all
TodasLasReglasViejas == {"fin", "connect", "respuesta", "servidor", "lista"}

ASSUME ViejoAssumption == ReglasViejas \subseteq TodasLasReglasViejas

VARIABLES
  vMem,         \* "libre" or "vivo": whether the struct is allocated
  vConectado,   \* whether the connection is established
  vCierra,      \* the connections to be freed when their output is written
  vPila,        \* the library functions waiting for a callback, outermost first
  vUb           \* undefined behaviour was met: the program is then dead

conexionVars == <<vMem, vConectado, vCierra>>
viejoVars == <<conexionVars, vPila, vUb>>

ViejoInit == /\ vMem = [s \in Cxs |-> "libre"]
             /\ vConectado = [s \in Cxs |-> FALSE]
             /\ vCierra = {}
             /\ vPila = <<>>
             /\ vUb = FALSE

VBucle == vPila = <<>> /\ ~vUb
VCima == vPila[Len(vPila)]
VResto == SubSeq(vPila, 1, Len(vPila) - 1)
VuelveDe(aviso) == vPila # <<>> /\ ~vUb /\ VCima.aviso = aviso

\* The application is being told this of the connection.
VAvisando(aviso, s) ==
  \E k \in 1 .. Len(vPila) : vPila[k].aviso = aviso /\ vPila[k].s = s

VAvisa(aviso, s) == vPila' = Append(vPila, [aviso |-> aviso, s |-> s])

\* The callbacks after which the library does nothing, whatever they are told.
VAvisaYNada == VAvisa("NADA", NULL)

\* malloc, at an address that no frame still names.
VReserva(s, conectado) ==
  /\ vMem[s] = "libre"
  /\ \A k \in 1 .. Len(vPila) : vPila[k].s # s
  /\ vMem' = [vMem EXCEPT ![s] = "vivo"]
  /\ vConectado' = [vConectado EXCEPT ![s] = conectado]
  /\ vCierra' = vCierra \ {s}

\* bufferevent_free and free.
VDevuelve(s) ==
  /\ vMem' = [vMem EXCEPT ![s] = "libre"]
  /\ vConectado' = [vConectado EXCEPT ![s] = FALSE]
  /\ vCierra' = vCierra \ {s}

\* Twice is undefined.
VLibera(s) == VDevuelve(s) /\ vUb' = (vMem[s] = "libre")

\* The application has no pointer to a connection that it knows to be gone.
Escribible(s) == ~vUb /\ vMem[s] = "vivo"

VVuelveYNada == /\ VuelveDe("NADA")
                /\ vPila' = VResto
                /\ UNCHANGED <<conexionVars, vUb>>

-----------------------------------------------------------------------------
\* Nothing that was freed is used, wherever the application frees and closes its
\* connections and whatever it is being told, as long as it keeps the rules.
OldNoUB == ~vUb
=============================================================================
