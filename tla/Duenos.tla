------------------------------- MODULE Duenos -------------------------------
(***************************************************************************)
(* Sockets with and without an owner, one program of each: what a server   *)
(* makes of its sockets (EvtServer), and sockets that nobody lists         *)
(* (EvtSocket), connected by zlEvtSocketClienteConnectBasic.               *)
(***************************************************************************)
EXTENDS EvtServer

VARIABLE conServidor    \* whether the program has a server

duenosVars == <<allVars, conServidor>>

DuenosInit == /\ conServidor \in BOOLEAN
              /\ ServerInit
              /\ ~conServidor => ~reintenta /\ ~puertoLibre

DuenosNext ==
  /\ UNCHANGED conServidor
  /\ \/ conServidor /\ ServerNext
     \/ ~conServidor /\ Next /\ UNCHANGED <<conexiones, serverVars>>

DuenosFairness == /\ conServidor => ServerFairness
                  /\ ~conServidor => Fairness

DuenosSpec == DuenosInit /\ [][DuenosNext]_duenosVars /\ DuenosFairness
=============================================================================
