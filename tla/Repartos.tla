------------------------------ MODULE Repartos ------------------------------
(***************************************************************************)
(* The four things that give out numbers and take them back: a list of     *)
(* pointers (ListapUso), the server and the client with their connections  *)
(* (EvtServer, EvtClient), and the log (Log).  A program uses one of them, *)
(* and the state of the others stays as it was.                            *)
(***************************************************************************)
EXTENDS EvtServer, EvtClient, ListapUso, Log

VARIABLE programa    \* which of the four runs

Programas == {"lista", "servidor", "cliente", "log"}

repartosVars == <<allVars, listaVars, logVars, programa>>

RepartosInit == /\ programa \in Programas
                /\ ServerInit
                /\ programa # "servidor" => ~reintenta /\ ~puertoLibre
                /\ ListapInit
                /\ LogEmpieza

RepartosNext ==
  /\ UNCHANGED programa
  /\ \/ programa = "lista" /\ ListapNext /\ UNCHANGED <<allVars, logVars>>
     \/ programa = "servidor" /\ ServerNext /\ UNCHANGED <<listaVars, logVars>>
     \/ programa = "cliente" /\ ClientNext /\ UNCHANGED <<serverVars, listaVars, logVars>>
     \/ programa = "log" /\ LogNext /\ UNCHANGED <<allVars, listaVars>>

RepartosSpec == RepartosInit /\ [][RepartosNext]_repartosVars
=============================================================================
