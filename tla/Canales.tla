------------------------------ MODULE Canales -------------------------------
(***************************************************************************)
(* What the list of connections promises to the server and to the client,  *)
(* with no list in it: every open connection has a channel of its own that *)
(* does not change while it is open, channels are reused so that they stay *)
(* below the number of connections there can be, and the count is the      *)
(* number of open connections.  Which free channel a connection gets is    *)
(* not promised: the server looks it up before a callback in which lower   *)
(* ones may become free.                                                   *)
(***************************************************************************)
EXTENDS Integers, FiniteSets

CONSTANT Items        \* what is kept: the sockets of a server or of a client

VARIABLES canalDe,    \* the channel of each item, SinCanal when it has none
          activos     \* the number of open connections, as reported

vars == <<canalDe, activos>>

SinCanal == -1

Abiertos == {x \in Items : canalDe[x] # SinCanal}

EnUso == {canalDe[x] : x \in Abiertos}

Libres == (0 .. Cardinality(Items) - 1) \ EnUso

Init == /\ canalDe = [x \in Items |-> SinCanal]
        /\ activos = 0

Abre(x, c) == /\ x \notin Abiertos
              /\ c \in Libres
              /\ canalDe' = [canalDe EXCEPT ![x] = c]
              /\ activos' = activos + 1

Cierra(x) == /\ x \in Abiertos
             /\ canalDe' = [canalDe EXCEPT ![x] = SinCanal]
             /\ activos' = activos - 1

Next == \E x \in Items : \/ \E c \in Libres : Abre(x, c)
                         \/ Cierra(x)

Spec == Init /\ [][Next]_vars
=============================================================================
