------------------------------ MODULE Enlazada ------------------------------
(***************************************************************************)
(* i+d/enlazada1/lista.c: a linked list with pointers to its first and its *)
(* last element and a count, and the menu that drives it.  The file is a   *)
(* draft that no makefile builds: it is read for what its C would do.      *)
(***************************************************************************)
EXTENDS Nulo, Integers, Sequences, FiniteSets

CONSTANT Elementos     \* the addresses malloc can return for an Elemento

ASSUME EnlazadaAssumption == NULL \notin Elementos /\ IsFiniteSet(Elementos)

VARIABLES
  siguiente,     \* elemento->siguiente
  vivos,         \* the elements that are allocated
  inicio, fin,   \* lista->inicio, lista->fin
  tamanyo        \* lista->tamanyo, an enye in the source

enlaces == <<siguiente, vivos>>
enlazadaVars == <<enlaces, inicio, fin, tamanyo>>

\* inicialisacion
EnlazadaInit == /\ siguiente = [e \in Elementos |-> NULL]
                /\ vivos = {}
                /\ inicio = NULL
                /\ fin = NULL
                /\ tamanyo = 0

\* malloc of the element, and of its text.
NuevoNodo(e, sig) == /\ e \notin vivos
                     /\ vivos' = vivos \cup {e}
                     /\ tamanyo' = tamanyo + 1
                     /\ siguiente' = [siguiente EXCEPT ![e] = sig]

ins_en_lista_vacia(e) == /\ tamanyo = 0
                         /\ NuevoNodo(e, NULL)
                         /\ inicio' = e
                         /\ fin' = e

ins_inicio_lista(e) == /\ tamanyo # 0
                       /\ NuevoNodo(e, inicio)
                       /\ inicio' = e
                       /\ UNCHANGED fin

\* With lista->fin as actual, as main does; the menu takes 2 as its end when the list
\* is empty.
ins_fin_lista(e) == /\ tamanyo # 0 /\ e \notin vivos
                    /\ vivos' = vivos \cup {e}
                    /\ siguiente' = [siguiente EXCEPT ![fin] = e, ![e] = NULL]
                    /\ fin' = e
                    /\ tamanyo' = tamanyo + 1
                    /\ UNCHANGED inicio

\* The element that the loops on actual stop at: the one at a position from 1.
desde[pos \in 1 .. Cardinality(Elementos)] ==
  IF pos = 1 THEN inicio ELSE siguiente[desde[pos - 1]]

\* main asks for a position until it is one of the list, and refuses the last one.
ins_lista(e, pos) == /\ pos \in 1 .. tamanyo - 1 /\ tamanyo >= 2
                     /\ e \notin vivos
                     /\ vivos' = vivos \cup {e}
                     /\ siguiente' = [siguiente EXCEPT ![e] = siguiente[desde[pos]],
                                                       ![desde[pos]] = e]
                     /\ tamanyo' = tamanyo + 1
                     /\ UNCHANGED <<inicio, fin>>

Libera(e) == vivos' = vivos \ {e}

sup_inicio == /\ tamanyo # 0
              /\ inicio' = siguiente[inicio]
              /\ fin' = IF tamanyo = 1 THEN NULL ELSE fin
              /\ Libera(inicio)
              /\ tamanyo' = tamanyo - 1
              /\ UNCHANGED siguiente

\* The element after the position.
sup_en_lista(pos) ==
  /\ pos \in 1 .. tamanyo - 1 /\ tamanyo > 1
  /\ LET actual == desde[pos]
         sup_elemento == siguiente[actual]
     IN /\ siguiente' = [siguiente EXCEPT ![actual] = siguiente[sup_elemento]]
        /\ fin' = IF siguiente[sup_elemento] = NULL THEN actual ELSE fin
        /\ Libera(sup_elemento)
  /\ tamanyo' = tamanyo - 1
  /\ UNCHANGED inicio

\* destruir: sup_inicio until the count is zero.
destruir == /\ tamanyo # 0
            /\ inicio' = siguiente[desde[tamanyo]]
            /\ fin' = NULL
            /\ vivos' = vivos \ {desde[pos] : pos \in 1 .. tamanyo}
            /\ tamanyo' = 0
            /\ UNCHANGED siguiente

EnlazadaNext ==
  \/ \E e \in Elementos : \/ ins_en_lista_vacia(e)
                          \/ ins_inicio_lista(e)
                          \/ ins_fin_lista(e)
                          \/ \E pos \in 1 .. tamanyo : ins_lista(e, pos)
  \/ sup_inicio
  \/ \E pos \in 1 .. tamanyo : sup_en_lista(pos)
  \/ destruir

EnlazadaSpec == EnlazadaInit /\ [][EnlazadaNext]_enlazadaVars

-----------------------------------------------------------------------------
\* From inicio, siguiente leads through every element that is allocated, once, to fin
\* and there ends; and the count is how many they are.
ListIsLinked ==
  LET cadena == {desde[pos] : pos \in 1 .. tamanyo}
  IN /\ tamanyo = Cardinality(vivos)
     /\ cadena = vivos
     /\ IF tamanyo = 0
        THEN inicio = NULL /\ fin = NULL
        ELSE desde[tamanyo] = fin /\ siguiente[fin] = NULL
=============================================================================
