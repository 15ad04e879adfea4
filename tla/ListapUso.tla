----------------------------- MODULE ListapUso ------------------------------
(***************************************************************************)
(* An owner of a zlListap, as zlEvtClient.c is one: it stores a pointer    *)
(* with zlListapUpdateOrAppend, keeps the position it is told in the item, *)
(* hands that position back to zlListapFreeItem when the item goes, and    *)
(* walks the list with For/Next, changing the list between two Next if it  *)
(* likes (the loops of test1.c leave the body to the application).         *)
(***************************************************************************)
EXTENDS Nulo, Integers, Sequences, FiniteSets, Listap

CONSTANT Items    \* what the application keeps in the list

ASSUME ItemsAssumption == IsFiniteSet(Items) /\ NULL \notin Items

VARIABLES lista,
          canalItem,  \* the position each item was given, SinCanal if none
          debidos,    \* items stored since the walk began and not yet returned
          paseo       \* "no" | "si" | "acabado": where the walk stands

listaVars == <<lista, canalItem, debidos, paseo>>

Guardados == {x \in Items : canalItem[x] # SinCanal}

ListapInit == /\ lista = zlListapCrea
              /\ canalItem = [x \in Items |-> SinCanal]
              /\ debidos = {}
              /\ paseo = "no"

\* socket->canal = zlListapUpdateOrAppend(client->conexiones, socket)
Guarda(x) ==
  /\ x \notin Guardados
  /\ lista' = zlListapUpdateOrAppend(lista, x)
  /\ canalItem' = [canalItem EXCEPT ![x] = zlListapFirstItemFree(lista)]
  /\ UNCHANGED <<debidos, paseo>>

\* zlListapFreeItem(client->conexiones, canal)
Borra(x) ==
  /\ x \in Guardados
  /\ lista' = zlListapFreeItem(lista, canalItem[x])
  /\ canalItem' = [canalItem EXCEPT ![x] = SinCanal]
  /\ debidos' = debidos \ {x}
  /\ UNCHANGED paseo

For == /\ paseo # "si"
       /\ lista' = zlListapFor(lista)
       /\ debidos' = Guardados
       /\ paseo' = "si"
       /\ UNCHANGED canalItem

\* while ((it = zlListapNext(lista)) != NULL): a NULL ends the walk.
Next1 == /\ paseo = "si"
         /\ lista' = zlListapNext(lista)
         /\ debidos' = debidos \ {zlListapNextItem(lista)}
         /\ paseo' = IF zlListapNextItem(lista) = NULL THEN "acabado" ELSE "si"
         /\ UNCHANGED canalItem

ListapNext == \/ \E x \in Items : Guarda(x) \/ Borra(x)
              \/ For
              \/ Next1

ListapSpec == ListapInit /\ [][ListapNext]_listaVars

-----------------------------------------------------------------------------
\* The list is one the functions of zlListap.c build: numActivos, kept by hand in
\* four of them, is the number of pointers stored.
ListaTypeOK == /\ EsLista(lista, Items)
               /\ canalItem \in [Items -> Nat \cup {SinCanal}]
               /\ debidos \subseteq Items
               /\ paseo \in {"no", "si", "acabado"}

\* The handle an item keeps is the position that holds it, and the list holds
\* nothing but items whose handle points back: freeing by handle can never
\* drop somebody else's pointer, however often positions were reused.
HandlesExact ==
  /\ \A x \in Guardados : /\ canalItem[x] \in Posiciones(lista)
                          /\ zlListapItem(lista, canalItem[x]) = x
  /\ \A pos \in Ocupadas(lista) : canalItem[zlListapItem(lista, pos)] = pos

\* The list never holds more positions than items were ever held at once: holes
\* are reused before the array grows (zlListapFirstItemFree).
NoGrowthWithHoles == Num(lista) <= Cardinality(Items)

\* Storing never overwrites a pointer and never moves one: a position that held
\* an item holds the same item or a hole after any call.
NoOverwrite ==
  [][\A pos \in Ocupadas(lista) :
        zlListapItem(lista', pos) \in {zlListapItem(lista, pos), NULL}]_listaVars

\* The list is one way of keeping channels: the channel of an item is the
\* position that holds it.
AbstractoLista == INSTANCE Canales WITH
                canalDe <- [x \in Items |-> PosicionDe(lista, x)],
                activos <- lista.numActivos

\* zlListap keeps the promise of Canales.
ListaImplementsCanales == AbstractoLista!Spec

\* Whatever is stored and freed between two calls of zlListapNext, the cursor never
\* passes an item of the list that the walk still has to return; a walk that ends
\* early (at a hole) leaves only items at or after the cursor unreturned.
WalkLeavesNothingBehind ==
  paseo # "no" => \A x \in debidos : canalItem[x] >= lista.itera

\* What every step preserves: that storing and freeing keep the list well formed
\* needs the handles to be exact, and the walk needs its debts to be stored.
ListaInv == /\ ListaTypeOK
            /\ HandlesExact
            /\ NoGrowthWithHoles
            /\ debidos \subseteq Guardados
            /\ WalkLeavesNothingBehind
=============================================================================
