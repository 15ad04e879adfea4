------------------------------- MODULE Lista1 -------------------------------
(***************************************************************************)
(* zlLista1.c: a growing array of items kept by value, which cannot be     *)
(* deleted, and one cursor to walk it, also while it grows.                *)
(***************************************************************************)
EXTENDS Integers, Sequences

CONSTANTS Valores,    \* what an item can hold
          MaxItems    \* bound

VARIABLES
  items,         \* lista->items; lista->num is its length
  itera,
  vistos,        \* history: the items answered since zlLista1For
  acabado            \* whether zlLista1Next answered NULL last

listaVars == <<items, itera, vistos, acabado>>

num == Len(items)

zlLista1Item(pos) == items[pos + 1]

\* zlLista1Crea
ListaInit == items = <<>> /\ itera = 0 /\ vistos = <<>> /\ acabado = FALSE

zlLista1Add(item) == /\ num < MaxItems
                     /\ items' = Append(items, item)
                     /\ acabado' = FALSE
                     /\ UNCHANGED <<itera, vistos>>

zlLista1For == /\ itera' = 0
               /\ vistos' = <<>>
               /\ acabado' = FALSE
               /\ UNCHANGED items

AlFinal == itera >= num \/ itera < 0

\* Mutant of zlLista1Next: the cursor is moved before the end is looked for.
NextMueveAntes == /\ itera' = itera + 1
                  /\ acabado' = (itera + 1 >= num)
                  /\ vistos' = IF acabado' THEN vistos ELSE Append(vistos, zlLista1Item(itera))
                  /\ UNCHANGED items

\* NULL at the end, where the cursor stays: an item added later will be answered.
zlLista1Next == /\ acabado' = AlFinal
                /\ itera' = IF AlFinal THEN itera ELSE itera + 1
                /\ vistos' = IF AlFinal THEN vistos ELSE Append(vistos, zlLista1Item(itera))
                /\ UNCHANGED items

ListaNext == \/ \E item \in Valores : zlLista1Add(item)
             \/ zlLista1For
             \/ zlLista1Next

ListaSpec == ListaInit /\ [][ListaNext]_listaVars

-----------------------------------------------------------------------------
\* A walk answers the items in their order, those added during it too, and NULL only
\* after the last.
WalkSeesAll == /\ vistos = SubSeq(items, 1, Len(vistos))
               /\ acabado => vistos = items
=============================================================================
