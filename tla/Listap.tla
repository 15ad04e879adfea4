------------------------------- MODULE Listap -------------------------------
(***************************************************************************)
(* zlListap.c: a growing array of pointers with holes.  A position, once   *)
(* handed out, stays the handle ("canal") of the pointer stored in it      *)
(* until zlListapFreeItem puts a NULL there; the hole is then reused.      *)
(*                                                                         *)
(* The list is a value (a record), and the operations are functions from   *)
(* lists to lists, so that the server and the client can keep one each.    *)
(* Positions are those of C, counted from 0.                               *)
(***************************************************************************)
EXTENDS Nulo, Integers, Sequences, FiniteSets

\* zlListap_t: items[0..num-1], and numActivos, which is kept by hand.
\* num is the length of items; itera is the cursor of For/Next.
zlListapCrea == [items |-> <<>>, numActivos |-> 0, itera |-> 0]

Num(lista) == Len(lista.items)

Posiciones(lista) == 0 .. Num(lista) - 1

zlListapItem(lista, pos) == lista.items[pos + 1]

Huecos(lista) == {pos \in Posiciones(lista) : zlListapItem(lista, pos) = NULL}

Ocupadas(lista) == Posiciones(lista) \ Huecos(lista)

\* Mutant of zlListapFirstItemFree: holes are not looked for.
SiempreAlFinal(lista) == Num(lista)

\* The first hole, or the position just past the end.
zlListapFirstItemFree(lista) ==
  IF Huecos(lista) = {}
  THEN Num(lista)
  ELSE CHOOSE pos \in Huecos(lista) : \A otro \in Huecos(lista) : pos <= otro

zlListapUpdateOrAppendCheckPos(lista) == zlListapFirstItemFree(lista)

\* Mutant of zlListapUpdate: the count is left alone.
UpdateSinContar(lista, pos, item) ==
  IF pos \in Huecos(lista) THEN [lista EXCEPT !.items[pos + 1] = item] ELSE lista

\* Refuses (and changes nothing) past the end and where a pointer is stored.
zlListapUpdate(lista, pos, item) ==
  IF pos \in Huecos(lista)
  THEN [lista EXCEPT !.items[pos + 1] = item, !.numActivos = @ + 1]
  ELSE lista

zlListapAppend(lista, item) ==
  [lista EXCEPT !.items = Append(@, item), !.numActivos = @ + 1]

\* Mutant of zlListapUpdateOrAppendPos: the last position counts as past the end.
PosFueraPorUno(lista, item, pos) ==
  IF pos >= Num(lista) - 1
  THEN zlListapAppend(lista, item)
  ELSE zlListapUpdate(lista, pos, item)

\* The answer of zlListapUpdate is thrown away.
zlListapUpdateOrAppendPos(lista, item, pos) ==
  IF pos = Num(lista)
  THEN zlListapAppend(lista, item)
  ELSE zlListapUpdate(lista, pos, item)

\* The list after the call; the position returned is zlListapFirstItemFree.
zlListapUpdateOrAppend(lista, item) ==
  zlListapUpdateOrAppendPos(lista, item, zlListapFirstItemFree(lista))

\* Mutant of zlListapFreeItem: the count is left alone.
FreeItemSinContar(lista, pos) == [lista EXCEPT !.items[pos + 1] = NULL]

\* Neither the bounds nor the content of the position are looked at: a hole is
\* "freed" again, and numActivos goes down again.
zlListapFreeItem(lista, pos) ==
  [lista EXCEPT !.items[pos + 1] = NULL, !.numActivos = @ - 1]

\* Mutant of zlListapFor: the cursor stays where the last walk left it.
ForSinReinicio(lista) == lista

zlListapFor(lista) == [lista EXCEPT !.itera = 0]

\* zlListapNext returns NULL, and leaves the cursor alone, at the end...
FinDeLista(lista) == lista.itera >= Num(lista) \/ lista.itera < 0

\* ...and otherwise returns the content of the position under the cursor, be it
\* a pointer or the NULL of a hole, and moves on.
zlListapNext(lista) ==
  IF FinDeLista(lista) THEN lista ELSE [lista EXCEPT !.itera = @ + 1]

zlListapNextItem(lista) ==
  IF FinDeLista(lista) THEN NULL ELSE zlListapItem(lista, lista.itera)

-----------------------------------------------------------------------------
SinCanal == -1

\* Where an item is, SinCanal when it is not in the list.
PosicionDe(lista, x) ==
  IF \E pos \in Posiciones(lista) : zlListapItem(lista, pos) = x
  THEN CHOOSE pos \in Posiciones(lista) : zlListapItem(lista, pos) = x
  ELSE SinCanal

\* What every list the library builds satisfies: numActivos, kept by hand in
\* four functions, is the number of positions that hold a pointer.
EsLista(lista, Items) ==
  /\ lista \in [items : Seq(Items \cup {NULL}), numActivos : Int, itera : Nat]
  /\ lista.numActivos = Cardinality(Ocupadas(lista))
=============================================================================
