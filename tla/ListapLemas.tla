----------------------------- MODULE ListapLemas -----------------------------
(***************************************************************************)
(* What the operations of Listap return for any list, whoever owns it.     *)
(***************************************************************************)
EXTENDS Listap, SequenceTheorems, FiniteSetTheorems, WellFoundedInduction, TLAPS

-----------------------------------------------------------------------------
\* A non-empty set of naturals has a least element.
LEMMA Minimo ==
  ASSUME NEW S \in SUBSET Nat, S # {}
  PROVE  \E n \in S : \A m \in S : n <= m
<1>1. PICK n \in S : \A m \in S : <<m, n>> \notin OpToRel(<, Nat)
  BY NatLessThanWellFounded, WFMin
<1>2. OpToRel(<, Nat) = {par \in Nat \X Nat : par[1] < par[2]}
  BY Zenon DEF OpToRel
<1>3. \A m \in S : <<m, n>> \notin {par \in Nat \X Nat : par[1] < par[2]}
  BY <1>1, <1>2, Zenon
<1>4. \A m \in S : ~ (m < n)
  BY <1>3
<1> QED BY <1>4

-----------------------------------------------------------------------------
\* The operations.  V is what a position can hold: the items, and NULL.

\* A list as C sees it: its three fields.
ListaDe(V) == [items : Seq(V), numActivos : Int, itera : Nat]

\* zlListapFirstItemFree gives a hole, or the position past the end.
LEMMA PrimerHueco ==
  ASSUME NEW V, NEW l \in ListaDe(V)
  PROVE  /\ zlListapFirstItemFree(l) \in Huecos(l) \cup {Num(l)}
         /\ zlListapFirstItemFree(l) \in Nat
         /\ Num(l) \in Nat
         /\ \A pos \in Huecos(l) : zlListapFirstItemFree(l) <= pos
<1>1. Num(l) \in Nat
  BY LenProperties DEF ListaDe, Num
<1>2. Huecos(l) \in SUBSET Nat
  BY <1>1 DEF Huecos, Posiciones
<1>3. CASE Huecos(l) = {}
  BY <1>1, <1>3 DEF zlListapFirstItemFree
<1>4. CASE Huecos(l) # {}
  <2>1. \E n \in Huecos(l) : \A m \in Huecos(l) : n <= m
    BY <1>2, <1>4, Minimo
  <2>2. /\ zlListapFirstItemFree(l) \in Huecos(l)
        /\ \A pos \in Huecos(l) : zlListapFirstItemFree(l) <= pos
    BY <1>4, <2>1 DEF zlListapFirstItemFree
  <2> QED BY <1>1, <1>2, <2>2
<1> QED BY <1>3, <1>4

\* zlListapUpdateOrAppendPos stores the item at a hole or past the end, counts it
\* and touches no other position.
LEMMA Guardado ==
  ASSUME NEW V, NEW l \in ListaDe(V), NEW item \in V,
         NEW pos \in Huecos(l) \cup {Num(l)}
  PROVE  LET l2 == zlListapUpdateOrAppendPos(l, item, pos)
         IN /\ l2 \in ListaDe(V)
            /\ l2.numActivos = l.numActivos + 1
            /\ l2.itera = l.itera
            /\ Posiciones(l2) = Posiciones(l) \cup {pos}
            /\ zlListapItem(l2, pos) = item
            /\ \A otra \in Posiciones(l) \ {pos} : zlListapItem(l2, otra) = zlListapItem(l, otra)
<1> DEFINE l2 == zlListapUpdateOrAppendPos(l, item, pos)
<1>1. /\ l.items \in Seq(V)
      /\ l.numActivos \in Int
      /\ l.itera \in Nat
      /\ Len(l.items) \in Nat
      /\ DOMAIN l.items = 1 .. Len(l.items)
      /\ Num(l) = Len(l.items)
  BY LenProperties DEF ListaDe, Num
<1>2. CASE pos = Num(l)
  <2>1. l2 = [l EXCEPT !.items = Append(@, item), !.numActivos = @ + 1]
    BY <1>2 DEF zlListapUpdateOrAppendPos, zlListapAppend
  <2>2. /\ l2.items = Append(l.items, item)
        /\ l2.numActivos = l.numActivos + 1
        /\ l2.itera = l.itera
        /\ l2 = [items |-> Append(l.items, item), numActivos |-> l.numActivos + 1, itera |-> l.itera]
    BY <2>1 DEF ListaDe
  <2>3. /\ Append(l.items, item) \in Seq(V)
        /\ Len(Append(l.items, item)) = Len(l.items) + 1
        /\ Append(l.items, item)[Len(l.items) + 1] = item
        /\ \A i \in 1 .. Len(l.items) : Append(l.items, item)[i] = l.items[i]
    BY <1>1, AppendProperties
  <2>4. l2 \in ListaDe(V)
    BY <1>1, <2>2, <2>3 DEF ListaDe
  <2>5. Posiciones(l2) = Posiciones(l) \cup {pos}
    BY <1>1, <1>2, <2>2, <2>3 DEF Posiciones, Num
  <2>6. zlListapItem(l2, pos) = item
    BY <1>1, <1>2, <2>2, <2>3 DEF zlListapItem
  <2>7. \A otra \in Posiciones(l) : zlListapItem(l2, otra) = zlListapItem(l, otra)
    BY <1>1, <2>2, <2>3 DEF zlListapItem, Posiciones
  <2> QED BY <2>2, <2>4, <2>5, <2>6, <2>7
<1>3. CASE pos # Num(l)
  <2>1. pos \in Huecos(l) /\ pos \in 0 .. Len(l.items) - 1
    BY <1>1, <1>3 DEF Huecos, Posiciones
  <2>2. l2 = [l EXCEPT !.items[pos + 1] = item, !.numActivos = @ + 1]
    BY <1>3, <2>1 DEF zlListapUpdateOrAppendPos, zlListapUpdate
  <2>3. /\ l2.items = [l.items EXCEPT ![pos + 1] = item]
        /\ l2.numActivos = l.numActivos + 1
        /\ l2.itera = l.itera
        /\ l2 = [items |-> [l.items EXCEPT ![pos + 1] = item],
                 numActivos |-> l.numActivos + 1, itera |-> l.itera]
    BY <2>2 DEF ListaDe
  <2>4. pos + 1 \in 1 .. Len(l.items)
    BY <1>1, <2>1
  <2>5. /\ [l.items EXCEPT ![pos + 1] = item] \in Seq(V)
        /\ Len([l.items EXCEPT ![pos + 1] = item]) = Len(l.items)
        /\ [l.items EXCEPT ![pos + 1] = item][pos + 1] = item
        /\ \A i \in 1 .. Len(l.items) :
             i # pos + 1 => [l.items EXCEPT ![pos + 1] = item][i] = l.items[i]
    BY <1>1, <2>4, ExceptSeq
  <2>6. l2 \in ListaDe(V)
    BY <1>1, <2>3, <2>5 DEF ListaDe
  <2>7. Posiciones(l2) = Posiciones(l) \cup {pos}
    BY <1>1, <2>1, <2>3, <2>5 DEF Posiciones, Num
  <2>8. zlListapItem(l2, pos) = item
    BY <2>3, <2>5 DEF zlListapItem
  <2>9. \A otra \in Posiciones(l) \ {pos} : zlListapItem(l2, otra) = zlListapItem(l, otra)
    BY <1>1, <2>1, <2>3, <2>5 DEF zlListapItem, Posiciones
  <2> QED BY <2>3, <2>6, <2>7, <2>8, <2>9
<1> QED BY <1>2, <1>3

\* zlListapFreeItem makes a hole of a position and touches no other.
LEMMA Borrado ==
  ASSUME NEW V, NULL \in V, NEW l \in ListaDe(V), NEW pos \in Posiciones(l)
  PROVE  LET l2 == zlListapFreeItem(l, pos)
         IN /\ l2 \in ListaDe(V)
            /\ l2.numActivos = l.numActivos - 1
            /\ l2.itera = l.itera
            /\ Posiciones(l2) = Posiciones(l)
            /\ zlListapItem(l2, pos) = NULL
            /\ \A otra \in Posiciones(l) \ {pos} : zlListapItem(l2, otra) = zlListapItem(l, otra)
<1> DEFINE l2 == zlListapFreeItem(l, pos)
<1>1. /\ l.items \in Seq(V)
      /\ l.numActivos \in Int
      /\ l.itera \in Nat
      /\ Len(l.items) \in Nat
  BY LenProperties DEF ListaDe
<1>2. pos \in 0 .. Len(l.items) - 1 /\ pos + 1 \in 1 .. Len(l.items)
  BY <1>1 DEF Posiciones, Num
<1>0. l2 = [l EXCEPT !.items[pos + 1] = NULL, !.numActivos = @ - 1]
  BY DEF zlListapFreeItem
<1>3. /\ l2.items = [l.items EXCEPT ![pos + 1] = NULL]
      /\ l2.numActivos = l.numActivos - 1
      /\ l2.itera = l.itera
      /\ l2 = [items |-> [l.items EXCEPT ![pos + 1] = NULL],
               numActivos |-> l.numActivos - 1, itera |-> l.itera]
  BY <1>0 DEF ListaDe
<1>4. /\ [l.items EXCEPT ![pos + 1] = NULL] \in Seq(V)
      /\ Len([l.items EXCEPT ![pos + 1] = NULL]) = Len(l.items)
      /\ [l.items EXCEPT ![pos + 1] = NULL][pos + 1] = NULL
      /\ \A i \in 1 .. Len(l.items) :
           i # pos + 1 => [l.items EXCEPT ![pos + 1] = NULL][i] = l.items[i]
  BY <1>1, <1>2, ExceptSeq
<1>5. l2 \in ListaDe(V)
  BY <1>1, <1>3, <1>4 DEF ListaDe
<1>6. Posiciones(l2) = Posiciones(l)
  BY <1>3, <1>4 DEF Posiciones, Num
<1>7. zlListapItem(l2, pos) = NULL
  BY <1>3, <1>4 DEF zlListapItem
<1>8. \A otra \in Posiciones(l) \ {pos} : zlListapItem(l2, otra) = zlListapItem(l, otra)
  BY <1>1, <1>2, <1>3, <1>4 DEF zlListapItem, Posiciones, Num
<1> QED BY <1>3, <1>5, <1>6, <1>7, <1>8

-----------------------------------------------------------------------------
\* The count that the functions keep by hand.

\* The positions are as many as num says, and those in use are finitely many.
LEMMA OcupadasFinito ==
  ASSUME NEW V, NEW l \in ListaDe(V)
  PROVE  IsFiniteSet(Ocupadas(l)) /\ IsFiniteSet(Posiciones(l)) /\ Cardinality(Posiciones(l)) = Num(l)
<1>1. Num(l) \in Nat
  BY LenProperties DEF ListaDe, Num
<1>2. /\ IsFiniteSet(0 .. Num(l) - 1)
      /\ Cardinality(0 .. Num(l) - 1) = Num(l)
  BY <1>1, FS_Interval
<1> QED BY <1>2, FS_Subset DEF Ocupadas, Posiciones

\* Storing an item keeps the list well formed.
LEMMA GuardadoEsLista ==
  ASSUME NEW S, NULL \notin S, NEW l, EsLista(l, S), NEW item \in S,
         NEW pos \in Huecos(l) \cup {Num(l)}
  PROVE  LET l2 == zlListapUpdateOrAppendPos(l, item, pos)
         IN /\ EsLista(l2, S)
            /\ pos \notin Ocupadas(l)
            /\ Ocupadas(l2) = Ocupadas(l) \cup {pos}
            /\ Posiciones(l2) = Posiciones(l) \cup {pos}
            /\ zlListapItem(l2, pos) = item
            /\ \A otra \in Posiciones(l) \ {pos} : zlListapItem(l2, otra) = zlListapItem(l, otra)
<1> DEFINE V == S \cup {NULL}
           l2 == zlListapUpdateOrAppendPos(l, item, pos)
<1>1. l \in ListaDe(V) /\ l.numActivos = Cardinality(Ocupadas(l)) /\ item \in V
  BY DEF EsLista, ListaDe
<1>2. /\ l2 \in ListaDe(V)
      /\ l2.numActivos = l.numActivos + 1
      /\ Posiciones(l2) = Posiciones(l) \cup {pos}
      /\ zlListapItem(l2, pos) = item
      /\ \A otra \in Posiciones(l) \ {pos} : zlListapItem(l2, otra) = zlListapItem(l, otra)
  <2> HIDE DEF V
  <2> QED BY <1>1, Guardado
<1>3. pos \notin Ocupadas(l)
  <2>1. Num(l) \in Nat
    BY <1>1, LenProperties DEF ListaDe, Num
  <2> QED BY <2>1 DEF Ocupadas, Posiciones
<1>4. Ocupadas(l2) = Ocupadas(l) \cup {pos}
  BY <1>2, Zenon DEF Ocupadas, Huecos
<1>5. Cardinality(Ocupadas(l2)) = Cardinality(Ocupadas(l)) + 1
  BY <1>1, <1>3, <1>4, OcupadasFinito, FS_AddElement
<1> QED BY <1>1, <1>2, <1>3, <1>4, <1>5 DEF EsLista, ListaDe

\* Freeing a position that holds an item keeps the list well formed.
LEMMA BorradoEsLista ==
  ASSUME NEW S, NULL \notin S, NEW l, EsLista(l, S), NEW pos \in Ocupadas(l)
  PROVE  LET l2 == zlListapFreeItem(l, pos)
         IN /\ EsLista(l2, S)
            /\ Ocupadas(l2) = Ocupadas(l) \ {pos}
            /\ Posiciones(l2) = Posiciones(l)
            /\ zlListapItem(l2, pos) = NULL
            /\ \A otra \in Posiciones(l) \ {pos} : zlListapItem(l2, otra) = zlListapItem(l, otra)
<1> DEFINE V == S \cup {NULL}
           l2 == zlListapFreeItem(l, pos)
<1>1. l \in ListaDe(V) /\ l.numActivos = Cardinality(Ocupadas(l)) /\ pos \in Posiciones(l) /\ NULL \in V
  BY DEF EsLista, ListaDe, Ocupadas
<1>2. /\ l2 \in ListaDe(V)
      /\ l2.numActivos = l.numActivos - 1
      /\ Posiciones(l2) = Posiciones(l)
      /\ zlListapItem(l2, pos) = NULL
      /\ \A otra \in Posiciones(l) \ {pos} : zlListapItem(l2, otra) = zlListapItem(l, otra)
  <2> HIDE DEF V
  <2> QED BY <1>1, Borrado
<1>3. Ocupadas(l2) = Ocupadas(l) \ {pos}
  BY <1>2 DEF Ocupadas, Huecos
<1>4. Cardinality(Ocupadas(l2)) = Cardinality(Ocupadas(l)) - 1
  BY <1>1, <1>3, OcupadasFinito, FS_RemoveElement
<1> QED BY <1>2, <1>3, <1>4 DEF EsLista, ListaDe

\* The number of positions is what the positions say it is.
LEMMA NumDePosiciones ==
  ASSUME NEW S, NEW l, EsLista(l, S), NEW l2, EsLista(l2, S), NEW pos \in Nat
  PROVE  /\ Num(l) \in Nat
         /\ Posiciones(l2) = Posiciones(l) => Num(l2) = Num(l)
         /\ Posiciones(l2) = Posiciones(l) \cup {pos} => Num(l2) <= Num(l) \/ Num(l2) = pos + 1
<1>1. Num(l) \in Nat /\ Num(l2) \in Nat
  BY LenProperties DEF EsLista, Num
<1>2. ASSUME Posiciones(l2) = Posiciones(l)
      PROVE  Num(l2) = Num(l)
  <2>1. 0 .. Num(l2) - 1 = 0 .. Num(l) - 1
    BY <1>2 DEF Posiciones
  <2> QED BY <1>1, <2>1
<1>3. ASSUME Posiciones(l2) = Posiciones(l) \cup {pos}
      PROVE  Num(l2) <= Num(l) \/ Num(l2) = pos + 1
  <2>1. 0 .. Num(l2) - 1 = (0 .. Num(l) - 1) \cup {pos}
    BY <1>3 DEF Posiciones
  <2>2. \/ Num(l2) - 1 \in 0 .. Num(l) - 1
        \/ Num(l2) - 1 = pos
        \/ Num(l2) = 0
    BY <1>1, <2>1
  <2> QED BY <1>1, <2>2
<1> QED BY <1>1, <1>2, <1>3

\* What is in a position that is not a hole is an item.
LEMMA ItemDeOcupada ==
  ASSUME NEW S, NEW l, EsLista(l, S), NEW pos \in Ocupadas(l)
  PROVE  zlListapItem(l, pos) \in S
<1>1. l.items \in Seq(S \cup {NULL}) /\ Len(l.items) \in Nat
  BY LenProperties DEF EsLista
<1>2. pos + 1 \in 1 .. Len(l.items)
  BY <1>1 DEF Ocupadas, Posiciones, Num
<1>3. l.items[pos + 1] \in S \cup {NULL}
  BY <1>1, <1>2, ElementOfSeq
<1>4. l.items[pos + 1] # NULL
  BY DEF Ocupadas, Huecos, zlListapItem
<1> QED BY <1>3, <1>4 DEF zlListapItem

\* There is room for one more: the positions up to the first hole hold different
\* items, and x is not one of them.
LEMMA CabeUnoMas ==
  ASSUME NEW S, IsFiniteSet(S), NEW l, EsLista(l, S), NEW x \in S,
         \A pos \in Ocupadas(l) : zlListapItem(l, pos) # x,
         \A p, q \in Ocupadas(l) : zlListapItem(l, p) = zlListapItem(l, q) => p = q
  PROVE  zlListapFirstItemFree(l) + 1 <= Cardinality(S)
<1> DEFINE n == zlListapFirstItemFree(l)
           P == 0 .. n - 1
           T == S \ {x}
           f == [pos \in P |-> zlListapItem(l, pos)]
<1>1. /\ n \in Nat
      /\ Num(l) \in Nat
      /\ n \in Huecos(l) \cup {Num(l)}
      /\ \A pos \in Huecos(l) : n <= pos
  <2> DEFINE V == S \cup {NULL}
  <2>1. l \in ListaDe(V)
    BY DEF EsLista, ListaDe
  <2> HIDE DEF V
  <2> QED BY <2>1, PrimerHueco
<1>2. \A pos \in P : pos \in Ocupadas(l)
  BY <1>1 DEF Ocupadas, Huecos, Posiciones
<1>3. \A pos \in P : zlListapItem(l, pos) \in T
  BY <1>2, ItemDeOcupada
<1>4. f \in [P -> T] /\ \A p, q \in P : f[p] = f[q] => p = q
  BY <1>2, <1>3
<1>5. /\ IsFiniteSet(P) /\ Cardinality(P) = n
      /\ IsFiniteSet(T) /\ Cardinality(T) = Cardinality(S) - 1
      /\ Cardinality(S) \in Nat
  <2> HIDE DEF n
  <2>1. n \in Nat /\ 0 \in Int /\ n - 1 \in Int
    BY <1>1
  <2>2. IsFiniteSet(P) /\ Cardinality(P) = n
    BY <2>1, FS_Interval
  <2>3. IsFiniteSet(T) /\ Cardinality(T) = Cardinality(S) - 1
    BY FS_RemoveElement
  <2>4. Cardinality(S) \in Nat
    BY FS_CardinalityType
  <2> QED BY <2>2, <2>3, <2>4
<1>6. ~ (Cardinality(T) < Cardinality(P))
  <2> HIDE DEF P, T, f
  <2> QED BY <1>4, <1>5, FS_PigeonHole
<1> QED BY <1>1, <1>5, <1>6
=============================================================================
