---------------------------- MODULE ListapProofs ----------------------------
(***************************************************************************)
(* The theorems about ListapUso: handles are exact, the walk forgets no    *)
(* item and the array does not grow past its items, however many there are.*)
(***************************************************************************)
EXTENDS ListapUso, ListapLemas

-----------------------------------------------------------------------------
\* ListapUso.

\* The first hole, or the end, is below the number of items when one is not stored.
LEMMA HayHueco ==
  ASSUME ListaTypeOK, HandlesExact, NEW x \in Items, x \notin Guardados
  PROVE  zlListapFirstItemFree(lista) + 1 <= Cardinality(Items)
<1>1. EsLista(lista, Items)
  BY DEF ListaTypeOK
<1>2. \A pos \in Ocupadas(lista) : zlListapItem(lista, pos) # x
  <2>1. Num(lista) \in Nat
    BY <1>1, LenProperties DEF EsLista, Num
  <2>2. \A pos \in Ocupadas(lista) : pos # SinCanal
    BY <2>1 DEF Ocupadas, Posiciones, SinCanal
  <2> QED BY <2>2 DEF HandlesExact, Guardados
<1>3. \A p, q \in Ocupadas(lista) : zlListapItem(lista, p) = zlListapItem(lista, q) => p = q
  BY DEF HandlesExact
<1> QED BY <1>1, <1>2, <1>3, CabeUnoMas, ItemsAssumption

\* What is stored at a handle is stored nowhere else.
LEMMA GuardaSegura ==
  ASSUME ListaInv, NEW x \in Items, Guarda(x)
  PROVE  ListaInv'
<1> DEFINE pos == zlListapFirstItemFree(lista)
<1>1. /\ x \notin Guardados
      /\ lista' = zlListapUpdateOrAppendPos(lista, x, pos)
      /\ canalItem' = [canalItem EXCEPT ![x] = pos]
      /\ UNCHANGED <<debidos, paseo>>
  BY DEF Guarda, zlListapUpdateOrAppend
<1>2. lista \in ListaDe(Items \cup {NULL}) /\ EsLista(lista, Items) /\ canalItem \in [Items -> Nat \cup {SinCanal}]
  BY DEF ListaInv, ListaTypeOK, EsLista, ListaDe
<1>3. pos \in Huecos(lista) \cup {Num(lista)} /\ pos \in Nat /\ Num(lista) \in Nat
  <2> DEFINE V == Items \cup {NULL}
  <2>1. lista \in ListaDe(V)
    BY <1>2
  <2> HIDE DEF V
  <2> QED BY <2>1, PrimerHueco
<1>4. /\ EsLista(lista', Items)
      /\ Ocupadas(lista') = Ocupadas(lista) \cup {pos}
      /\ pos \notin Ocupadas(lista)
  <2> HIDE DEF pos
  <2> QED BY <1>1, <1>2, <1>3, GuardadoEsLista, ItemsAssumption
<1>5. /\ lista'.itera = lista.itera
      /\ Posiciones(lista') = Posiciones(lista) \cup {pos}
      /\ zlListapItem(lista', pos) = x
      /\ \A otra \in Posiciones(lista) \ {pos} : zlListapItem(lista', otra) = zlListapItem(lista, otra)
  <2> DEFINE V == Items \cup {NULL}
  <2>1. lista \in ListaDe(V) /\ x \in V
    BY <1>2
  <2> HIDE DEF V, pos
  <2> QED BY <1>1, <1>3, <2>1, Guardado
<1>6. pos # SinCanal /\ canalItem[x] = SinCanal
  BY <1>1, <1>3 DEF SinCanal, Guardados
<1>7. ListaTypeOK'
  BY <1>1, <1>2, <1>3, <1>4 DEF ListaInv, ListaTypeOK
<1> HIDE DEF pos
<1>8. HandlesExact'
  <2>1. ASSUME NEW y \in Guardados'
        PROVE  canalItem'[y] \in Posiciones(lista') /\ zlListapItem(lista', canalItem'[y]) = y
    <3>1. CASE y = x
      BY <1>1, <1>2, <1>5, <3>1
    <3>2. CASE y # x
      <4>1. y \in Guardados /\ canalItem'[y] = canalItem[y]
        BY <1>1, <1>2, <2>1, <3>2 DEF Guardados
      <4>2. canalItem[y] \in Posiciones(lista) /\ zlListapItem(lista, canalItem[y]) = y
        BY <4>1 DEF ListaInv, HandlesExact
      <4>3. canalItem[y] \in Ocupadas(lista)
        BY <4>1, <4>2, ItemsAssumption DEF Ocupadas, Huecos, Guardados
      <4> QED BY <1>4, <1>5, <4>1, <4>2, <4>3
    <3> QED BY <3>1, <3>2
  <2>2. ASSUME NEW p \in Ocupadas(lista')
        PROVE  canalItem'[zlListapItem(lista', p)] = p
    <3>1. CASE p = pos
      BY <1>1, <1>2, <1>5, <3>1
    <3>2. CASE p # pos
      <4>1. p \in Ocupadas(lista) /\ p \in Posiciones(lista)
        BY <1>4, <3>2 DEF Ocupadas
      <4>2. zlListapItem(lista', p) = zlListapItem(lista, p) /\ canalItem[zlListapItem(lista, p)] = p
        BY <1>5, <3>2, <4>1 DEF ListaInv, HandlesExact
      <4>3. p # SinCanal
        BY <1>3, <4>1 DEF Posiciones, SinCanal
      <4>4. zlListapItem(lista, p) # x
        BY <1>6, <4>2, <4>3
      <4> QED BY <1>1, <1>2, <4>2, <4>4
    <3> QED BY <3>1, <3>2
  <2> QED BY <2>1, <2>2 DEF HandlesExact
<1>9. NoGrowthWithHoles'
  <2>1. pos + 1 <= Cardinality(Items)
    BY <1>1, <1>2, HayHueco DEF ListaInv, pos
  <2>2. Num(lista') \in Nat
    BY <1>4, LenProperties DEF EsLista, Num
  <2>3. 0 .. Num(lista') - 1 = (0 .. Num(lista) - 1) \cup {pos}
    BY <1>5 DEF Posiciones
  <2>4. Num(lista') - 1 \in 0 .. Num(lista) - 1 \/ Num(lista') - 1 = pos \/ Num(lista') = 0
    BY <2>2, <2>3
  <2>5. Cardinality(Items) \in Nat
    BY FS_CardinalityType, ItemsAssumption
  <2> QED BY <1>3, <2>1, <2>2, <2>4, <2>5 DEF ListaInv, NoGrowthWithHoles
<1>10. debidos' \subseteq Guardados' /\ WalkLeavesNothingBehind'
  <2>1. \A y \in Guardados : y # x /\ canalItem'[y] = canalItem[y] /\ y \in Guardados'
    BY <1>1, <1>2 DEF Guardados
  <2> QED BY <1>1, <1>5, <2>1 DEF ListaInv, WalkLeavesNothingBehind
<1> QED BY <1>7, <1>8, <1>9, <1>10 DEF ListaInv

\* Freeing by handle frees the item that was given the handle, and nobody else's.
LEMMA BorraSegura ==
  ASSUME ListaInv, NEW x \in Items, Borra(x)
  PROVE  ListaInv'
<1> DEFINE pos == canalItem[x]
<1>1. /\ x \in Guardados
      /\ lista' = zlListapFreeItem(lista, pos)
      /\ canalItem' = [canalItem EXCEPT ![x] = SinCanal]
      /\ debidos' = debidos \ {x}
      /\ paseo' = paseo
  BY DEF Borra
<1>2. /\ lista \in ListaDe(Items \cup {NULL})
      /\ EsLista(lista, Items)
      /\ canalItem \in [Items -> Nat \cup {SinCanal}]
  BY DEF ListaInv, ListaTypeOK, EsLista, ListaDe
<1>3. pos \in Posiciones(lista) /\ zlListapItem(lista, pos) = x
  BY <1>1 DEF ListaInv, HandlesExact
<1>4. pos \in Ocupadas(lista)
  BY <1>3, ItemsAssumption DEF Ocupadas, Huecos
<1>5. EsLista(lista', Items) /\ Ocupadas(lista') = Ocupadas(lista) \ {pos}
  <2> HIDE DEF pos
  <2> QED BY <1>1, <1>2, <1>4, BorradoEsLista, ItemsAssumption
<1>6. /\ lista'.itera = lista.itera
      /\ Posiciones(lista') = Posiciones(lista)
      /\ \A otra \in Posiciones(lista) \ {pos} : zlListapItem(lista', otra) = zlListapItem(lista, otra)
  <2> DEFINE V == Items \cup {NULL}
  <2>1. lista \in ListaDe(V) /\ NULL \in V
    BY <1>2
  <2> HIDE DEF V, pos
  <2> QED BY <1>1, <1>3, <2>1, Borrado
<1>7. ListaTypeOK'
  BY <1>1, <1>2, <1>5 DEF ListaInv, ListaTypeOK
<1> HIDE DEF pos
<1>8. HandlesExact'
  <2>1. ASSUME NEW y \in Guardados'
        PROVE  canalItem'[y] \in Posiciones(lista') /\ zlListapItem(lista', canalItem'[y]) = y
    <3>1. y # x /\ y \in Guardados /\ canalItem'[y] = canalItem[y]
      BY <1>1, <1>2, <2>1 DEF Guardados
    <3>2. canalItem[y] \in Posiciones(lista) /\ zlListapItem(lista, canalItem[y]) = y
      BY <3>1 DEF ListaInv, HandlesExact
    <3>3. canalItem[y] # pos
      BY <1>3, <3>1, <3>2
    <3> QED BY <1>6, <3>1, <3>2, <3>3
  <2>2. ASSUME NEW p \in Ocupadas(lista')
        PROVE  canalItem'[zlListapItem(lista', p)] = p
    <3>1. p \in Ocupadas(lista) /\ p \in Posiciones(lista) /\ p # pos
      BY <1>5, <2>2 DEF Ocupadas
    <3>2. zlListapItem(lista', p) = zlListapItem(lista, p) /\ canalItem[zlListapItem(lista, p)] = p
      BY <1>6, <3>1 DEF ListaInv, HandlesExact
    <3>3. zlListapItem(lista, p) # x
      BY <3>1, <3>2 DEF pos
    <3> QED BY <1>1, <1>2, <3>2, <3>3
  <2> QED BY <2>1, <2>2 DEF HandlesExact
<1>9. NoGrowthWithHoles'
  <2>1. Num(lista) \in Nat /\ Num(lista') \in Nat
    BY <1>2, <1>5, LenProperties DEF EsLista, Num
  <2>2. 0 .. Num(lista') - 1 = 0 .. Num(lista) - 1
    BY <1>6 DEF Posiciones
  <2>3. Num(lista') = Num(lista)
    BY <2>1, <2>2
  <2> QED BY <2>3 DEF ListaInv, NoGrowthWithHoles
<1>10. debidos' \subseteq Guardados' /\ WalkLeavesNothingBehind'
  <2>1. \A y \in Guardados : y # x => canalItem'[y] = canalItem[y] /\ y \in Guardados'
    BY <1>1, <1>2 DEF Guardados
  <2> QED BY <1>1, <1>6, <2>1 DEF ListaInv, WalkLeavesNothingBehind
<1> QED BY <1>7, <1>8, <1>9, <1>10 DEF ListaInv

\* A list with another cursor is the same list for everything but the walk.
LEMMA SoloCursor ==
  ASSUME ListaInv, NEW n \in Nat, lista' = [lista EXCEPT !.itera = n], canalItem' = canalItem
  PROVE  /\ EsLista(lista', Items)
         /\ lista'.itera = n
         /\ HandlesExact'
         /\ NoGrowthWithHoles'
         /\ Guardados' = Guardados
<1>1. /\ lista \in [items : Seq(Items \cup {NULL}), numActivos : Int, itera : Nat]
      /\ lista.numActivos = Cardinality(Ocupadas(lista))
  BY DEF ListaInv, ListaTypeOK, EsLista
<1>2. /\ lista'.items = lista.items
      /\ lista'.numActivos = lista.numActivos
      /\ lista'.itera = n
      /\ lista' \in [items : Seq(Items \cup {NULL}), numActivos : Int, itera : Nat]
  BY <1>1
<1>3. Num(lista') = Num(lista) /\ Posiciones(lista') = Posiciones(lista)
  BY <1>2 DEF Num, Posiciones
<1>4. \A pos : zlListapItem(lista', pos) = zlListapItem(lista, pos)
  BY <1>2 DEF zlListapItem
<1>5. Ocupadas(lista') = Ocupadas(lista)
  BY <1>3, <1>4 DEF Ocupadas, Huecos
<1>6. Guardados' = Guardados
  BY DEF Guardados
<1>7. HandlesExact'
  BY <1>3, <1>4, <1>5, <1>6 DEF ListaInv, HandlesExact
<1> QED BY <1>1, <1>2, <1>3, <1>5, <1>6, <1>7 DEF EsLista, ListaInv, NoGrowthWithHoles

\* A walk that begins owes every stored item, and all of them are ahead of it.
LEMMA ForSegura ==
  ASSUME ListaInv, For
  PROVE  ListaInv'
<1>1. /\ lista' = [lista EXCEPT !.itera = 0]
      /\ debidos' = Guardados
      /\ paseo' = "si"
      /\ canalItem' = canalItem
  BY DEF For, zlListapFor
<1>2. /\ EsLista(lista', Items)
      /\ lista'.itera = 0
      /\ HandlesExact'
      /\ NoGrowthWithHoles'
      /\ Guardados' = Guardados
  BY <1>1, SoloCursor
<1>3. \A x \in Guardados : canalItem'[x] >= 0
  BY <1>1 DEF ListaInv, HandlesExact, ListaTypeOK, Guardados
<1>4. ListaTypeOK'
  BY <1>1, <1>2 DEF ListaInv, ListaTypeOK, Guardados
<1> QED BY <1>1, <1>2, <1>3, <1>4 DEF ListaInv, WalkLeavesNothingBehind

\* zlListapNext pays the debt of the item it passes.
LEMMA Next1Segura ==
  ASSUME ListaInv, Next1
  PROVE  ListaInv'
<1>1. /\ paseo = "si"
      /\ lista' = zlListapNext(lista)
      /\ debidos' = debidos \ {zlListapNextItem(lista)}
      /\ paseo' \in {"si", "acabado"}
      /\ canalItem' = canalItem
  BY DEF Next1
<1>2. lista.itera \in Nat /\ lista \in [items : Seq(Items \cup {NULL}), numActivos : Int, itera : Nat]
  BY DEF ListaInv, ListaTypeOK, EsLista
<1>3. PICK n \in Nat : /\ lista' = [lista EXCEPT !.itera = n]
                       /\ n = IF FinDeLista(lista) THEN lista.itera ELSE lista.itera + 1
  <2>1. CASE FinDeLista(lista)
    <3>1. lista' = [lista EXCEPT !.itera = lista.itera]
      BY <1>1, <1>2, <2>1 DEF zlListapNext
    <3> QED BY <1>2, <2>1, <3>1
  <2>2. CASE ~ FinDeLista(lista)
    <3>1. lista' = [lista EXCEPT !.itera = lista.itera + 1] /\ lista.itera + 1 \in Nat
      BY <1>1, <1>2, <2>2 DEF zlListapNext
    <3> QED BY <2>2, <3>1
  <2> QED BY <2>1, <2>2
<1>4. /\ EsLista(lista', Items)
      /\ lista'.itera = n
      /\ HandlesExact'
      /\ NoGrowthWithHoles'
      /\ Guardados' = Guardados
  BY <1>1, <1>3, SoloCursor
<1>5. \A x \in debidos' : canalItem[x] >= n
  <2> SUFFICES ASSUME NEW x \in debidos'
               PROVE  canalItem[x] >= n
    OBVIOUS
  <2>1. x \in debidos /\ x \in Guardados /\ canalItem[x] >= lista.itera
    BY <1>1 DEF ListaInv, WalkLeavesNothingBehind
  <2>2. canalItem[x] \in Nat /\ zlListapItem(lista, canalItem[x]) = x
    BY <2>1 DEF ListaInv, HandlesExact, ListaTypeOK, Guardados
  <2>3. CASE FinDeLista(lista)
    BY <1>3, <2>1, <2>3
  <2>4. CASE ~ FinDeLista(lista)
    <3>1. zlListapNextItem(lista) = zlListapItem(lista, lista.itera)
      BY <2>4 DEF zlListapNextItem
    <3>2. canalItem[x] # lista.itera
      BY <1>1, <2>2, <3>1
    <3> QED BY <1>2, <1>3, <2>1, <2>2, <2>4, <3>2
  <2> QED BY <2>3, <2>4
<1>6. ListaTypeOK'
  BY <1>1, <1>4 DEF ListaInv, ListaTypeOK
<1>7. debidos' \subseteq Guardados'
  BY <1>1, <1>4 DEF ListaInv
<1> QED BY <1>1, <1>4, <1>5, <1>6, <1>7 DEF ListaInv, WalkLeavesNothingBehind

-----------------------------------------------------------------------------
\* The invariant of an owner that gives back the handles it was given: it holds of
\* every list, for any finite set of items and whatever is stored and freed while
\* the list is being walked.
THEOREM ListaCorrecta == ListapSpec => []ListaInv
<1>1. ListapInit => ListaInv
  <2> SUFFICES ASSUME ListapInit
               PROVE  ListaInv
    OBVIOUS
  <2>1. /\ lista.items = <<>>
        /\ lista.numActivos = 0
        /\ lista.itera = 0
        /\ lista \in [items : Seq(Items \cup {NULL}), numActivos : Int, itera : Nat]
    BY EmptySeq DEF ListapInit, zlListapCrea
  <2>2. Num(lista) = 0 /\ Posiciones(lista) = {} /\ Ocupadas(lista) = {}
    BY <2>1, EmptySeq DEF Num, Posiciones, Ocupadas
  <2>3. Guardados = {} /\ canalItem \in [Items -> Nat \cup {SinCanal}]
    BY DEF ListapInit, Guardados
  <2>4. Cardinality({}) = 0 /\ Cardinality(Items) \in Nat
    BY FS_EmptySet, FS_CardinalityType, ItemsAssumption
  <2>5. ListaTypeOK
    BY <2>1, <2>2, <2>3, <2>4 DEF ListapInit, ListaTypeOK, EsLista
  <2> QED
    BY <2>2, <2>3, <2>4, <2>5
       DEF ListapInit, ListaInv, HandlesExact, NoGrowthWithHoles, WalkLeavesNothingBehind
<1>2. ListaInv /\ [ListapNext]_listaVars => ListaInv'
  <2> SUFFICES ASSUME ListaInv, [ListapNext]_listaVars
               PROVE  ListaInv'
    OBVIOUS
  <2>1. ASSUME NEW x \in Items, Guarda(x)
        PROVE  ListaInv'
    BY <2>1, GuardaSegura
  <2>2. ASSUME NEW x \in Items, Borra(x)
        PROVE  ListaInv'
    BY <2>2, BorraSegura
  <2>3. CASE For
    BY <2>3, ForSegura
  <2>4. CASE Next1
    BY <2>4, Next1Segura
  <2>5. CASE UNCHANGED listaVars
    <3>1. lista' = lista /\ canalItem' = canalItem /\ debidos' = debidos /\ paseo' = paseo
      BY <2>5 DEF listaVars
    <3> QED BY <3>1 DEF ListaInv, ListaTypeOK, HandlesExact, NoGrowthWithHoles,
                        WalkLeavesNothingBehind, Guardados
  <2> QED BY <2>1, <2>2, <2>3, <2>4, <2>5 DEF ListapNext
<1> QED BY <1>1, <1>2, PTL DEF ListapSpec

\* numActivos, kept by hand in four functions of zlListap.c, is the number of
\* pointers stored.
THEOREM CuentaExacta == ListapSpec => []ListaTypeOK
<1>1. ListaInv => ListaTypeOK
  BY DEF ListaInv
<1> QED BY <1>1, ListaCorrecta, PTL

\* Freeing by handle never drops somebody else's pointer.
THEOREM HandlesOfItems == ListapSpec => []HandlesExact
<1>1. ListaInv => HandlesExact
  BY DEF ListaInv
<1> QED BY <1>1, ListaCorrecta, PTL

\* The array never has more positions than there are items: holes come first.
THEOREM ReusesHoles == ListapSpec => []NoGrowthWithHoles
<1>1. ListaInv => NoGrowthWithHoles
  BY DEF ListaInv
<1> QED BY <1>1, ListaCorrecta, PTL

\* A walk passes no item without returning it, whatever changes between two
\* zlListapNext.
THEOREM WalkForgetsNobody == ListapSpec => []WalkLeavesNothingBehind
<1>1. ListaInv => WalkLeavesNothingBehind
  BY DEF ListaInv
<1> QED BY <1>1, ListaCorrecta, PTL

\* Storing never overwrites a pointer and never moves one: a position that held an
\* item holds the same item, or a hole, after any call.
THEOREM NothingOverwritten == ListapSpec => NoOverwrite
<1> DEFINE A == \A pos \in Ocupadas(lista) :
                   zlListapItem(lista', pos) \in {zlListapItem(lista, pos), NULL}
<1>1. ListaInv /\ [ListapNext]_listaVars => [A]_listaVars
  <2> SUFFICES ASSUME ListaInv, [ListapNext]_listaVars, NEW pos \in Ocupadas(lista)
               PROVE  zlListapItem(lista', pos) \in {zlListapItem(lista, pos), NULL}
    OBVIOUS
  <2> DEFINE V == Items \cup {NULL}
  <2>1. lista \in ListaDe(V) /\ NULL \in V /\ Items \subseteq V
    BY DEF ListaInv, ListaTypeOK, EsLista, ListaDe
  <2>2. pos \in Posiciones(lista) /\ pos \notin Huecos(lista)
    BY DEF Ocupadas
  <2> HIDE DEF V
  <2>3. ASSUME NEW x \in Items, Guarda(x)
        PROVE  zlListapItem(lista', pos) = zlListapItem(lista, pos)
    <3> DEFINE n == zlListapFirstItemFree(lista)
    <3>1. lista' = zlListapUpdateOrAppendPos(lista, x, n) /\ x \in V
      BY <2>1, <2>3 DEF Guarda, zlListapUpdateOrAppend
    <3>2. n \in Huecos(lista) \cup {Num(lista)} /\ n \in Nat /\ Num(lista) \in Nat
      BY <2>1, PrimerHueco
    <3>3. pos # n
      BY <2>2, <3>2 DEF Posiciones
    <3> HIDE DEF n
    <3> QED BY <2>1, <2>2, <3>1, <3>2, <3>3, Guardado
  <2>4. ASSUME NEW x \in Items, Borra(x)
        PROVE  zlListapItem(lista', pos) \in {zlListapItem(lista, pos), NULL}
    <3>1. lista' = zlListapFreeItem(lista, canalItem[x]) /\ canalItem[x] \in Posiciones(lista)
      BY <2>4 DEF Borra, ListaInv, HandlesExact
    <3> QED BY <2>1, <2>2, <3>1, Borrado
  <2>5. ASSUME NEW n \in Nat, lista' = [lista EXCEPT !.itera = n]
        PROVE  zlListapItem(lista', pos) = zlListapItem(lista, pos)
    BY <2>1, <2>5 DEF zlListapItem, ListaDe
  <2>6. lista.itera \in Nat /\ lista = [lista EXCEPT !.itera = lista.itera]
    BY <2>1 DEF ListaDe
  <2>7. CASE For
    BY <2>5, <2>7 DEF For, zlListapFor
  <2>8. CASE Next1
    BY <2>5, <2>6, <2>8 DEF Next1, zlListapNext
  <2>9. CASE UNCHANGED listaVars
    BY <2>9 DEF listaVars
  <2> QED BY <2>3, <2>4, <2>7, <2>8, <2>9 DEF ListapNext
<1> QED BY <1>1, ListaCorrecta, PTL DEF ListapSpec, NoOverwrite

-----------------------------------------------------------------------------
\* Canales.

\* The channel that the refinement mapping finds by looking for the item is the one
\* the item keeps.
LEMMA PosicionEsCanal ==
  ASSUME ListaTypeOK, HandlesExact
  PROVE  \A x \in Items : PosicionDe(lista, x) = canalItem[x]
<1> SUFFICES ASSUME NEW x \in Items
             PROVE  PosicionDe(lista, x) = canalItem[x]
  OBVIOUS
<1>1. \A pos \in Posiciones(lista) : zlListapItem(lista, pos) = x => canalItem[x] = pos
  BY ItemsAssumption DEF HandlesExact, Ocupadas, Huecos
<1>2. CASE x \in Guardados
  <2>1. canalItem[x] \in Posiciones(lista) /\ zlListapItem(lista, canalItem[x]) = x
    BY <1>2 DEF HandlesExact
  <2> QED BY <1>1, <2>1 DEF PosicionDe
<1>3. CASE x \notin Guardados
  <2>1. canalItem[x] = SinCanal
    BY <1>3 DEF Guardados
  <2>2. \A pos \in Posiciones(lista) : pos # SinCanal
    <3>1. Num(lista) \in Nat
      BY LenProperties DEF ListaTypeOK, EsLista, Num
    <3> QED BY <3>1 DEF Posiciones, SinCanal
  <2> QED BY <1>1, <2>1, <2>2 DEF PosicionDe
<1> QED BY <1>2, <1>3

\* zlListap keeps the promise of Canales: a connection gets a channel that no other
\* has and that is below the number of items, keeps it while it is open, and the
\* count is the number of open connections.
THEOREM KeepsChannels == ListapSpec => ListaImplementsCanales
<1> DEFINE mapa(l) == [x \in Items |-> PosicionDe(l, x)]
<1>1. ListapInit => AbstractoLista!Init
  <2> SUFFICES ASSUME ListapInit
               PROVE  AbstractoLista!Init
    OBVIOUS
  <2>1. lista.items = <<>> /\ lista.numActivos = 0
    BY DEF ListapInit, zlListapCrea
  <2>2. Posiciones(lista) = {}
    BY <2>1, EmptySeq DEF Posiciones, Num
  <2>3. \A x \in Items : PosicionDe(lista, x) = SinCanal
    BY <2>2 DEF PosicionDe
  <2> QED BY <2>1, <2>3 DEF AbstractoLista!Init, AbstractoLista!SinCanal, SinCanal
<1>2. ListaInv /\ ListaInv' /\ [ListapNext]_listaVars => [AbstractoLista!Next]_(AbstractoLista!vars)
  <2> SUFFICES ASSUME ListaInv, ListaInv', [ListapNext]_listaVars
               PROVE  [AbstractoLista!Next]_(AbstractoLista!vars)
    OBVIOUS
  <2>1. mapa(lista) = canalItem /\ mapa(lista') = canalItem'
    <3>1. \A x \in Items : PosicionDe(lista, x) = canalItem[x]
      BY PosicionEsCanal DEF ListaInv
    <3>2. (\A x \in Items : PosicionDe(lista, x) = canalItem[x])'
      <4>1. ListaTypeOK' /\ HandlesExact'
        BY DEF ListaInv
      <4> QED BY <4>1, PosicionEsCanal, PTL
    <3>3. canalItem \in [Items -> Nat \cup {SinCanal}] /\ canalItem' \in [Items -> Nat \cup {SinCanal}]
      BY DEF ListaInv, ListaTypeOK
    <3> QED BY <3>1, <3>2, <3>3
  <2>2. ASSUME lista'.numActivos = lista.numActivos, canalItem' = canalItem
        PROVE  UNCHANGED AbstractoLista!vars
    BY <2>1, <2>2 DEF AbstractoLista!vars
  <2>3. ASSUME NEW x \in Items, Guarda(x)
        PROVE  AbstractoLista!Next
    <3> DEFINE n == zlListapFirstItemFree(lista)
               V == Items \cup {NULL}
    <3>1. /\ x \notin Guardados
          /\ lista' = zlListapUpdateOrAppendPos(lista, x, n)
          /\ canalItem' = [canalItem EXCEPT ![x] = n]
      BY <2>3 DEF Guarda, zlListapUpdateOrAppend
    <3>2. lista \in ListaDe(V) /\ x \in V
      BY DEF ListaInv, ListaTypeOK, EsLista, ListaDe
    <3>3. n \in Huecos(lista) \cup {Num(lista)} /\ n \in Nat /\ Num(lista) \in Nat
      <4> HIDE DEF V
      <4> QED BY <3>2, PrimerHueco
    <3>4. n + 1 <= Cardinality(Items) /\ Cardinality(Items) \in Nat
      BY <3>1, HayHueco, FS_CardinalityType, ItemsAssumption DEF ListaInv
    <3>5. lista'.numActivos = lista.numActivos + 1
      <4> HIDE DEF V, n
      <4> QED BY <3>1, <3>2, <3>3, Guardado
    <3> HIDE DEF n
    <3>6. \A y \in Guardados : canalItem[y] # n
      BY <3>3, ItemsAssumption DEF ListaInv, HandlesExact, Posiciones, Huecos, Guardados
    <3>0. AbstractoLista!Cardinality(Items) = Cardinality(Items)
      BY Zenon DEF AbstractoLista!Cardinality, Cardinality
    <3>7. n \in AbstractoLista!Libres
      BY <2>1, <3>0, <3>3, <3>4, <3>6
         DEF AbstractoLista!Libres, AbstractoLista!EnUso, AbstractoLista!Abiertos, AbstractoLista!SinCanal,
             Guardados, SinCanal
    <3>8. AbstractoLista!Abre(x, n)
      BY <2>1, <3>1, <3>5, <3>7
         DEF AbstractoLista!Abre, AbstractoLista!Abiertos, AbstractoLista!SinCanal, Guardados, SinCanal
    <3> QED BY <3>7, <3>8 DEF AbstractoLista!Next
  <2>4. ASSUME NEW x \in Items, Borra(x)
        PROVE  AbstractoLista!Next
    <3> DEFINE V == Items \cup {NULL}
    <3>1. /\ x \in Guardados
          /\ lista' = zlListapFreeItem(lista, canalItem[x])
          /\ canalItem' = [canalItem EXCEPT ![x] = SinCanal]
          /\ canalItem[x] \in Posiciones(lista)
      BY <2>4 DEF Borra, ListaInv, HandlesExact
    <3>2. lista \in ListaDe(V) /\ NULL \in V
      BY DEF ListaInv, ListaTypeOK, EsLista, ListaDe
    <3>3. lista'.numActivos = lista.numActivos - 1
      <4> HIDE DEF V
      <4> QED BY <3>1, <3>2, Borrado
    <3>4. AbstractoLista!Cierra(x)
      BY <2>1, <3>1, <3>3
         DEF AbstractoLista!Cierra, AbstractoLista!Abiertos, AbstractoLista!SinCanal, Guardados, SinCanal
    <3> QED BY <3>4 DEF AbstractoLista!Next
  <2>5. CASE For
    BY <2>2, <2>5 DEF For, zlListapFor
  <2>6. CASE Next1
    BY <2>2, <2>6 DEF Next1, zlListapNext
  <2>7. CASE UNCHANGED listaVars
    BY <2>2, <2>7 DEF listaVars
  <2> QED BY <2>3, <2>4, <2>5, <2>6, <2>7 DEF ListapNext
<1> QED BY <1>1, <1>2, ListaCorrecta, PTL DEF ListapSpec, ListaImplementsCanales, AbstractoLista!Spec
=============================================================================
