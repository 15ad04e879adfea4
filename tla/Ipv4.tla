-------------------------------- MODULE Ipv4 --------------------------------
(***************************************************************************)
(* zlValidIpv4.c: isValidIp4 reads a string once, from left to right, with *)
(* three counters.  A character is a digit, PuntoIp or any OTRO.           *)
(***************************************************************************)
EXTENDS Integers, Sequences, FiniteSets

Digitos == 0 .. 9
PuntoIp == 10
OTRO == 11
CaracteresIp == Digitos \cup {PuntoIp, OTRO}

Inicio == [segs |-> 0, chcnt |-> 0, accum |-> 0]

\* What a return zlFalse inside the loop leaves.
Mal == [segs |-> -1, chcnt |-> 0, accum |-> 0]

PuntoLeido(e) == IF e.chcnt = 0 \/ e.segs + 1 = 4
                 THEN Mal
                 ELSE [segs |-> e.segs + 1, chcnt |-> 0, accum |-> 0]

DigitoLeido(e, d) == IF e.accum * 10 + d > 255
                     THEN Mal
                     ELSE [e EXCEPT !.accum = @ * 10 + d, !.chcnt = @ + 1]

Leido(e, c) == IF e = Mal THEN Mal
               ELSE CASE c = PuntoIp   -> PuntoLeido(e)
                      [] c \in Digitos -> DigitoLeido(e, c)
                      [] OTHER         -> Mal

isValidIp4(str) ==
  LET tras[n \in 0 .. Len(str)] == IF n = 0 THEN Inicio ELSE Leido(tras[n - 1], str[n])
      fin == tras[Len(str)]
  IN fin.segs = 3 /\ fin.chcnt # 0

-----------------------------------------------------------------------------
\* What an address is, without reading it: four groups of digits, none empty and
\* none worth more than 255, however many zeros it starts with.
Valor(grupo) ==
  LET hasta[n \in 0 .. Len(grupo)] == IF n = 0 THEN 0 ELSE hasta[n - 1] * 10 + grupo[n]
  IN hasta[Len(grupo)]

EsGrupo(grupo) == /\ grupo # <<>>
                  /\ \A i \in DOMAIN grupo : grupo[i] \in Digitos
                  /\ Valor(grupo) <= 255

\* The dots, and the two ends, part the string in groups.
EsDireccion(str) ==
  LET puntos == {i \in DOMAIN str : str[i] = PuntoIp}
      cortes == puntos \cup {0, Len(str) + 1}
  IN /\ Cardinality(puntos) = 3
     /\ \A a, b \in cortes :
          a < b /\ (\A c \in cortes : c <= a \/ c >= b) => EsGrupo(SubSeq(str, a + 1, b - 1))
=============================================================================
