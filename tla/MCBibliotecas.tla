--------------------------- MODULE MCBibliotecas ----------------------------
(* Inputs for the utilities: the boundaries of each, and what lies on both *)
(* sides of them.  The libraries of connections need none.                 *)
EXTENDS Bibliotecas, FiniteSetsExt

Cadenas0(bytes, n) == UNION {[1 .. k -> bytes] : k \in 0 .. n}

\* Groups that are empty, too big by one, too big by far, of zeros, or not of digits.
Grupos == {<<>>, <<0>>, <<0, 0, 7>>, <<2, 5, 5>>, <<2, 5, 6>>, <<1, 0, 0, 0>>, <<11>>}
Con(grupos) ==
  LET con[n \in 1 .. Len(grupos)] ==
        IF n = 1 THEN grupos[1] ELSE con[n - 1] \o <<I!PuntoIp>> \o grupos[n]
  IN con[Len(grupos)]
MCDirecciones == {Con(grupos) : grupos \in UNION {[1 .. n -> Grupos] : n \in 1 .. 4}}
                   \cup {Con(grupos) : grupos \in [1 .. 5 -> {<<>>, <<11>>}]}

\* Lines of four bytes, and files of six in pieces of two.
MCLineas == Cadenas0({NUL, ESPACIO, PUNTO, COMA, SALTO} \cup Letras, 4)
              \cup Cadenas0({NUL, SALTO} \cup Letras, 6)

\* Two neighbours at any place, of digits that do and do not differ by five.
MCCodigos == {[i \in 1 .. 13 |-> CASE i = k -> a [] i = k + 1 -> b [] OTHER -> 0] :
                k \in {1, 2, 7, 11, 12}, a \in {0, 1, 4, 9}, b \in {0, 5, 9}}

\* From November 2023 to the end of 2024, a leap year; 2025 follows.
MCDiasAntes == <<0, 31, 59, 90, 120, 151, 181, 212, 243, 273, 304, 334,
                 365, 396, 425, 456, 486, 517, 547, 578, 609, 639, 670, 700,
                 731, 762, 790, 821, 851, 882, 912, 943, 974, 1004, 1035, 1065, 1096>>
\* The clocks change on the last Sundays of March, at 2 (day 84 of 2023, 455 with 2024),
\* and of October, at 3 (days 301 and 665).
MCVerano == {<<2018, 7226>>, <<10922, 15962>>}
\* The days about the ends of months, their middles and the changes of the clocks.
MCMomentos == {d * 24 + h : d \in {304, 318, 333, 334, 364, 365, 394, 395, 396, 423, 424, 425,
                                   441, 454, 455, 456, 484, 485, 486, 516, 517, 664, 665, 666,
                                   669, 670, 699, 700, 729, 730},
                            h \in {0, 1, 12, 22, 23}}

MCPlazos == {-1, 0, 1, 3}

MCTextos == Cadenas0({1, 2}, 5)
MCSeparadores == {<<2>>, <<2, 2>>, <<1, 2>>}
=============================================================================
