-------------------------------- MODULE Ean13 -------------------------------
(***************************************************************************)
(* zlEan13.c: a code is given its check digit, is damaged on its way as    *)
(* codes are (a digit misread, two neighbours swapped), and is checked.    *)
(***************************************************************************)
EXTENDS Integers, Sequences

CONSTANT Codigos      \* the codes to be checked: the 12 digits, and any last one

Digitos == 0 .. 9

ASSUME EanAssumption == Codigos \subseteq [1 .. 13 -> Digitos]

VARIABLES codigo,     \* entrada
          emitido,    \* history: the code as it was given its digit
          valido      \* what zlEan13Check answered: "no", "si", or "?" before

eanVars == <<codigo, emitido, valido>>

\* Odd positions of C weigh three.
Suma(c) == c[1] + 3 * c[2] + c[3] + 3 * c[4] + c[5] + 3 * c[6]
             + c[7] + 3 * c[8] + c[9] + 3 * c[10] + c[11] + 3 * c[12]

\* Mutant of zlEan13Digito: every position weighs one.
DigitoSinPesos(c) ==
  (10 - ((c[1] + c[2] + c[3] + c[4] + c[5] + c[6]
            + c[7] + c[8] + c[9] + c[10] + c[11] + c[12]) % 10)) % 10

zlEan13Digito(c) == (10 - (Suma(c) % 10)) % 10

EanInit == codigo \in Codigos /\ emitido = <<>> /\ valido = "?"

setEan13Digito == /\ emitido = <<>>
                  /\ codigo' = [codigo EXCEPT ![13] = zlEan13Digito(codigo)]
                  /\ emitido' = codigo'
                  /\ UNCHANGED valido

\* The environment: one digit is misread, or two neighbours are swapped.
Estropea ==
  /\ emitido # <<>> /\ codigo = emitido /\ valido = "?"
  /\ \/ \E k \in 1 .. 13, d \in Digitos : codigo' = [codigo EXCEPT ![k] = d]
     \/ \E k \in 1 .. 12 :
          codigo' = [codigo EXCEPT ![k] = codigo[k + 1], ![k + 1] = codigo[k]]
  /\ UNCHANGED <<emitido, valido>>

zlEan13Check == /\ emitido # <<>> /\ valido = "?"
                /\ valido' = IF codigo[13] = zlEan13Digito(codigo) THEN "si" ELSE "no"
                /\ UNCHANGED <<codigo, emitido>>

EanNext == setEan13Digito \/ Estropea \/ zlEan13Check

EanSpec == EanInit /\ [][EanNext]_eanVars

-----------------------------------------------------------------------------
Cambiados == {k \in 1 .. 13 : codigo[k] # emitido[k]}

\* A code is found valid as it was emitted, and not when one digit was misread, nor
\* when two neighbours were swapped that do not differ by five.
DamageIsSeen ==
  emitido # <<>> =>
    /\ valido = "si" => \/ codigo = emitido
                        \/ \E k \in 1 .. 12 : /\ Cambiados = {k, k + 1}
                                              /\ emitido[k] - emitido[k + 1] \in {-5, 5}
    /\ valido = "no" => codigo # emitido
=============================================================================
