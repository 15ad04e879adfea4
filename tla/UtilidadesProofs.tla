-------------------------- MODULE UtilidadesProofs --------------------------
(***************************************************************************)
(* Proofs about the utilities of zlStd.ws and the lists without handles:   *)
(* damaged codes are found out, dates told, texts read, directories listed *)
(* and lists walked as they should, for any calendar, text, directory and  *)
(* list.                                                                   *)
(***************************************************************************)
EXTENDS Funciones, Ean13, Temporizador, Fechas, BufRead, Dir, Lista1, Enlazada,
        SequenceTheorems, FiniteSetTheorems, TLAPS

Lista == INSTANCE ListapLemas

-----------------------------------------------------------------------------
\* The check digits of zlEan13.

\* What the check digit makes a multiple of ten.
EanTotal(c) == Suma(c) + c[13]

\* The check asks for a multiple of ten.
LEMMA DigitoJusto ==
  ASSUME NEW n \in Nat, NEW d \in Digitos
  PROVE  d = (10 - (n % 10)) % 10 <=> \E q \in Nat : n + d = 10 * q
<1>1. PICK r \in Digitos, q \in Nat : n = 10 * q + r /\ n % 10 = r
  <2>1. n % 10 \in 0 .. 9
    OBVIOUS
  <2>2. n \div 10 \in Nat
    OBVIOUS
  <2>3. n = 10 * (n \div 10) + (n % 10)
    OBVIOUS
  <2> QED BY <2>1, <2>2, <2>3 DEF Digitos
<1>2. CASE r = 0
  <2>1. (10 - r) % 10 = 0
    BY <1>2
  <2> QED BY <1>1, <1>2, <2>1 DEF Digitos
<1>3. CASE r # 0
  <2>1. (10 - r) % 10 = 10 - r
    BY <1>3 DEF Digitos
  <2>2. ASSUME d = 10 - r
        PROVE  n + d = 10 * (q + 1)
    BY <1>1, <2>2 DEF Digitos
  <2> QED BY <1>1, <1>3, <2>1, <2>2 DEF Digitos
<1> QED BY <1>2, <1>3

\* A code that differs in one digit: the total differs as much, or three times as much.
LEMMA CambioDeDigito ==
  ASSUME NEW e \in [1 .. 13 -> Int], NEW c \in [1 .. 13 -> Int], NEW k \in 1 .. 13,
         \A j \in 1 .. 13 : j # k => c[j] = e[j]
  PROVE  EanTotal(c) - EanTotal(e) \in {c[k] - e[k], 3 * (c[k] - e[k])}
<1>1. CASE k = 1
  <2>1. EanTotal(c) - EanTotal(e) = c[1] - e[1]
    BY <1>1, SMTT(30) DEF EanTotal, Suma
  <2> QED BY <1>1, <2>1
<1>2. CASE k = 2
  <2>1. EanTotal(c) - EanTotal(e) = 3 * (c[2] - e[2])
    BY <1>2, SMTT(30) DEF EanTotal, Suma
  <2> QED BY <1>2, <2>1
<1>3. CASE k = 3
  <2>1. EanTotal(c) - EanTotal(e) = c[3] - e[3]
    BY <1>3, SMTT(30) DEF EanTotal, Suma
  <2> QED BY <1>3, <2>1
<1>4. CASE k = 4
  <2>1. EanTotal(c) - EanTotal(e) = 3 * (c[4] - e[4])
    BY <1>4, SMTT(30) DEF EanTotal, Suma
  <2> QED BY <1>4, <2>1
<1>5. CASE k = 5
  <2>1. EanTotal(c) - EanTotal(e) = c[5] - e[5]
    BY <1>5, SMTT(30) DEF EanTotal, Suma
  <2> QED BY <1>5, <2>1
<1>6. CASE k = 6
  <2>1. EanTotal(c) - EanTotal(e) = 3 * (c[6] - e[6])
    BY <1>6, SMTT(30) DEF EanTotal, Suma
  <2> QED BY <1>6, <2>1
<1>7. CASE k = 7
  <2>1. EanTotal(c) - EanTotal(e) = c[7] - e[7]
    <3>1. /\ c[1] = e[1] /\ c[2] = e[2] /\ c[3] = e[3] /\ c[4] = e[4] /\ c[5] = e[5]
          /\ c[6] = e[6] /\ c[8] = e[8] /\ c[9] = e[9] /\ c[10] = e[10] /\ c[11] = e[11]
          /\ c[12] = e[12] /\ c[13] = e[13]
      BY <1>7
    <3> QED BY <3>1, SMTT(30) DEF EanTotal, Suma
  <2> QED BY <1>7, <2>1
<1>8. CASE k = 8
  <2>1. EanTotal(c) - EanTotal(e) = 3 * (c[8] - e[8])
    BY <1>8, SMTT(30) DEF EanTotal, Suma
  <2> QED BY <1>8, <2>1
<1>9. CASE k = 9
  <2>1. EanTotal(c) - EanTotal(e) = c[9] - e[9]
    BY <1>9, SMTT(30) DEF EanTotal, Suma
  <2> QED BY <1>9, <2>1
<1>10. CASE k = 10
  <2>1. EanTotal(c) - EanTotal(e) = 3 * (c[10] - e[10])
    BY <1>10, SMTT(30) DEF EanTotal, Suma
  <2> QED BY <1>10, <2>1
<1>11. CASE k = 11
  <2>1. EanTotal(c) - EanTotal(e) = c[11] - e[11]
    BY <1>11, SMTT(30) DEF EanTotal, Suma
  <2> QED BY <1>11, <2>1
<1>12. CASE k = 12
  <2>1. EanTotal(c) - EanTotal(e) = 3 * (c[12] - e[12])
    BY <1>12, SMTT(30) DEF EanTotal, Suma
  <2> QED BY <1>12, <2>1
<1>13. CASE k = 13
  <2>1. EanTotal(c) - EanTotal(e) = c[13] - e[13]
    BY <1>13, SMTT(30) DEF EanTotal, Suma
  <2> QED BY <1>13, <2>1
<1> QED BY <1>1, <1>2, <1>3, <1>4, <1>5, <1>6, <1>7, <1>8, <1>9, <1>10, <1>11, <1>12,
        <1>13

\* A code with two neighbours swapped: twice what they differ.
LEMMA CambioDeVecinos ==
  ASSUME NEW e \in [1 .. 13 -> Int], NEW c \in [1 .. 13 -> Int], NEW k \in 1 .. 12,
         c[k] = e[k + 1], c[k + 1] = e[k],
         \A j \in 1 .. 13 : j # k /\ j # k + 1 => c[j] = e[j]
  PROVE  EanTotal(c) - EanTotal(e) \in {2 * (e[k] - e[k + 1]), 2 * (e[k + 1] - e[k])}
<1>1. CASE k = 1
  <2>1. EanTotal(c) - EanTotal(e) = 2 * (e[1] - e[2])
    BY <1>1, SMTT(30) DEF EanTotal, Suma
  <2> QED BY <1>1, <2>1
<1>2. CASE k = 2
  <2>1. EanTotal(c) - EanTotal(e) = 2 * (e[3] - e[2])
    BY <1>2, SMTT(30) DEF EanTotal, Suma
  <2> QED BY <1>2, <2>1
<1>3. CASE k = 3
  <2>1. EanTotal(c) - EanTotal(e) = 2 * (e[3] - e[4])
    BY <1>3, SMTT(30) DEF EanTotal, Suma
  <2> QED BY <1>3, <2>1
<1>4. CASE k = 4
  <2>1. EanTotal(c) - EanTotal(e) = 2 * (e[5] - e[4])
    BY <1>4, SMTT(30) DEF EanTotal, Suma
  <2> QED BY <1>4, <2>1
<1>5. CASE k = 5
  <2>1. EanTotal(c) - EanTotal(e) = 2 * (e[5] - e[6])
    BY <1>5, SMTT(30) DEF EanTotal, Suma
  <2> QED BY <1>5, <2>1
<1>6. CASE k = 6
  <2>1. EanTotal(c) - EanTotal(e) = 2 * (e[7] - e[6])
    BY <1>6, SMTT(30) DEF EanTotal, Suma
  <2> QED BY <1>6, <2>1
<1>7. CASE k = 7
  <2>1. EanTotal(c) - EanTotal(e) = 2 * (e[7] - e[8])
    BY <1>7, SMTT(30) DEF EanTotal, Suma
  <2> QED BY <1>7, <2>1
<1>8. CASE k = 8
  <2>1. EanTotal(c) - EanTotal(e) = 2 * (e[9] - e[8])
    BY <1>8, SMTT(30) DEF EanTotal, Suma
  <2> QED BY <1>8, <2>1
<1>9. CASE k = 9
  <2>1. EanTotal(c) - EanTotal(e) = 2 * (e[9] - e[10])
    BY <1>9, SMTT(30) DEF EanTotal, Suma
  <2> QED BY <1>9, <2>1
<1>10. CASE k = 10
  <2>1. EanTotal(c) - EanTotal(e) = 2 * (e[11] - e[10])
    BY <1>10, SMTT(30) DEF EanTotal, Suma
  <2> QED BY <1>10, <2>1
<1>11. CASE k = 11
  <2>1. EanTotal(c) - EanTotal(e) = 2 * (e[11] - e[12])
    BY <1>11, SMTT(30) DEF EanTotal, Suma
  <2> QED BY <1>11, <2>1
<1>12. CASE k = 12
  <2>1. EanTotal(c) - EanTotal(e) = 2 * (e[13] - e[12])
    BY <1>12, SMTT(30) DEF EanTotal, Suma
  <2> QED BY <1>12, <2>1
<1> QED BY <1>1, <1>2, <1>3, <1>4, <1>5, <1>6, <1>7, <1>8, <1>9, <1>10, <1>11, <1>12

\* Two codes with the same digits.
LEMMA MismosDigitos ==
  ASSUME NEW e \in [1 .. 13 -> Int], NEW c \in [1 .. 13 -> Int],
         \A j \in 1 .. 13 : c[j] = e[j]
  PROVE  c = e
OBVIOUS

\* The damage that has no effect on the check.
VecinosACinco(k) ==
  /\ Cambiados = {k, k + 1}
  /\ emitido[k] - emitido[k + 1] \in {-5, 5}

\* The code emitted is right; that which is checked is the same, or has one digit
\* changed or two neighbours swapped; and the answer says whether its total is right.
EanInv ==
  /\ codigo \in [1 .. 13 -> Digitos]
  /\ emitido = <<>> => valido = "?"
  /\ emitido # <<>> =>
       /\ emitido \in [1 .. 13 -> Digitos]
       /\ emitido[13] = zlEan13Digito(emitido)
       /\ \/ codigo = emitido
          \/ \E k \in 1 .. 13 : \A j \in 1 .. 13 : j # k => codigo[j] = emitido[j]
          \/ \E k \in 1 .. 12 : /\ codigo[k] = emitido[k + 1] /\ codigo[k + 1] = emitido[k]
                                /\ \A j \in 1 .. 13 :
                                     j # k /\ j # k + 1 => codigo[j] = emitido[j]
       /\ valido = "si" => codigo[13] = zlEan13Digito(codigo)
       /\ valido = "no" => codigo[13] # zlEan13Digito(codigo)

\* A code passes the check when its total is a multiple of ten.
LEMMA EanJusto ==
  ASSUME NEW c \in [1 .. 13 -> Digitos]
  PROVE  /\ zlEan13Digito(c) \in Digitos
         /\ c[13] = zlEan13Digito(c) <=> \E q \in Nat : EanTotal(c) = 10 * q
<1>1. Suma(c) \in Nat /\ c[13] \in Digitos
  <2>1. c \in [1 .. 13 -> Nat]
    BY DEF Digitos
  <2> QED BY <2>1 DEF Suma
<1>2. zlEan13Digito(c) \in Digitos
  BY <1>1 DEF zlEan13Digito, Digitos
<1> QED BY <1>1, <1>2, DigitoJusto DEF zlEan13Digito, EanTotal

\* EanInv is kept by every step.
LEMMA EanInvPaso == EanInv /\ [EanNext]_eanVars => EanInv'
<1> SUFFICES ASSUME EanInv, [EanNext]_eanVars PROVE EanInv'
  OBVIOUS
<1>1. CASE setEan13Digito
  <2>1. /\ codigo' \in [1 .. 13 -> Digitos] /\ emitido' = codigo'
        /\ codigo'[13] = zlEan13Digito(codigo)
        /\ valido' = "?"
    BY <1>1, EanJusto DEF EanInv, setEan13Digito
  <2>2. zlEan13Digito(codigo') = zlEan13Digito(codigo)
    BY <1>1 DEF EanInv, setEan13Digito, zlEan13Digito, Suma
  <2> QED BY <2>1, <2>2 DEF EanInv, zlEan13Digito, Suma
<1>2. CASE Estropea
  <2>1. /\ codigo = emitido /\ emitido' = emitido /\ valido' = "?" /\ emitido # <<>>
        /\ emitido \in [1 .. 13 -> Digitos]
        /\ emitido[13] = zlEan13Digito(emitido)
    BY <1>2 DEF EanInv, Estropea
  <2>2. /\ codigo' \in [1 .. 13 -> Digitos]
        /\ \/ \E k \in 1 .. 13 : \A j \in 1 .. 13 : j # k => codigo'[j] = emitido[j]
           \/ \E k \in 1 .. 12 : /\ codigo'[k] = emitido[k + 1] /\ codigo'[k + 1] = emitido[k]
                                 /\ \A j \in 1 .. 13 :
                                      j # k /\ j # k + 1 => codigo'[j] = emitido[j]
    BY <1>2, <2>1 DEF Estropea
  <2> QED BY <2>1, <2>2 DEF EanInv, zlEan13Digito, Suma
<1>3. CASE zlEan13Check
  BY <1>3 DEF EanInv, zlEan13Check, zlEan13Digito, Suma
<1>4. CASE UNCHANGED eanVars
  BY <1>4 DEF EanInv, eanVars, zlEan13Digito, Suma
<1> QED BY <1>1, <1>2, <1>3, <1>4 DEF EanNext

\* A code that is found valid is the one that was emitted, or two of its neighbours that
\* differ by five were swapped; one that is not found valid is not the one emitted.
LEMMA EanDecide == EanInv => DamageIsSeen
<1> SUFFICES ASSUME EanInv, emitido # <<>>
             PROVE  /\ valido = "si" /\ codigo # emitido => \E k \in 1 .. 12 : VecinosACinco(k)
                    /\ valido = "no" => codigo # emitido
  BY DEF DamageIsSeen, VecinosACinco
<1>1. /\ codigo \in [1 .. 13 -> Digitos] /\ emitido \in [1 .. 13 -> Digitos]
      /\ codigo \in [1 .. 13 -> Int] /\ emitido \in [1 .. 13 -> Int]
      /\ emitido[13] = zlEan13Digito(emitido)
  BY DEF EanInv, Digitos
<1>2. valido = "no" => codigo # emitido
  BY <1>1 DEF EanInv
<1>3. ASSUME valido = "si", codigo # emitido
      PROVE  \E k \in 1 .. 12 : VecinosACinco(k)
  <2>1. PICK q \in Nat, q0 \in Nat : EanTotal(codigo) = 10 * q /\ EanTotal(emitido) = 10 * q0
    BY <1>1, <1>3, EanJusto DEF EanInv
  <2>2. ASSUME NEW k \in 1 .. 13, \A j \in 1 .. 13 : j # k => codigo[j] = emitido[j]
        PROVE  FALSE
    <3>1. codigo[k] # emitido[k]
      <4>1. SUFFICES ASSUME codigo[k] = emitido[k] PROVE FALSE
        OBVIOUS
      <4>2. ASSUME NEW j \in 1 .. 13 PROVE codigo[j] = emitido[j]
        BY <2>2, <4>1
      <4> QED BY <1>1, <1>3, <4>2, MismosDigitos
    <3>2. 10 * q - 10 * q0 \in {codigo[k] - emitido[k], 3 * (codigo[k] - emitido[k])}
      BY <1>1, <2>1, <2>2, CambioDeDigito
    <3>3. PICK a \in Digitos, b \in Digitos : a = codigo[k] /\ b = emitido[k]
      BY <1>1
    <3>4. 10 * q - 10 * q0 = a - b \/ 10 * q - 10 * q0 = 3 * (a - b)
      BY <3>2, <3>3
    <3>5. CASE 10 * q - 10 * q0 = a - b
      <4>1. a = b
        BY <3>5 DEF Digitos
      <4> QED BY <3>1, <3>3, <4>1
    <3>6. CASE 10 * q - 10 * q0 = 3 * (a - b)
      <4>1. a = b
        BY <3>6 DEF Digitos
      <4> QED BY <3>1, <3>3, <4>1
    <3> QED BY <3>4, <3>5, <3>6
  <2>3. ASSUME NEW k \in 1 .. 12, codigo[k] = emitido[k + 1], codigo[k + 1] = emitido[k],
               \A j \in 1 .. 13 : j # k /\ j # k + 1 => codigo[j] = emitido[j]
        PROVE  VecinosACinco(k)
    <3>0. k \in 1 .. 13 /\ k + 1 \in 1 .. 13 /\ k # k + 1
      OBVIOUS
    <3>1. codigo[k] # emitido[k] /\ codigo[k + 1] # emitido[k + 1]
      <4>1. SUFFICES ASSUME emitido[k] = emitido[k + 1] PROVE FALSE
        BY <2>3
      <4>2. ASSUME NEW j \in 1 .. 13 PROVE codigo[j] = emitido[j]
        BY <2>3, <4>1
      <4> QED BY <1>1, <1>3, <4>2, MismosDigitos
    <3>2. Cambiados = {k, k + 1}
      BY <2>3, <3>0, <3>1 DEF Cambiados
    <3>3. 10 * q - 10 * q0 \in {2 * (emitido[k] - emitido[k + 1]),
                                2 * (emitido[k + 1] - emitido[k])}
      BY <1>1, <2>1, <2>3, CambioDeVecinos
    <3>4. PICK a \in Digitos, b \in Digitos : a = emitido[k] /\ b = emitido[k + 1] /\ a # b
      BY <1>1, <2>3, <3>0, <3>1
    <3>5. 10 * q - 10 * q0 = 2 * (a - b) \/ 10 * q - 10 * q0 = 2 * (b - a)
      BY <3>3, <3>4
    <3>6. a # b
      BY <3>4
    <3>7. CASE 10 * q - 10 * q0 = 2 * (a - b)
      <4>1. a - b = 5 \/ a - b = -5
        BY <3>6, <3>7 DEF Digitos
      <4> QED BY <3>2, <3>4, <4>1 DEF VecinosACinco
    <3>8. CASE 10 * q - 10 * q0 = 2 * (b - a)
      <4>1. a - b = 5 \/ a - b = -5
        BY <3>6, <3>8 DEF Digitos
      <4> QED BY <3>2, <3>4, <4>1 DEF VecinosACinco
    <3> QED BY <3>5, <3>7, <3>8
  <2> QED BY <1>3, <2>2, <2>3 DEF EanInv
<1> QED BY <1>2, <1>3

\* A misread digit is always found out by the check digit, and so are two swapped
\* neighbours unless they differ by five, whatever the code.
THEOREM EanFindsDamage == EanSpec => []DamageIsSeen
<1>1. EanInit => EanInv
  BY EanAssumption DEF EanInit, EanInv
<1> QED BY <1>1, EanInvPaso, EanDecide, PTL DEF EanSpec

-----------------------------------------------------------------------------
\* The remaining time of zlTimer.

Instantes == [sec : Int, usec : Int]

\* A Timeout that was set is not negative.
TempInv == /\ reloj \in Instantes
           /\ StartTimer \in Instantes
           /\ Timeout \in Nat \cup {Nunca}

\* A quotient is nothing exactly when the dividend is less than the divisor.
LEMMA DivisionNula ==
  ASSUME NEW q \in Nat, NEW m \in Nat \ {0}
  PROVE  q \div m <= 0 <=> q < m
OBVIOUS

\* TempInv is inductive.
LEMMA TempInvPaso == TempInv /\ [TempNext]_tempVars => TempInv'
<1> SUFFICES ASSUME TempInv, [TempNext]_tempVars PROVE TempInv'
  OBVIOUS
<1>1. ASSUME NEW u \in 0 .. Tope PROVE Instante(u) \in Instantes
  <2>1. u \in Int /\ u \div USEG \in Int /\ u % USEG \in Int
    BY TempAssumption
  <2> QED BY <2>1 DEF Instante, Instantes
<1>2. ASSUME NEW plazo \in Plazos, Arranca(plazo)
      PROVE  TempInv'
  <2>1. Timeout' \in Nat \cup {Nunca}
    BY <1>2, TempAssumption DEF Arranca
  <2> QED BY <1>2, <2>1 DEF TempInv, Arranca
<1>3. CASE TimedOut
  BY <1>3 DEF TempInv, TimedOut
<1>4. CASE Reloj
  BY <1>1, <1>4 DEF TempInv, Reloj
<1>5. CASE UNCHANGED tempVars
  BY <1>5 DEF TempInv, tempVars
<1> QED BY <1>2, <1>3, <1>4, <1>5 DEF TempNext

\* What zlTimerTimedOut answers, through seconds, microseconds and the milliseconds of
\* zlTimerTimeLeft, which it rounds down.
LEMMA VenceCuandoNoQueda ==
  ASSUME TempInv, TimedOut
  PROVE  /\ vencido' <=> Timeout # Nunca /\ Queda < UMILI
         /\ Timeout # Nunca => Queda \in Int
<1>1. PICK s0 \in Int, u0 \in Int : StartTimer.sec = s0 /\ StartTimer.usec = u0
  BY DEF TempInv, Instantes
<1>2. PICK s1 \in Int, u1 \in Int : reloj.sec = s1 /\ reloj.usec = u1
  BY DEF TempInv, Instantes
<1>3. UMILI \in Nat \ {0} /\ USEG \in Int
  BY TempAssumption
<1>4. CASE Timeout = Nunca
  BY <1>4 DEF TimedOut
<1>5. CASE Timeout # Nunca
  <2>1. Timeout \in Nat
    BY <1>5 DEF TempInv
  <2> DEFINE queda == Timeout - Transcurrido(StartTimer, reloj)
  <2>2. queda \in Int /\ queda = Queda
    <3>1. (s1 - s0) * USEG = s1 * USEG - s0 * USEG
      BY <1>3
    <3>2. s1 * USEG \in Int /\ s0 * USEG \in Int
      BY <1>3
    <3> QED BY <1>1, <1>2, <2>1, <3>1, <3>2 DEF Transcurrido, Micros, Queda
  <2>3. vencido' <=> TimeLeft <= 0
    BY <1>5 DEF TimedOut
  <2>4. TimeLeft = IF queda < 0 THEN 0 ELSE queda \div UMILI
    BY <1>5 DEF TimeLeft
  <2> HIDE DEF queda
  <2>5. CASE queda < 0
    BY <1>3, <1>5, <2>2, <2>3, <2>4, <2>5
  <2>6. CASE ~(queda < 0)
    <3>1. queda \in Nat
      BY <2>2, <2>6
    <3>2. queda \div UMILI <= 0 <=> queda < UMILI
      BY <1>3, <3>1, DivisionNula
    <3> QED BY <1>5, <2>2, <2>3, <2>4, <2>6, <3>2
  <2> QED BY <2>5, <2>6
<1> QED BY <1>4, <1>5

\* TempInv holds at the start.
LEMMA TempEmpieza == TempInit => TempInv
<1>1. 0 \div USEG \in Int /\ 0 % USEG \in Int
  BY TempAssumption
<1> QED BY <1>1 DEF TempInit, TempInv, Instante, Instantes

\* zlTimerTimedOut says that a timer is out once its time has passed, and never while a
\* millisecond or more is left, whatever the clock does, also backwards, nor when it has
\* no time out: for any instants and any time outs.
THEOREM TimerIsOutInTime == TempSpec => OutInTime
<1>1. ASSUME TempInv, [TempNext]_tempVars
      PROVE  [TimedOut => /\ Timeout # Nunca /\ Queda <= 0 => vencido'
                          /\ vencido' => Timeout # Nunca /\ Queda < UMILI]_tempVars
  <2> SUFFICES ASSUME TimedOut
               PROVE  /\ Timeout # Nunca /\ Queda <= 0 => vencido'
                      /\ vencido' => Timeout # Nunca /\ Queda < UMILI
    OBVIOUS
  <2>1. UMILI \in Nat \ {0}
    BY TempAssumption
  <2> QED BY <1>1, <2>1, VenceCuandoNoQueda
<1> QED BY <1>1, TempEmpieza, TempInvPaso, PTL DEF TempSpec, OutInTime

-----------------------------------------------------------------------------
\* The dates of zlTimer.

\* The calendar, month by month.
LEMMA Calendario ==
  /\ Len(DiasAntes) \in Nat /\ Len(DiasAntes) >= 13 /\ Antes(0) = 0
  /\ \A k \in 0 .. Len(DiasAntes) - 1 : Antes(k) \in Nat
  /\ \A k \in Meses : Antes(k + 1) - Antes(k) \in 28 .. 31
  /\ Meses \subseteq 0 .. Len(DiasAntes) - 1
  /\ \A k \in Meses : k + 1 \in 0 .. Len(DiasAntes) - 1
<1> DEFINE L == Len(DiasAntes)
<1>1. /\ L \in Nat /\ L >= 13 /\ DiasAntes \in Seq(Nat) /\ DiasAntes[1] = 0
      /\ \A i \in 2 .. L : DiasAntes[i] - DiasAntes[i - 1] \in 28 .. 31
  BY FechasAssumption
<1>2. \A i \in 1 .. L : DiasAntes[i] \in Nat
  BY <1>1
<1> HIDE DEF L
<1>3. ASSUME NEW k \in 0 .. L - 1
      PROVE  Antes(k) \in Nat
  <2>1. k + 1 \in 1 .. L
    BY <1>1
  <2> QED BY <1>2, <2>1 DEF Antes
<1>4. ASSUME NEW k \in 0 .. L - 2
      PROVE  Antes(k + 1) - Antes(k) \in 28 .. 31
  <2>1. (k + 1) + 1 \in 2 .. L /\ ((k + 1) + 1) - 1 = k + 1
    BY <1>1
  <2>2. DiasAntes[(k + 1) + 1] - DiasAntes[((k + 1) + 1) - 1] \in 28 .. 31
    BY <1>1, <2>1
  <2> QED BY <2>1, <2>2 DEF Antes
<1>5. Antes(0) = 0
  BY <1>1 DEF Antes
<1> QED BY <1>1, <1>3, <1>4, <1>5 DEF Meses, L

\* Months do not go back.
LEMMA AntesCrece ==
  ASSUME NEW i \in 0 .. Len(DiasAntes) - 1, NEW j \in 0 .. Len(DiasAntes) - 1, i <= j
  PROVE  Antes(i) <= Antes(j)
<1> DEFINE malos == {k \in i .. Len(DiasAntes) - 1 : ~(Antes(i) <= Antes(k))}
<1>0. /\ Len(DiasAntes) \in Nat
      /\ \A k \in 0 .. Len(DiasAntes) - 1 : Antes(k) \in Nat
  BY Calendario
<1>1. SUFFICES ASSUME malos # {} PROVE FALSE
  BY <1>0
<1>2. PICK k \in malos : \A otro \in malos : k <= otro
  <2>1. malos \in SUBSET Nat
    BY <1>0
  <2> QED BY <1>1, <2>1, Lista!Minimo
<1>3. k \in i .. Len(DiasAntes) - 1 /\ ~(Antes(i) <= Antes(k)) /\ Antes(i) \in Nat /\ Antes(k) \in Nat
  BY <1>0
<1>4. k # i
  BY <1>3
<1>5. k - 1 \in i .. Len(DiasAntes) - 1 /\ k - 1 \in Meses /\ (k - 1) + 1 = k
  BY <1>0, <1>3, <1>4 DEF Meses
<1>6. k - 1 \notin malos
  BY <1>2, <1>3
<1>7. Antes(i) <= Antes(k - 1) /\ Antes(k - 1) \in Nat
  BY <1>0, <1>5, <1>6
<1>8. Antes((k - 1) + 1) - Antes(k - 1) \in 28 .. 31
  BY <1>5, Calendario
<1> QED BY <1>3, <1>5, <1>7, <1>8

\* Each day of the calendar is of one month.
EsDe(d, k) == Antes(k) <= d /\ d < Antes(k + 1)

\* A day of the calendar is of some month...
LEMMA HayMes ==
  ASSUME NEW d \in Nat, d < Antes(Len(DiasAntes) - 1)
  PROVE  \E k \in Meses : EsDe(d, k)
<1> DEFINE S == {k \in 0 .. Len(DiasAntes) - 1 : d < Antes(k)}
<1>0. /\ Len(DiasAntes) \in Nat /\ Len(DiasAntes) >= 13 /\ Antes(0) = 0
      /\ \A k \in 0 .. Len(DiasAntes) - 1 : Antes(k) \in Nat
  BY Calendario
<1>1. Len(DiasAntes) - 1 \in S /\ S \in SUBSET Nat
  BY <1>0
<1>2. PICK k \in S : \A otro \in S : k <= otro
  BY <1>1, Lista!Minimo
<1>3. k \in 0 .. Len(DiasAntes) - 1 /\ d < Antes(k)
  OBVIOUS
<1>4. k # 0
  BY <1>0, <1>3
<1>5. k - 1 \in 0 .. Len(DiasAntes) - 1 /\ k - 1 \in Meses /\ (k - 1) + 1 = k /\ k - 1 \notin S
  BY <1>0, <1>2, <1>3, <1>4 DEF Meses
<1>6. Antes(k - 1) <= d
  BY <1>0, <1>5
<1> QED BY <1>3, <1>5, <1>6 DEF EsDe

\* ...and of no other.
LEMMA UnMes ==
  ASSUME NEW d \in Nat, NEW k \in Meses, NEW l \in Meses, EsDe(d, k), EsDe(d, l)
  PROVE  k = l
<1>1. /\ k \in Int /\ l \in Int /\ \A i \in Meses : Antes(i) \in Nat /\ Antes(i + 1) \in Nat
  BY Calendario
<1>2. ASSUME NEW a \in Meses, NEW b \in Meses, EsDe(d, a), EsDe(d, b), a < b
      PROVE  FALSE
  <2>1. a + 1 \in 0 .. Len(DiasAntes) - 1 /\ b \in 0 .. Len(DiasAntes) - 1 /\ a + 1 <= b
    BY <1>2, Calendario
  <2>2. Antes(a + 1) <= Antes(b)
    BY <2>1, AntesCrece
  <2> QED BY <1>1, <1>2, <2>2 DEF EsDe
<1>3. ~(k < l) /\ ~(l < k)
  BY <1>2
<1> QED BY <1>1, <1>3

\* What localtime answers of an hour of the calendar.
HoraDe(t) == t + Desfase(t)
DiaDe(t) == HoraDe(t) \div 24

Cubierto(t) == t \in Nat /\ t + 24 <= Antes(Len(DiasAntes) - 1) * 24

\* An hour, of a day and of its hours.
LEMMA Dividir ==
  ASSUME NEW h \in Int
  PROVE  \E q \in Int, r \in 0 .. 23 : q = h \div 24 /\ r = h % 24 /\ h = q * 24 + r
<1>1. PICK q, r : q = h \div 24 /\ r = h % 24
  OBVIOUS
<1>2. q \in Int /\ r \in 0 .. 23
  BY <1>1
<1>3. h = q * 24 + r
  BY <1>1
<1> QED BY <1>1, <1>2, <1>3

\* The month that localtime chooses is that of the day.
LEMMA LocaltimeEs ==
  ASSUME NEW t, Cubierto(t)
  PROVE  \E m \in Meses :
           /\ EsDe(DiaDe(t), m)
           /\ localtime(t) = [tm_hour |-> HoraDe(t) % 24, tm_mday |-> DiaDe(t) - Antes(m) + 1,
                              tm_mon |-> m % 12, tm_year |-> Ato0 - 1900 + m \div 12,
                              tm_yday |-> DiaDe(t) - Antes((m \div 12) * 12),
                              tm_isdst |-> Desfase(t)]
<1> DEFINE m == CHOOSE k \in Meses : Antes(k) <= DiaDe(t) /\ DiaDe(t) < Antes(k + 1)
<1>1. /\ Desfase(t) \in {0, 1} /\ HoraDe(t) \in Nat /\ HoraDe(t) = t + Desfase(t)
      /\ t \in Nat /\ Antes(Len(DiasAntes) - 1) \in Nat
      /\ t + 24 <= Antes(Len(DiasAntes) - 1) * 24
  <2>1. Len(DiasAntes) - 1 \in 0 .. Len(DiasAntes) - 1
    BY Calendario
  <2>2. Antes(Len(DiasAntes) - 1) \in Nat
    BY <2>1, Calendario
  <2> QED BY <2>2 DEF Desfase, HoraDe, Cubierto
<1>2. DiaDe(t) \in Nat /\ DiaDe(t) < Antes(Len(DiasAntes) - 1)
  <2> DEFINE A == Antes(Len(DiasAntes) - 1)
  <2>1. HoraDe(t) \in Nat /\ HoraDe(t) < A * 24 /\ A \in Nat
    BY <1>1
  <2>2. PICK q \in Int, r \in 0 .. 23 : q = HoraDe(t) \div 24 /\ HoraDe(t) = q * 24 + r
    <3>1. HoraDe(t) \in Int
      BY <2>1
    <3> QED BY <3>1, Dividir
  <2> HIDE DEF A
  <2>3. q \in Nat /\ q < A
    BY <2>1, <2>2
  <2> QED BY <2>2, <2>3 DEF DiaDe, A
<1>3. \E k \in Meses : Antes(k) <= DiaDe(t) /\ DiaDe(t) < Antes(k + 1)
  BY <1>2, HayMes DEF EsDe
<1>4. m \in Meses /\ EsDe(DiaDe(t), m)
  BY <1>3, Zenon DEF EsDe
<1>5. localtime(t) = [tm_hour |-> HoraDe(t) % 24, tm_mday |-> DiaDe(t) - Antes(m) + 1,
                      tm_mon |-> m % 12, tm_year |-> Ato0 - 1900 + m \div 12,
                      tm_yday |-> DiaDe(t) - Antes((m \div 12) * 12),
                      tm_isdst |-> Desfase(t)]
  BY Zenon DEF localtime, HoraDe, DiaDe
<1> HIDE DEF m
<1> QED BY <1>4, <1>5

\* The month that a struct tm tells, counted from the first of the calendar.
MesDe(st) == (st.tm_year + 1900 - Ato0) * 12 + st.tm_mon

\* The fields of the struct that localtime answers, from the month of the day.
LEMMA LocaltimeDa ==
  ASSUME NEW t, Cubierto(t)
  PROVE  LET st == localtime(t)
             m == MesDe(st)
         IN /\ m \in Meses /\ EsDe(DiaDe(t), m) /\ DiaDe(t) \in Int
            /\ st.tm_hour = HoraDe(t) % 24 /\ st.tm_isdst = Desfase(t)
            /\ st.tm_mday = DiaDe(t) - Antes(m) + 1
            /\ st.tm_yday = DiaDe(t) - Antes(m - st.tm_mon)
            /\ st.tm_mon \in 0 .. 11 /\ st.tm_mon = m % 12
            /\ st.tm_year \in 100 .. 199
<1>1. PICK m \in Meses :
           /\ EsDe(DiaDe(t), m)
           /\ localtime(t) = [tm_hour |-> HoraDe(t) % 24, tm_mday |-> DiaDe(t) - Antes(m) + 1,
                              tm_mon |-> m % 12, tm_year |-> Ato0 - 1900 + m \div 12,
                              tm_yday |-> DiaDe(t) - Antes((m \div 12) * 12),
                              tm_isdst |-> Desfase(t)]
  BY LocaltimeEs
<1>2. PICK st : st = localtime(t)
  OBVIOUS
<1>3. /\ st.tm_hour = HoraDe(t) % 24 /\ st.tm_mday = DiaDe(t) - Antes(m) + 1
      /\ st.tm_mon = m % 12 /\ st.tm_year = Ato0 - 1900 + m \div 12
      /\ st.tm_yday = DiaDe(t) - Antes((m \div 12) * 12) /\ st.tm_isdst = Desfase(t)
  BY <1>1, <1>2
<1>4. PICK L \in Nat, Y \in Nat : L = Len(DiasAntes) /\ Y = L \div 12
  BY Calendario
<1>5. L = 12 * Y + 1 /\ Ato0 \in Nat /\ Ato0 >= 2000 /\ Ato0 + Y <= 2100
  BY <1>4, FechasAssumption
<1>6. m \in Nat /\ m <= L - 2
  BY <1>4 DEF Meses
<1>7. PICK q, r : q = m \div 12 /\ r = m % 12
  OBVIOUS
<1>8. q \in Nat /\ r \in 0 .. 11 /\ m = q * 12 + r
  BY <1>6, <1>7
<1>9. q <= Y - 1
  BY <1>5, <1>6, <1>8
<1>10. MesDe(st) = m
  BY <1>3, <1>5, <1>7, <1>8 DEF MesDe
<1>11. st.tm_mon \in 0 .. 11 /\ st.tm_year \in 100 .. 199
  BY <1>3, <1>5, <1>7, <1>8, <1>9
<1>12. m - st.tm_mon = (m \div 12) * 12
  BY <1>3, <1>7, <1>8
<1>13. DiaDe(t) \in Int
  <2>1. HoraDe(t) \in Int
    BY DEF HoraDe, Desfase, Cubierto
  <2> QED BY <2>1 DEF DiaDe
<1> QED BY <1>1, <1>2, <1>3, <1>10, <1>11, <1>12, <1>13

\* An hour at which the program runs is of the calendar, and so is one some days before.
LEMMA CubiertoAhora ==
  ASSUME NEW t \in Momentos
  PROVE  /\ Cubierto(t) /\ Antes(1) * 24 <= t
         /\ \A n \in NumDias : n \in Nat /\ Cubierto(t - n * 24)
<1>1. /\ t \in Nat /\ DiasAntes[2] * 24 <= t
      /\ t + 24 <= DiasAntes[Len(DiasAntes)] * 24
      /\ \A n \in NumDias : n \in Nat /\ n * 24 <= t
  BY FechasAssumption
<1>2. /\ Antes(1) = DiasAntes[2] /\ Antes(Len(DiasAntes) - 1) = DiasAntes[Len(DiasAntes)]
      /\ Antes(Len(DiasAntes) - 1) \in Nat
  <2>1. Len(DiasAntes) - 1 \in 0 .. Len(DiasAntes) - 1 /\ (Len(DiasAntes) - 1) + 1 = Len(DiasAntes)
    BY Calendario
  <2>2. Antes(Len(DiasAntes) - 1) \in Nat
    BY <2>1, Calendario
  <2> QED BY <2>1, <2>2 DEF Antes
<1>3. Cubierto(t) /\ Antes(1) * 24 <= t
  BY <1>1, <1>2 DEF Cubierto
<1>4. ASSUME NEW n \in NumDias PROVE n \in Nat /\ Cubierto(t - n * 24)
  <2> DEFINE A == Antes(Len(DiasAntes) - 1)
  <2>1. PICK p \in Nat : p = n * 24
    BY <1>1
  <2>2. p <= t /\ t \in Nat /\ t + 24 <= A * 24 /\ A \in Nat
    BY <1>1, <1>2, <2>1
  <2> HIDE DEF A
  <2>3. t - p \in Nat /\ (t - p) + 24 <= A * 24
    BY <2>2
  <2> QED BY <1>1, <2>1, <2>3 DEF Cubierto, A
<1> QED BY <1>3, <1>4

\* The date of some days ago, at an hour when the program runs.
LEMMA DiasAtras ==
  ASSUME NEW t \in Momentos, NEW n \in NumDias
  PROVE  LET hoy == localtime(t)
             st == localtime(t - n * 24)
             diaHoy == Antes(MesDe(hoy)) + hoy.tm_mday - 1
             dia == Antes(MesDe(st)) + st.tm_mday - 1
         IN \/ dia = diaHoy - n
            \/ /\ Desfase(t) # Desfase(t - n * 24)
               /\ \/ hoy.tm_hour = 0 /\ dia = diaHoy - n - 1
                  \/ hoy.tm_hour = 23 /\ dia = diaHoy - n + 1
<1>1. /\ Cubierto(t) /\ n \in Nat /\ Cubierto(t - n * 24) /\ t \in Nat
      /\ Desfase(t) \in {0, 1} /\ Desfase(t - n * 24) \in {0, 1}
  BY CubiertoAhora DEF Cubierto, Desfase
<1>2. PICK hoy, st : hoy = localtime(t) /\ st = localtime(t - n * 24)
  OBVIOUS
<1>3. /\ MesDe(hoy) \in Meses /\ hoy.tm_hour = HoraDe(t) % 24
      /\ hoy.tm_mday = DiaDe(t) - Antes(MesDe(hoy)) + 1 /\ DiaDe(t) \in Int
  BY <1>1, <1>2, LocaltimeDa
<1>4. /\ MesDe(st) \in Meses /\ DiaDe(t - n * 24) \in Int
      /\ st.tm_mday = DiaDe(t - n * 24) - Antes(MesDe(st)) + 1
  BY <1>1, <1>2, LocaltimeDa
<1>5. Antes(MesDe(hoy)) \in Nat /\ Antes(MesDe(st)) \in Nat
  BY <1>3, <1>4, Calendario
<1>6. /\ Antes(MesDe(hoy)) + hoy.tm_mday - 1 = DiaDe(t)
      /\ Antes(MesDe(st)) + st.tm_mday - 1 = DiaDe(t - n * 24)
  BY <1>3, <1>4, <1>5
<1>7. PICK d \in {0, 1}, e \in {0, 1} : d = Desfase(t) /\ e = Desfase(t - n * 24)
  BY <1>1
<1>8. HoraDe(t) = t + d /\ HoraDe(t - n * 24) = t - n * 24 + e
  BY <1>7 DEF HoraDe
<1>9. PICK q \in Int, r \in 0 .. 23 : q = HoraDe(t) \div 24 /\ r = HoraDe(t) % 24 /\ HoraDe(t) = q * 24 + r
  <2>1. HoraDe(t) \in Int
    BY <1>1, <1>8
  <2> QED BY <2>1, Dividir
<1>10. PICK p \in Int, s \in 0 .. 23 : p = HoraDe(t - n * 24) \div 24 /\ HoraDe(t - n * 24) = p * 24 + s
  <2>1. HoraDe(t - n * 24) \in Int
    BY <1>1, <1>8
  <2> QED BY <2>1, Dividir
<1>11. p * 24 + s = (q - n) * 24 + (r - d + e)
  BY <1>1, <1>8, <1>9, <1>10
<1>12. \/ p = q - n
       \/ d # e /\ ((r = 0 /\ p = q - n - 1) \/ (r = 23 /\ p = q - n + 1))
  <2>1. PICK k \in Int, w \in Int : k = q - n /\ w = r - d + e
    BY <1>1
  <2>2. p * 24 + s = k * 24 + w
    BY <1>11, <2>1
  <2>3. CASE d = e
    <3>1. w \in 0 .. 23
      BY <2>1, <2>3
    <3>2. p = k
      BY <2>2, <3>1
    <3> QED BY <2>1, <3>2
  <2>4. CASE d = 1 /\ e = 0
    <3>1. w = r - 1
      BY <2>1, <2>4
    <3>2. p = k \/ (r = 0 /\ p = k - 1)
      BY <2>2, <3>1
    <3> QED BY <2>1, <2>4, <3>2
  <2>5. CASE d = 0 /\ e = 1
    <3>1. w = r + 1
      BY <2>1, <2>5
    <3>2. p = k \/ (r = 23 /\ p = k + 1)
      BY <2>2, <3>1
    <3> QED BY <2>1, <2>5, <3>2
  <2> QED BY <2>3, <2>4, <2>5
<1>13. q = DiaDe(t) /\ p = DiaDe(t - n * 24) /\ r = hoy.tm_hour
  BY <1>3, <1>9, <1>10 DEF DiaDe
<1> QED BY <1>2, <1>6, <1>7, <1>12, <1>13

\* Thirty days before the 15th it was the month before.
LEMMA MesAntes ==
  ASSUME NEW t \in Momentos
  PROVE  LET hoy == localtime(t)
             st == localtime(mktime([hoy EXCEPT !.tm_mday = 15]) - 30 * 24)
         IN (st.tm_year + 1900) * 12 + (st.tm_mon + 1) = (hoy.tm_year + 1900) * 12 + hoy.tm_mon
<1>1. Cubierto(t) /\ Antes(1) * 24 <= t /\ t \in Nat /\ Desfase(t) \in {0, 1} /\ Ato0 \in Nat
  BY CubiertoAhora, FechasAssumption DEF Cubierto, Desfase
<1>2. PICK k \in Meses :
           /\ EsDe(DiaDe(t), k)
           /\ localtime(t) = [tm_hour |-> HoraDe(t) % 24, tm_mday |-> DiaDe(t) - Antes(k) + 1,
                              tm_mon |-> k % 12, tm_year |-> Ato0 - 1900 + k \div 12,
                              tm_yday |-> DiaDe(t) - Antes((k \div 12) * 12),
                              tm_isdst |-> Desfase(t)]
  BY <1>1, LocaltimeEs
<1>3. PICK hoy : hoy = localtime(t)
  OBVIOUS
<1>4. PICK quince : quince = [hoy EXCEPT !.tm_mday = 15]
  OBVIOUS
<1>5. PICK m : m = MesDe(hoy)
  OBVIOUS
<1>6. /\ m \in Meses /\ EsDe(DiaDe(t), m) /\ DiaDe(t) \in Int
      /\ hoy.tm_hour = HoraDe(t) % 24 /\ hoy.tm_isdst = Desfase(t)
      /\ hoy.tm_mon \in 0 .. 11 /\ hoy.tm_year \in 100 .. 199
  BY <1>1, <1>3, <1>5, LocaltimeDa
<1>7. /\ quince.tm_hour = hoy.tm_hour /\ quince.tm_isdst = hoy.tm_isdst /\ quince.tm_mday = 15
      /\ quince.tm_mon = hoy.tm_mon /\ quince.tm_year = hoy.tm_year
  <2>1. quince = [tm_hour |-> HoraDe(t) % 24, tm_mday |-> 15,
                  tm_mon |-> k % 12, tm_year |-> Ato0 - 1900 + k \div 12,
                  tm_yday |-> DiaDe(t) - Antes((k \div 12) * 12),
                  tm_isdst |-> Desfase(t)]
    BY <1>2, <1>3, <1>4
  <2> QED BY <1>2, <1>3, <2>1
<1>8. PICK hora \in 0 .. 23, d \in {0, 1} : hora = hoy.tm_hour /\ d = Desfase(t)
  <2>1. HoraDe(t) % 24 \in 0 .. 23
    BY <1>1 DEF HoraDe
  <2> QED BY <1>1, <1>6, <2>1
<1>9. PICK u : u = mktime(quince) - 30 * 24
  OBVIOUS
<1>10. Antes(m) \in Nat
  BY <1>6, Calendario
<1>11. m # 0
  <2>1. SUFFICES ASSUME m = 0 PROVE FALSE
    OBVIOUS
  <2>2. DiaDe(t) < Antes(1) /\ Antes(1) \in Nat
    BY <1>6, <2>1, Calendario DEF EsDe
  <2>3. PICK a \in Nat : a = Antes(1)
    BY <2>2
  <2>4. HoraDe(t) \in Int /\ HoraDe(t) >= a * 24
    BY <1>1, <2>3 DEF HoraDe
  <2>5. PICK q \in Int, r \in 0 .. 23 : q = HoraDe(t) \div 24 /\ HoraDe(t) = q * 24 + r
    BY <2>4, Dividir
  <2>6. q < a
    BY <2>2, <2>3, <2>5 DEF DiaDe
  <2> QED BY <2>3, <2>4, <2>5, <2>6
<1>12. /\ m - 1 \in Meses /\ (m - 1) + 1 = m /\ m - 1 \in Nat /\ Antes(m - 1) \in Nat
       /\ Antes(m) - Antes(m - 1) \in 28 .. 31
  <2>1. m - 1 \in Meses /\ (m - 1) + 1 = m /\ m - 1 \in Nat
    BY <1>6, <1>11 DEF Meses
  <2>2. Antes((m - 1) + 1) - Antes(m - 1) \in 28 .. 31 /\ Antes(m - 1) \in Nat
    BY <2>1, Calendario
  <2> QED BY <2>1, <2>2
<1>13. u = (Antes(m) + 14) * 24 + hora - d - 720
  <2>1. (quince.tm_year + 1900 - Ato0) * 12 + quince.tm_mon = m
    BY <1>5, <1>7 DEF MesDe
  <2>2. mktime(quince) = (Antes(m) + 15 - 1) * 24 + hora - d
    BY <1>6, <1>7, <1>8, <2>1 DEF mktime
  <2> QED BY <1>9, <1>10, <2>2
<1>14. Cubierto(u)
  <2>1. PICK a \in Nat, b \in Nat : a = Antes(m) /\ b = Antes(Len(DiasAntes) - 1)
    <3>1. Len(DiasAntes) - 1 \in 0 .. Len(DiasAntes) - 1
      BY Calendario
    <3> QED BY <1>10, <3>1, Calendario
  <2>2. a <= b
    <3>1. m \in 0 .. Len(DiasAntes) - 1 /\ Len(DiasAntes) - 1 \in 0 .. Len(DiasAntes) - 1 /\ m <= Len(DiasAntes) - 1
      BY <1>6, Calendario DEF Meses
    <3> QED BY <2>1, <3>1, AntesCrece
  <2>3. a >= 28
    BY <1>12, <2>1
  <2>4. u = a * 24 + hora - d - 384
    BY <1>13, <2>1
  <2>5. u \in Nat /\ u + 24 <= b * 24
    BY <2>2, <2>3, <2>4
  <2> QED BY <2>1, <2>5 DEF Cubierto
<1>15. EsDe(DiaDe(u), m - 1) /\ DiaDe(u) \in Nat
  <2>1. PICK a \in Nat, b \in Nat : a = Antes(m) /\ b = Antes(m - 1)
    BY <1>10, <1>12
  <2>2. PICK e \in {0, 1} : HoraDe(u) = u + e
    BY DEF HoraDe, Desfase
  <2>3. HoraDe(u) = (a - 16) * 24 + (hora - d + e) /\ HoraDe(u) \in Int
    BY <1>13, <2>1, <2>2
  <2>4. PICK q \in Int, r \in 0 .. 23 : q = HoraDe(u) \div 24 /\ HoraDe(u) = q * 24 + r
    BY <2>3, Dividir
  <2>5. q \in a - 17 .. a - 15
    BY <2>3, <2>4
  <2>6. q = DiaDe(u)
    BY <2>4 DEF DiaDe
  <2>7. b <= q /\ q < a /\ q \in Nat
    BY <1>12, <2>1, <2>5
  <2> QED BY <1>12, <2>1, <2>6, <2>7 DEF EsDe
<1>16. PICK st : st = localtime(u)
  OBVIOUS
<1>17. /\ MesDe(st) \in Meses /\ EsDe(DiaDe(u), MesDe(st))
       /\ st.tm_mon \in 0 .. 11 /\ st.tm_year \in 100 .. 199
  BY <1>14, <1>16, LocaltimeDa
<1>18. MesDe(st) = m - 1
  BY <1>12, <1>15, <1>17, UnMes
<1>19. (st.tm_year + 1900) * 12 + (st.tm_mon + 1) = (hoy.tm_year + 1900) * 12 + hoy.tm_mon
  <2>1. PICK a \in 100 .. 199, x \in 0 .. 11 : a = st.tm_year /\ x = st.tm_mon
    BY <1>17
  <2>3. PICK b \in 100 .. 199, y \in 0 .. 11 : b = hoy.tm_year /\ y = hoy.tm_mon
    BY <1>6
  <2>2. (a + 1900 - Ato0) * 12 + x = ((b + 1900 - Ato0) * 12 + y) - 1
    BY <1>5, <1>18, <2>1, <2>3 DEF MesDe
  <2>4. (a + 1900) * 12 + (x + 1) = (b + 1900) * 12 + y
    BY <1>1, <2>2
  <2> QED BY <2>1, <2>3, <2>4
<1> QED BY <1>3, <1>4, <1>9, <1>16, <1>19

\* What zlTimerDat answers of the struct that localtime has just filled in.
LEMMA DatosDeHoy ==
  ASSUME NEW t \in Momentos, NEW x \in Campos
  PROVE  LET hoy == localtime(t)
             m == MesDe(hoy)
             enElAto == Antes(m) - Antes(m - hoy.tm_mon) + hoy.tm_mday
         IN <<x, Dato(hoy, x)>> \in {<<"tm_mday", hoy.tm_mday>>,
                                    <<"tm_mon", hoy.tm_mon + 1>>, <<"tm_year", hoy.tm_year - 100>>,
                                    <<"tm_yday", enElAto>>}
<1>1. Cubierto(t)
  BY CubiertoAhora
<1>2. PICK hoy : hoy = localtime(t)
  OBVIOUS
<1>3. PICK m : m = MesDe(hoy)
  OBVIOUS
<1>4. /\ m \in Meses /\ DiaDe(t) \in Int
      /\ hoy.tm_mday = DiaDe(t) - Antes(m) + 1
      /\ hoy.tm_yday = DiaDe(t) - Antes(m - hoy.tm_mon)
      /\ hoy.tm_mon \in 0 .. 11 /\ hoy.tm_mon = m % 12 /\ hoy.tm_year \in 100 .. 199
  BY <1>1, <1>2, <1>3, LocaltimeDa
<1>5. Antes(m) \in Nat /\ Antes(m - hoy.tm_mon) \in Nat
  <2>0. m \in 0 .. Len(DiasAntes) - 1
    BY <1>4, Calendario
  <2>1. PICK k \in 0 .. Len(DiasAntes) - 1, r \in 0 .. 11 : k = m /\ r = hoy.tm_mon /\ r = k % 12
    BY <1>4, <2>0
  <2>2. PICK q : q = k \div 12
    OBVIOUS
  <2>3. k = q * 12 + r /\ q \in Nat
    BY <2>1, <2>2
  <2>4. k - r \in 0 .. Len(DiasAntes) - 1
    BY <2>1, <2>3
  <2> QED BY <2>1, <2>4, Calendario
<1>6. hoy.tm_year % 100 = hoy.tm_year - 100
  BY <1>4
<1>7. hoy.tm_yday + 1 = Antes(m) - Antes(m - hoy.tm_mon) + hoy.tm_mday
  BY <1>4, <1>5
<1>8. CASE x = "tm_mday"
  <2>1. Dato(hoy, x) = hoy.tm_mday
    BY <1>8 DEF Dato, Sumados
  <2> QED BY <1>2, <1>3, <1>8, <2>1
<1>9. CASE x = "tm_mon"
  <2>1. Dato(hoy, x) = hoy.tm_mon + 1
    BY <1>9 DEF Dato, Sumados
  <2> QED BY <1>2, <1>3, <1>9, <2>1
<1>10. CASE x = "tm_year"
  <2>1. Dato(hoy, x) = hoy.tm_year - 100
    BY <1>6, <1>10 DEF Dato, Sumados
  <2> QED BY <1>2, <1>3, <1>10, <2>1
<1>11. CASE x = "tm_yday"
  <2>1. Dato(hoy, x) = hoy.tm_yday + 1
    BY <1>11 DEF Dato, Sumados
  <2> QED BY <1>2, <1>3, <1>7, <1>11, <2>1
<1> QED BY <1>8, <1>9, <1>10, <1>11 DEF Campos

\* mktime undoes localtime, but for the summer time.
LEMMA HoraDeFecha ==
  ASSUME NEW t \in Momentos
  PROVE  mktime(tmFecha(localtime(t))) = t + Desfase(t)
<1>1. Cubierto(t)
  BY CubiertoAhora
<1>2. PICK k \in Meses :
           /\ EsDe(DiaDe(t), k)
           /\ localtime(t) = [tm_hour |-> HoraDe(t) % 24, tm_mday |-> DiaDe(t) - Antes(k) + 1,
                              tm_mon |-> k % 12, tm_year |-> Ato0 - 1900 + k \div 12,
                              tm_yday |-> DiaDe(t) - Antes((k \div 12) * 12),
                              tm_isdst |-> Desfase(t)]
  BY <1>1, LocaltimeEs
<1>3. PICK hoy : hoy = localtime(t)
  OBVIOUS
<1>4. PICK m : m = MesDe(hoy)
  OBVIOUS
<1>5. /\ m \in Meses /\ DiaDe(t) \in Int /\ hoy.tm_hour = HoraDe(t) % 24
      /\ hoy.tm_mday = DiaDe(t) - Antes(m) + 1
  BY <1>1, <1>3, <1>4, LocaltimeDa
<1>6. PICK st : st = tmFecha(hoy)
  OBVIOUS
<1>7. /\ st.tm_hour = hoy.tm_hour /\ st.tm_isdst = 0 /\ st.tm_mday = hoy.tm_mday
      /\ st.tm_mon = hoy.tm_mon /\ st.tm_year = hoy.tm_year
  <2>7. PICK a, b, c : a = HoraDe(t) % 24 /\ b = DiaDe(t) - Antes(k) + 1 /\ c = k % 12
    OBVIOUS
  <2>8. PICK e, f, g : /\ e = Ato0 - 1900 + k \div 12
                       /\ f = DiaDe(t) - Antes((k \div 12) * 12) /\ g = Desfase(t)
    OBVIOUS
  <2>1. hoy = [tm_hour |-> a, tm_mday |-> b, tm_mon |-> c, tm_year |-> e,
               tm_yday |-> f, tm_isdst |-> g]
    BY <1>2, <1>3, <2>7, <2>8
  <2>2. PICK cero \in Int : cero = 0
    OBVIOUS
  <2>3. st = [[hoy EXCEPT !.tm_isdst = cero] EXCEPT !.tm_yday = cero]
    BY <1>6, <2>2 DEF tmFecha
  <2>4. PICK otro : otro = [hoy EXCEPT !.tm_isdst = cero]
    OBVIOUS
  <2>5. otro = [tm_hour |-> a, tm_mday |-> b, tm_mon |-> c, tm_year |-> e,
                tm_yday |-> f, tm_isdst |-> cero]
    BY <2>1, <2>4
  <2>6. st = [tm_hour |-> a, tm_mday |-> b, tm_mon |-> c, tm_year |-> e,
              tm_yday |-> cero, tm_isdst |-> cero]
    <3>1. st = [otro EXCEPT !.tm_yday = cero]
      BY <2>3, <2>4, Zenon
    <3> QED BY <2>5, <3>1
  <2> QED BY <2>1, <2>2, <2>6
<1>8. HoraDe(t) \in Int /\ HoraDe(t) = t + Desfase(t)
  BY <1>1 DEF HoraDe, Cubierto, Desfase
<1>9. PICK q \in Int, r \in 0 .. 23 : q = HoraDe(t) \div 24 /\ r = HoraDe(t) % 24 /\ HoraDe(t) = q * 24 + r
  BY <1>8, Dividir
<1>10. (st.tm_year + 1900 - Ato0) * 12 + st.tm_mon = m
  BY <1>4, <1>7 DEF MesDe
<1>11. PICK a \in Nat : a = Antes(m)
  BY <1>5, Calendario
<1>12. st.tm_mday = q - a + 1
  BY <1>5, <1>7, <1>9, <1>11 DEF DiaDe
<1>13. mktime(st) = (a + (q - a + 1) - 1) * 24 + r - 0
  BY <1>5, <1>7, <1>9, <1>10, <1>11, <1>12 DEF mktime
<1>14. mktime(st) = q * 24 + r
  BY <1>13
<1> QED BY <1>3, <1>6, <1>8, <1>9, <1>14

\* The struct that localtime filled in now has the fields of now, but for those that
\* zlTimerDat0 has added to.
TmDeAhora ==
  deCuando = ahora =>
    \A x \in Campos : /\ x \in DOMAIN tm
                      /\ (x \in Sumados => pedidos[x] = 0) => tm[x] = localtime(ahora)[x]

\* What every call keeps.
FechaInv ==
  /\ ahora \in Momentos
  /\ pedidos \in [Sumados -> Nat]
  /\ TmDeAhora
  /\ DaysAgoIsRight /\ MonthBeforeIsRight /\ FieldsAreOfNow /\ TimeOfDate

\* A struct has the four fields.
LEMMA CamposDeTm ==
  ASSUME NEW t
  PROVE  \A x \in Campos : x \in DOMAIN localtime(t)
BY DEF Campos, localtime

\* It holds before the first call.
LEMMA FechaEmpieza ==
  ASSUME FechaInit
  PROVE  FechaInv
<1>1. ahora \in Momentos /\ tm = localtime(ahora) /\ pedidos = SinPedir /\ respuesta.fn = "main"
  BY DEF FechaInit
<1>2. TmDeAhora
  BY <1>1, CamposDeTm DEF TmDeAhora
<1> QED BY <1>1, <1>2 DEF FechaInv, SinPedir, DaysAgoIsRight, MonthBeforeIsRight, FieldsAreOfNow,
                          TimeOfDate, Respondio

\* A function that fills the struct in leaves it as it is.
LEMMA RespondeDeja ==
  ASSUME NEW fn, NEW valor, NEW t, Responde(fn, valor, t), ahora \in Momentos
  PROVE  /\ ahora' \in Momentos
         /\ pedidos' \in [Sumados -> Nat]
         /\ TmDeAhora'
<1>1. tm' = localtime(t) /\ deCuando' = t /\ pedidos' = SinPedir /\ ahora' = ahora
  BY DEF Responde
<1>2. TmDeAhora'
  <2>1. SUFFICES ASSUME t = ahora, NEW x \in Campos
                 PROVE  x \in DOMAIN tm' /\ tm'[x] = localtime(ahora)[x]
    BY <1>1 DEF TmDeAhora
  <2> QED BY <1>1, <2>1, CamposDeTm
<1> QED BY <1>1, <1>2 DEF SinPedir

\* A field that is taken from a struct is one time more asked for, and the others are
\* left as they were.
LEMMA TocarDeja ==
  ASSUME NEW st, NEW x \in Campos, NEW cuenta \in [Sumados -> Nat],
         \A y \in Campos : y \in DOMAIN st
  PROVE  /\ Pide(cuenta, x) \in [Sumados -> Nat]
         /\ x \in Sumados => Pide(cuenta, x)[x] = cuenta[x] + 1
         /\ \A y \in Campos : /\ y \in DOMAIN Tocado(st, x)
                              /\ (y \in Sumados => Pide(cuenta, x)[y] = 0)
                                   => /\ y \in Sumados => cuenta[y] = 0
                                      /\ Tocado(st, x)[y] = st[y]
<1>1. CASE x \in Sumados
  <2>1. Pide(cuenta, x) = [cuenta EXCEPT ![x] = cuenta[x] + 1] /\ cuenta[x] \in Nat
    BY <1>1 DEF Pide
  <2>2. Tocado(st, x) = [st EXCEPT ![x] = st[x] + 1]
    BY <1>1 DEF Tocado
  <2>3. Pide(cuenta, x)[x] = cuenta[x] + 1 /\ Pide(cuenta, x)[x] # 0
    BY <1>1, <2>1
  <2>4. ASSUME NEW y \in Campos
        PROVE  /\ y \in DOMAIN Tocado(st, x)
               /\ (y \in Sumados => Pide(cuenta, x)[y] = 0)
                    => /\ y \in Sumados => cuenta[y] = 0
                       /\ Tocado(st, x)[y] = st[y]
    <3>1. y \in DOMAIN Tocado(st, x)
      BY <2>2
    <3>2. CASE y = x
      BY <1>1, <2>3, <3>1, <3>2
    <3>3. CASE y # x
      <4>1. Tocado(st, x)[y] = st[y]
        BY <2>2, <3>3
      <4>2. y \in Sumados => Pide(cuenta, x)[y] = cuenta[y]
        BY <2>1, <3>3
      <4> QED BY <3>1, <4>1, <4>2
    <3> QED BY <3>2, <3>3
  <2>5. Pide(cuenta, x) \in [Sumados -> Nat]
    BY <1>1, <2>1
  <2> QED BY <2>3, <2>4, <2>5
<1>2. CASE x \notin Sumados
  BY <1>2 DEF Pide, Tocado
<1> QED BY <1>1, <1>2

\* Each call keeps it.
LEMMA FechaInvPaso ==
  ASSUME FechaInv, [FechaNext]_fechaVars
  PROVE  FechaInv'
<1>1. /\ ahora \in Momentos /\ pedidos \in [Sumados -> Nat] /\ TmDeAhora
      /\ DaysAgoIsRight /\ MonthBeforeIsRight /\ FieldsAreOfNow /\ TimeOfDate
  BY DEF FechaInv
<1>2. CASE UNCHANGED fechaVars
  BY <1>1, <1>2 DEF fechaVars, FechaInv, TmDeAhora, DaysAgoIsRight, MonthBeforeIsRight,
                    FieldsAreOfNow, EsDeAhora, TimeOfDate, Respondio
<1>3. CASE timestamp
  <2>1. respuesta'.fn = "timestamp"
    BY <1>3 DEF timestamp, Responde
  <2>2. ahora' \in Momentos /\ pedidos' \in [Sumados -> Nat] /\ TmDeAhora'
    BY <1>1, <1>3, RespondeDeja DEF timestamp
  <2> QED BY <2>1, <2>2 DEF FechaInv, DaysAgoIsRight, MonthBeforeIsRight, FieldsAreOfNow,
                            TimeOfDate, Respondio
<1>4. CASE Desglosa
  <2>1. respuesta'.fn = "localtime"
    BY <1>4 DEF Desglosa, Responde
  <2>2. ahora' \in Momentos /\ pedidos' \in [Sumados -> Nat] /\ TmDeAhora'
    BY <1>1, <1>4, RespondeDeja DEF Desglosa
  <2> QED BY <2>1, <2>2 DEF FechaInv, DaysAgoIsRight, MonthBeforeIsRight, FieldsAreOfNow,
                            TimeOfDate, Respondio
<1>5. CASE \E numDias \in NumDias : zlTimerRestaDias(numDias)
  <2>1. PICK n \in NumDias : zlTimerRestaDias(n)
    BY <1>5
  <2>2. PICK st : st = localtime(ahora - n * 24)
    OBVIOUS
  <2>3. /\ respuesta' = [fn |-> "zlTimerRestaDias", valor |-> <<n, DiaMesAto(st)>>]
        /\ ahora' = ahora
    BY <2>1, <2>2 DEF zlTimerRestaDias, Responde
  <2>4. DaysAgoIsRight'
    <3> DEFINE hoy == localtime(ahora)
               diaHoy == Antes((hoy.tm_year + 1900 - Ato0) * 12 + hoy.tm_mon) + hoy.tm_mday - 1
               dia == Antes((st.tm_year + 1900 - Ato0) * 12 + st.tm_mon) + st.tm_mday - 1
    <3>1. Desfase(ahora) = Desfase(ahora - n * 24) => dia = diaHoy - n
      BY <1>1, <2>2, DiasAtras DEF MesDe
    <3>2. Cubierto(ahora - n * 24)
      BY <1>1, CubiertoAhora
    <3>3. st.tm_mon \in 0 .. 11
      BY <2>2, <3>2, LocaltimeDa
    <3>4. (st.tm_mon + 1) - 1 = st.tm_mon
      BY <3>3
    <3>5. /\ DiaMesAto(st)[1] = st.tm_mday /\ DiaMesAto(st)[2] = st.tm_mon + 1
          /\ DiaMesAto(st)[3] = st.tm_year + 1900
      BY DEF DiaMesAto
    <3>6. PICK d : d = DiaMesAto(st)
      OBVIOUS
    <3>7. PICK v : v = respuesta'.valor
      OBVIOUS
    <3>8. v[1] = n /\ v[2] = d
      BY <2>3, <3>6, <3>7
    <3>9. Antes((d[3] - Ato0) * 12 + d[2] - 1) + d[1] - 1 = dia
      <4>1. d[3] = st.tm_year + 1900 /\ d[2] = st.tm_mon + 1 /\ d[1] = st.tm_mday
        BY <3>5, <3>6
      <4>2. st.tm_year \in 100 .. 199
        BY <2>2, <3>2, LocaltimeDa
      <4>4. Ato0 \in Nat
        BY FechasAssumption
      <4>3. (d[3] - Ato0) * 12 + d[2] - 1 = (st.tm_year + 1900 - Ato0) * 12 + st.tm_mon
        BY <3>3, <4>1, <4>2, <4>4
      <4> QED BY <4>1, <4>3
    <3> HIDE DEF hoy, diaHoy, dia
    <3> QED BY <2>3, <3>1, <3>7, <3>8, <3>9 DEF DaysAgoIsRight, Respondio, hoy, diaHoy
  <2>5. ahora' \in Momentos /\ pedidos' \in [Sumados -> Nat] /\ TmDeAhora'
    BY <1>1, <2>1, RespondeDeja DEF zlTimerRestaDias
  <2> QED BY <2>3, <2>4, <2>5 DEF FechaInv, MonthBeforeIsRight, FieldsAreOfNow,
                    TimeOfDate, Respondio
<1>6. CASE zlTimerRestaMes
  <2>1. PICK hoy, t, st : /\ hoy = localtime(ahora)
                          /\ t = mktime([hoy EXCEPT !.tm_mday = 15]) - 30 * 24
                          /\ st = localtime(t)
    OBVIOUS
  <2>2. /\ Responde("zlTimerRestaMes", <<hoy.tm_mday, st.tm_mon + 1, st.tm_year + 1900>>, t)
        /\ respuesta' = [fn |-> "zlTimerRestaMes",
                         valor |-> <<hoy.tm_mday, st.tm_mon + 1, st.tm_year + 1900>>]
        /\ ahora' = ahora
    BY <1>6, <2>1 DEF zlTimerRestaMes, Responde
  <2>3. (st.tm_year + 1900) * 12 + (st.tm_mon + 1) = (hoy.tm_year + 1900) * 12 + hoy.tm_mon
    BY <1>1, <2>1, MesAntes
  <2>4. MonthBeforeIsRight'
    <3>1. /\ respuesta'.valor[1] = hoy.tm_mday /\ respuesta'.valor[2] = st.tm_mon + 1
          /\ respuesta'.valor[3] = st.tm_year + 1900
      BY <2>2
    <3>2. hoy.tm_year \in 100 .. 199 /\ hoy.tm_mon \in 0 .. 11
      BY <1>1, <2>1, CubiertoAhora, LocaltimeDa
    <3>3. PICK a, b, c : a = respuesta'.valor[1] /\ b = respuesta'.valor[2] /\ c = respuesta'.valor[3]
      OBVIOUS
    <3>4. c * 12 + b = (hoy.tm_year + 1900) * 12 + hoy.tm_mon
      <4>1. c = st.tm_year + 1900 /\ b = st.tm_mon + 1
        BY <3>1, <3>3
      <4> QED BY <2>3, <4>1
    <3> QED BY <2>1, <2>2, <3>1, <3>3, <3>4 DEF MonthBeforeIsRight
  <2>5. ahora' \in Momentos /\ pedidos' \in [Sumados -> Nat] /\ TmDeAhora'
    BY <1>1, <2>2, RespondeDeja
  <2> QED BY <2>2, <2>4, <2>5 DEF FechaInv, DaysAgoIsRight, FieldsAreOfNow, TimeOfDate, Respondio
<1>7. CASE \E x \in Campos : zlTimerDat0(x)
  <2>1. PICK x \in Campos : zlTimerDat0(x)
    BY <1>7
  <2>2. /\ respuesta' = [fn |-> "zlTimerDat", valor |-> <<x, Dato(tm, x)>>]
        /\ tm' = Tocado(tm, x) /\ pedidos' = Pide(pedidos, x)
        /\ ahora' = ahora /\ deCuando' = deCuando
    BY <2>1 DEF zlTimerDat0
  <2>3. pedidos' \in [Sumados -> Nat] /\ (x \in Sumados => pedidos'[x] = pedidos[x] + 1)
    <3>1. \A y \in Campos : y \in DOMAIN localtime(ahora)
      BY CamposDeTm
    <3> QED BY <1>1, <2>2, <3>1, TocarDeja
  <2>4. ASSUME deCuando' = ahora'
        PROVE  \A y \in Campos : /\ y \in DOMAIN tm'
                                 /\ (y \in Sumados => pedidos'[y] = 0)
                                      => tm'[y] = localtime(ahora')[y]
    <3>1. \A y \in Campos : /\ y \in DOMAIN tm
                            /\ (y \in Sumados => pedidos[y] = 0) => tm[y] = localtime(ahora)[y]
      BY <1>1, <2>2, <2>4 DEF TmDeAhora
    <3>2. \A y \in Campos : /\ y \in DOMAIN tm'
                            /\ (y \in Sumados => pedidos'[y] = 0)
                                 => /\ y \in Sumados => pedidos[y] = 0
                                    /\ tm'[y] = tm[y]
      BY <1>1, <2>2, <3>1, TocarDeja
    <3> QED BY <2>2, <3>1, <3>2
  <2>5. TmDeAhora'
    BY <2>4 DEF TmDeAhora
  <2>6. FieldsAreOfNow'
    <3>1. SUFFICES ASSUME deCuando = ahora, x \in Sumados => pedidos'[x] = 1
                   PROVE  EsDeAhora'
      BY <2>2 DEF FieldsAreOfNow
    <3>2. x \in Sumados => pedidos[x] = 0
      BY <1>1, <2>3, <3>1
    <3>3. tm[x] = localtime(ahora)[x]
      BY <1>1, <2>1, <3>1, <3>2 DEF TmDeAhora
    <3>4. Dato(tm, x) = Dato(localtime(ahora), x)
      BY <2>1, <3>3 DEF Dato, Campos, Sumados
    <3> QED BY <1>1, <2>1, <2>2, <3>4, DatosDeHoy DEF EsDeAhora, MesDe
  <2> QED BY <1>1, <2>2, <2>3, <2>5, <2>6 DEF FechaInv, DaysAgoIsRight, MonthBeforeIsRight,
                    TimeOfDate, Respondio
<1>8. CASE \E x \in Campos : zlTimerDat(x)
  <2>1. PICK x \in Campos : zlTimerDat(x)
    BY <1>8
  <2>2. /\ respuesta' = [fn |-> "zlTimerDat", valor |-> <<x, Dato(localtime(ahora), x)>>]
        /\ tm' = Tocado(localtime(ahora), x) /\ pedidos' = Pide(SinPedir, x) /\ ahora' = ahora
    BY <2>1 DEF zlTimerDat
  <2>3. FieldsAreOfNow'
    BY <1>1, <2>1, <2>2, DatosDeHoy DEF FieldsAreOfNow, EsDeAhora, MesDe
  <2>4. SinPedir \in [Sumados -> Nat]
    BY DEF SinPedir
  <2>5. /\ pedidos' \in [Sumados -> Nat]
        /\ \A y \in Campos : /\ y \in DOMAIN tm'
                             /\ (y \in Sumados => pedidos'[y] = 0)
                                  => tm'[y] = localtime(ahora)[y]
    BY <2>1, <2>2, <2>4, CamposDeTm, TocarDeja
  <2>6. TmDeAhora'
    BY <2>2, <2>5 DEF TmDeAhora
  <2> QED BY <1>1, <2>2, <2>3, <2>5, <2>6 DEF FechaInv, DaysAgoIsRight, MonthBeforeIsRight,
                    TimeOfDate, Respondio
<1>9. CASE timeFecha
  <2>1. /\ respuesta' = [fn |-> "timeFecha", valor |-> mktime(tmFecha(localtime(ahora)))]
        /\ ahora' = ahora /\ tm' = tm /\ pedidos' = pedidos /\ deCuando' = deCuando
    BY <1>9 DEF timeFecha
  <2>2. TimeOfDate'
    <3>1. SUFFICES ASSUME Desfase(ahora) = 0
                   PROVE  respuesta'.valor = ahora
      BY <2>1 DEF TimeOfDate
    <3>2. ahora \in Nat
      BY <1>1, FechasAssumption
    <3>3. mktime(tmFecha(localtime(ahora))) = ahora + Desfase(ahora)
      BY <1>1, HoraDeFecha
    <3>4. PICK h : h = mktime(tmFecha(localtime(ahora)))
      OBVIOUS
    <3> QED BY <2>1, <3>1, <3>2, <3>3, <3>4
  <2>3. TmDeAhora'
    BY <1>1, <2>1 DEF TmDeAhora
  <2> QED BY <1>1, <2>1, <2>2, <2>3 DEF FechaInv, DaysAgoIsRight, MonthBeforeIsRight, FieldsAreOfNow, Respondio
<1> QED BY <1>2, <1>3, <1>4, <1>5, <1>6, <1>7, <1>8, <1>9 DEF FechaNext

-----------------------------------------------------------------------------
\* The reader of zlBufRead.

\* f joins the first n of the fields cs, with sep between them: the recursive definition
\* in Unidos, for as many fields as there are.
Une(f, cs, sep, m) ==
  f = [n \in 0 .. m |->
         IF n = 0 THEN <<>> ELSE (IF n = 1 THEN <<>> ELSE f[n - 1] \o sep) \o cs[n]]

\* There is one, for any number of fields.
LEMMA HayUnion ==
  ASSUME NEW cs, NEW sep, NEW N \in Nat
  PROVE  \E f : Une(f, cs, sep, N)
<1> DEFINE malos == {m \in Nat : ~ \E f : Une(f, cs, sep, m)}
<1>1. SUFFICES malos = {}
  OBVIOUS
<1>2. SUFFICES ASSUME malos # {} PROVE FALSE
  OBVIOUS
<1>3. PICK m \in malos : \A otro \in malos : m <= otro
  <2>1. malos \in SUBSET Nat
    OBVIOUS
  <2> QED BY <1>2, <2>1, Lista!Minimo
<1>4. m \in Nat /\ ~ \E f : Une(f, cs, sep, m)
  OBVIOUS
<1>5. CASE m = 0
  <2> DEFINE f == [n \in 0 .. 0 |-> <<>>]
  <2>1. f = [n \in 0 .. 0 |->
               IF n = 0 THEN <<>> ELSE (IF n = 1 THEN <<>> ELSE f[n - 1] \o sep) \o cs[n]]
    OBVIOUS
  <2>2. Une(f, cs, sep, 0)
    BY <2>1, Zenon DEF Une
  <2> QED BY <1>4, <1>5, <2>2, Zenon
<1>6. CASE m # 0
  <2>1. m - 1 \in Nat /\ m - 1 \notin malos
    BY <1>3, <1>4, <1>6
  <2>2. PICK g : Une(g, cs, sep, m - 1)
    BY <2>1
  <2> DEFINE V(h, n) == IF n = 0 THEN <<>>
                        ELSE (IF n = 1 THEN <<>> ELSE h[n - 1] \o sep) \o cs[n]
             f == [n \in 0 .. m |-> V(g, n)]
  <2>3. \A n \in 0 .. m - 1 : g[n] = V(g, n)
    BY <2>2 DEF Une
  <2>4. \A n \in 0 .. m - 1 : f[n] = g[n]
    <3> HIDE DEF V
    <3> QED BY <1>4, <2>3
  <2>5. ASSUME NEW n \in 0 .. m
        PROVE  V(g, n) = V(f, n)
    <3>1. CASE n = 0
      BY <3>1
    <3>2. CASE n # 0
      <4>1. n - 1 \in 0 .. m - 1
        BY <1>4, <3>2
      <4>2. f[n - 1] = g[n - 1]
        BY <2>4, <4>1
      <4> HIDE DEF f
      <4> QED BY <4>2
    <3> QED BY <3>1, <3>2
  <2>6. f = [n \in 0 .. m |-> V(f, n)]
    <3> HIDE DEF V
    <3> QED BY <2>5
  <2>7. Une(f, cs, sep, m)
    BY <2>6, Zenon DEF Une
  <2> QED BY <1>4, <2>7, Zenon
<1> QED BY <1>5, <1>6

\* Those of fields that begin alike agree as far as they do.
LEMMA UnenLoMismo ==
  ASSUME NEW f, NEW g, NEW cs, NEW ds, NEW sep, NEW N \in Nat, NEW M \in Nat, N <= M,
         Une(f, cs, sep, N), Une(g, ds, sep, M),
         \A n \in 1 .. N : cs[n] = ds[n]
  PROVE  \A n \in 0 .. N : f[n] = g[n]
<1> DEFINE malos == {n \in 0 .. N : f[n] # g[n]}
<1>1. SUFFICES ASSUME malos # {} PROVE FALSE
  OBVIOUS
<1>2. PICK n \in malos : \A otro \in malos : n <= otro
  <2>1. malos \in SUBSET Nat
    OBVIOUS
  <2> QED BY <1>1, <2>1, Lista!Minimo
<1>3. n \in 0 .. N /\ n \in 0 .. M /\ f[n] # g[n]
  OBVIOUS
<1>4. /\ f[n] = IF n = 0 THEN <<>> ELSE (IF n = 1 THEN <<>> ELSE f[n - 1] \o sep) \o cs[n]
      /\ g[n] = IF n = 0 THEN <<>> ELSE (IF n = 1 THEN <<>> ELSE g[n - 1] \o sep) \o ds[n]
  BY <1>3 DEF Une
<1>5. CASE n = 0
  BY <1>3, <1>4, <1>5
<1>6. CASE n # 0
  <2>1. n - 1 \in 0 .. N /\ n - 1 \notin malos /\ n \in 1 .. N
    BY <1>2, <1>3, <1>6
  <2>2. f[n - 1] = g[n - 1] /\ cs[n] = ds[n]
    BY <2>1
  <2> HIDE DEF malos
  <2> QED BY <1>3, <1>4, <1>6, <2>2
<1> QED BY <1>5, <1>6

\* What Unidos is, of the fields cs.
UnionDe(cs, sep) ==
  LET unidos[n \in 0 .. Len(cs)] ==
        IF n = 0 THEN <<>> ELSE (IF n = 1 THEN <<>> ELSE unidos[n - 1] \o sep) \o cs[n]
  IN unidos[Len(cs)]

\* Unidos is the last term of such a function.
LEMMA UnionEs ==
  ASSUME NEW cs, NEW sep, Len(cs) \in Nat
  PROVE  \E f : Une(f, cs, sep, Len(cs)) /\ UnionDe(cs, sep) = f[Len(cs)]
<1> DEFINE f == CHOOSE h : h = [n \in 0 .. Len(cs) |->
                  IF n = 0 THEN <<>> ELSE (IF n = 1 THEN <<>> ELSE h[n - 1] \o sep) \o cs[n]]
<1>1. \E h : h = [n \in 0 .. Len(cs) |->
                  IF n = 0 THEN <<>> ELSE (IF n = 1 THEN <<>> ELSE h[n - 1] \o sep) \o cs[n]]
  <2>1. \E h : Une(h, cs, sep, Len(cs))
    BY HayUnion
  <2> QED BY <2>1, Zenon DEF Une
<1>2. f = [n \in 0 .. Len(cs) |->
             IF n = 0 THEN <<>> ELSE (IF n = 1 THEN <<>> ELSE f[n - 1] \o sep) \o cs[n]]
  BY <1>1, Zenon
<1>3. Une(f, cs, sep, Len(cs))
  BY <1>2, Zenon DEF Une
<1>4. UnionDe(cs, sep) = f[Len(cs)]
  BY Zenon DEF UnionDe
<1> QED BY <1>3, <1>4, Zenon

\* One field more, of sequences of any kind.
LEMMA UnionMas ==
  ASSUME NEW cs, NEW ds, NEW sep, Len(cs) \in Nat, Len(ds) = Len(cs) + 1,
         \A n \in 1 .. Len(cs) : cs[n] = ds[n]
  PROVE  UnionDe(ds, sep) = (IF Len(cs) = 0 THEN <<>> ELSE UnionDe(cs, sep) \o sep) \o ds[Len(ds)]
<1>0. PICK N, M : N = Len(cs) /\ M = Len(ds)
  OBVIOUS
<1>01. N \in Nat /\ M \in Nat /\ M = N + 1 /\ \A n \in 1 .. N : cs[n] = ds[n]
  BY <1>0
<1>1. PICK f : Une(f, cs, sep, N) /\ UnionDe(cs, sep) = f[N]
  BY <1>0, <1>01, UnionEs
<1>2. PICK g : Une(g, ds, sep, M) /\ UnionDe(ds, sep) = g[M]
  BY <1>0, <1>01, UnionEs
<1>3. \A n \in 0 .. N : f[n] = g[n]
  <2>1. N <= M
    BY <1>01
  <2> QED BY <1>01, <1>1, <1>2, <2>1, UnenLoMismo
<1>4. g[M] = (IF M = 1 THEN <<>> ELSE g[M - 1] \o sep) \o ds[M]
  <2>1. M \in 0 .. M /\ M # 0
    BY <1>01
  <2> QED BY <1>2, <2>1, Zenon DEF Une
<1>5. M - 1 = N /\ f[N] = g[N] /\ (M = 1 <=> N = 0)
  BY <1>01, <1>3
<1> QED BY <1>0, <1>1, <1>2, <1>4, <1>5

\* One field more.
LEMMA UnionCrece ==
  ASSUME NEW cs \in Seq(Seq(Caracteres)), NEW sep, NEW c \in Seq(Caracteres)
  PROVE  /\ cs = <<>> => UnionDe(Append(cs, c), sep) = <<>> \o c
         /\ cs # <<>> => UnionDe(Append(cs, c), sep) = (UnionDe(cs, sep) \o sep) \o c
<1>1. PICK ds : ds = Append(cs, c)
  OBVIOUS
<1>2. /\ Len(cs) \in Nat /\ Len(ds) = Len(cs) + 1
      /\ \A n \in 1 .. Len(cs) : cs[n] = ds[n]
      /\ ds[Len(ds)] = c
  <2>1. PICK S : S = Seq(Caracteres)
    OBVIOUS
  <2>2. cs \in Seq(S) /\ c \in S
    BY <2>1
  <2> QED BY <1>1, <2>2, AppendProperties
<1>3. (cs = <<>>) <=> (Len(cs) = 0)
  BY EmptySeq
<1>4. UnionDe(ds, sep)
        = (IF Len(cs) = 0 THEN <<>> ELSE UnionDe(cs, sep) \o sep) \o ds[Len(ds)]
  BY <1>2, UnionMas, Zenon
<1> QED BY <1>1, <1>2, <1>3, <1>4

\* Sequences that have the same between two positions.
LEMMA MismoTrozo ==
  ASSUME NEW S, NEW s, NEW t, NEW m \in Int, NEW n \in Int,
         \A i \in m .. n : s[i] = t[i] /\ t[i] \in S
  PROVE  SubSeq(s, m, n) = SubSeq(t, m, n)
<1> DEFINE a == SubSeq(s, m, n)
           b == SubSeq(t, m, n)
<1>1. /\ a \in Seq(S) /\ Len(a) = IF m <= n THEN n - m + 1 ELSE 0
      /\ \A i \in 1 .. n - m + 1 : a[i] = s[m + i - 1]
  <2>1. \A i \in m .. n : s[i] \in S
    OBVIOUS
  <2> QED BY <2>1, SubSeqProperties
<1>2. /\ b \in Seq(S) /\ Len(b) = IF m <= n THEN n - m + 1 ELSE 0
      /\ \A i \in 1 .. n - m + 1 : b[i] = t[m + i - 1]
  <2>1. \A i \in m .. n : t[i] \in S
    OBVIOUS
  <2> QED BY <2>1, SubSeqProperties
<1>3. ASSUME NEW i \in 1 .. Len(a)
      PROVE  a[i] = b[i]
  <2>1. i \in 1 .. n - m + 1 /\ m + i - 1 \in m .. n
    BY <1>1, <1>3
  <2> QED BY <1>1, <1>2, <2>1
<1> HIDE DEF a, b
<1> QED BY <1>1, <1>2, <1>3, SeqEqual DEF a, b

\* What is known of the buffer from byte p on.
Intacto(p) == /\ texto \in Seq(Caracteres)
              /\ buf \in Seq(Caracteres \cup {BARRACERO})
              /\ Len(buf) = Len(texto) + 1 /\ buf[Len(texto) + 1] = BARRACERO
              /\ \A i \in p + 1 .. Len(texto) : buf[i] = texto[i]

\* The string there is the rest of the text.
LEMMA CadenaEsResto ==
  ASSUME NEW p \in Nat, p <= Len(texto), Intacto(p)
  PROVE  Cadena(buf, p) = SubSeq(texto, p + 1, Len(texto))
<1> DEFINE L == Len(texto)
           C == Caracteres \cup {BARRACERO}
           resto == SubSeq(buf, p + 1, Len(buf))
           donde == {i \in 1 .. Len(resto) : resto[i] = BARRACERO}
<1>1. /\ L \in Nat /\ p \in 0 .. L /\ Len(buf) = L + 1 /\ buf \in Seq(C) /\ texto \in Seq(Caracteres)
      /\ buf[L + 1] = BARRACERO /\ \A i \in p + 1 .. L : buf[i] = texto[i]
  BY DEF Intacto
<1>2. \A i \in p + 1 .. L : texto[i] \in Caracteres /\ texto[i] # BARRACERO
  BY <1>1, BufAssumption
<1>3. /\ resto \in Seq(C) /\ Len(resto) = L + 1 - p
      /\ \A i \in 1 .. L + 1 - p : resto[i] = buf[p + i]
  <2>1. \A i \in p + 1 .. L + 1 : buf[i] \in C
    BY <1>1
  <2> HIDE DEF C, L
  <2>2. p + 1 \in Int /\ L + 1 \in Int /\ p + 1 <= L + 1
    BY <1>1
  <2>3. /\ SubSeq(buf, p + 1, L + 1) \in Seq(C)
        /\ Len(SubSeq(buf, p + 1, L + 1)) = (L + 1) - (p + 1) + 1
        /\ \A i \in 1 .. (L + 1) - (p + 1) + 1 : SubSeq(buf, p + 1, L + 1)[i] = buf[(p + 1) + i - 1]
    BY <2>1, <2>2, SubSeqProperties
  <2>4. resto = SubSeq(buf, p + 1, L + 1)
    BY <1>1
  <2>5. (L + 1) - (p + 1) + 1 = L + 1 - p /\ \A i \in 1 .. L + 1 - p : (p + 1) + i - 1 = p + i
    BY <1>1
  <2> HIDE DEF resto
  <2> QED BY <2>3, <2>4, <2>5
<1> HIDE DEF resto, L
<1>4. donde = {L + 1 - p}
  <2>1. ASSUME NEW i \in 1 .. L + 1 - p, resto[i] = BARRACERO
        PROVE  i = L + 1 - p
    <3>1. resto[i] = buf[p + i]
      BY <1>3
    <3>2. CASE i # L + 1 - p
      <4>1. p + i \in p + 1 .. L
        BY <1>1, <3>2
      <4> QED BY <1>1, <1>2, <2>1, <3>1, <4>1
    <3> QED BY <3>2
  <2>2. L + 1 - p \in 1 .. L + 1 - p /\ resto[L + 1 - p] = BARRACERO
    <3>1. L + 1 - p \in 1 .. L + 1 - p /\ p + (L + 1 - p) = L + 1
      BY <1>1
    <3> QED BY <1>1, <1>3, <3>1
  <2> QED BY <1>1, <1>3, <2>1, <2>2
<1>5. SelectInSeq(resto, LAMBDA b : b = BARRACERO) = L + 1 - p
  <2>1. (IF donde # {} THEN Min(donde) ELSE 0) = L + 1 - p
    <3>1. L + 1 - p \in Int
      BY <1>1
    <3> QED BY <1>4, <3>1 DEF Min
  <2> QED BY <2>1 DEF SelectInSeq
<1>6. Cadena(buf, p) = SubSeq(resto, 1, L - p)
  <2>1. (L + 1 - p) - 1 = L - p
    BY <1>1
  <2> QED BY <1>5, <2>1 DEF Cadena, resto
<1>7. SubSeq(texto, p + 1, L) = SubSeq(buf, p + 1, L)
  <2>1. \A i \in p + 1 .. L : buf[i] = texto[i] /\ texto[i] \in Caracteres
    BY <1>1, <1>2
  <2>2. p + 1 \in Int /\ L \in Int
    BY <1>1
  <2> QED BY <2>1, <2>2, MismoTrozo
<1>8. CASE p = L
  <2>1. SubSeq(resto, 1, L - p) = <<>>
    BY <1>1, <1>8, SubSeqEmpty
  <2>2. SubSeq(texto, p + 1, L) = <<>>
    BY <1>1, <1>8, SubSeqEmpty
  <2> QED BY <1>6, <2>1, <2>2 DEF L
<1>9. CASE p < L
  <2>1. SubSeq(resto, 1, L - p) = SubSeq(buf, p + 1, L)
    <3>1. /\ p + 1 \in 1 .. Len(buf) /\ L + 1 \in 1 .. Len(buf)
          /\ 1 \in 1 .. (L + 1) - (p + 1) + 1 /\ L - p \in 1 .. (L + 1) - (p + 1) + 1
          /\ (p + 1) + 1 - 1 = p + 1 /\ (p + 1) + (L - p) - 1 = L
      BY <1>1, <1>9
    <3>2. SubSeq(SubSeq(buf, p + 1, L + 1), 1, L - p) = SubSeq(buf, (p + 1) + 1 - 1, (p + 1) + (L - p) - 1)
      <4>1. PICK S : buf \in Seq(S)
        BY <1>1
      <4>2. PICK a, z, y : a = p + 1 /\ z = L + 1 /\ y = L - p
        OBVIOUS
      <4>3. /\ a \in 1 .. Len(buf) /\ z \in 1 .. Len(buf)
            /\ 1 \in 1 .. z - a + 1 /\ y \in 1 .. z - a + 1
        BY <3>1, <4>2
      <4>4. SubSeq(SubSeq(buf, a, z), 1, y) = SubSeq(buf, a + 1 - 1, a + y - 1)
        BY <4>1, <4>3, SubSeqOfSubSeq
      <4> QED BY <4>2, <4>4
    <3>3. resto = SubSeq(buf, p + 1, L + 1)
      BY <1>1 DEF resto
    <3> QED BY <3>1, <3>2, <3>3
  <2> QED BY <1>6, <1>7, <2>1 DEF L
<1> QED BY <1>1, <1>8, <1>9

\* A reader, as zlBufReadInicia makes it.
Lectores == [posicion : Int, endPosicion : Int, numLinea : Int,
             separador : Separadores, alloc : BOOLEAN]

\* A field has no separator in it.
SinSeparador(campo, sep) ==
  \A i \in 0 .. Len(campo) - Len(sep) : SubSeq(campo, i + 1, i + Len(sep)) # sep

\* The fields and the separators between them are the text as far as the reader has come:
\* before the first field, after the separator of the last one, or at the end, which had
\* none; and from there on the buffer is as it was.
LectorInv ==
  /\ lector.posicion \in 0 .. Len(texto) /\ lector.endPosicion = Len(texto)
  /\ lector.numLinea = Len(campos) - 1
  /\ Intacto(lector.posicion)
  /\ \A n \in 1 .. Len(campos) : SinSeparador(campos[n], lector.separador)
  /\ lector.alloc => buf = Append(texto, BARRACERO)
  /\ \/ campos = <<>> /\ lector.posicion = 0
     \/ /\ campos # <<>>
        /\ SubSeq(texto, 1, lector.posicion)
             = UnionDe(campos, lector.separador) \o lector.separador
     \/ /\ campos # <<>> /\ lector.posicion = Len(texto)
        /\ texto = UnionDe(campos, lector.separador)

\* Only a buffer that nobody has read is as it was; a reader knows what it has read.
BufInv ==
  /\ texto \in Textos
  /\ campos \in Seq(Seq(Caracteres))
  /\ campos = <<>> => buf = Append(texto, BARRACERO)
  /\ lector \in Lectores \cup {NULL}
  /\ lector # NULL => LectorInv

\* A buffer that nobody has cut.
LEMMA BufEntero ==
  ASSUME texto \in Textos, buf = Append(texto, BARRACERO)
  PROVE  Intacto(0) /\ Len(texto) \in Nat
<1>1. texto \in Seq(Caracteres) /\ texto \in Seq(Caracteres \cup {BARRACERO})
  BY BufAssumption
<1> QED BY <1>1, AppendProperties DEF Intacto

\* BufInv holds before anything is read.
LEMMA BufEmpieza == BufInit => BufInv
BY EmptySeq DEF BufInit, BufInv

\* One field more, c, that the reader has found before the separator or the end.
LEMMA CampoNuevo ==
  ASSUME BufInv, lector # NULL, lector.posicion # lector.endPosicion,
         NEW c \in Seq(Caracteres), campos' = Append(campos, c),
         SinSeparador(c, lector.separador)
  PROVE  /\ campos' \in Seq(Seq(Caracteres)) /\ campos' # <<>>
         /\ Len(campos') = Len(campos) + 1
         /\ \A n \in 1 .. Len(campos') : SinSeparador(campos'[n], lector.separador)
         /\ UnionDe(campos', lector.separador) = SubSeq(texto, 1, lector.posicion) \o c
<1> DEFINE sep == lector.separador
           p == lector.posicion
<1>1. /\ campos' \in Seq(Seq(Caracteres)) /\ campos' # <<>>
      /\ Len(campos') = Len(campos) + 1 /\ Len(campos) \in Nat
      /\ \A n \in 1 .. Len(campos) : campos'[n] = campos[n]
      /\ campos'[Len(campos) + 1] = c
  BY AppendProperties DEF BufInv
<1>2. LectorInv
  BY DEF BufInv
<1>3. \A n \in 1 .. Len(campos') : SinSeparador(campos'[n], sep)
  <2> SUFFICES ASSUME NEW n \in 1 .. Len(campos') PROVE SinSeparador(campos'[n], sep)
    OBVIOUS
  <2>1. CASE n = Len(campos) + 1
    BY <1>1, <2>1
  <2>2. CASE n # Len(campos) + 1
    <3>1. n \in 1 .. Len(campos)
      BY <1>1, <2>2
    <3>2. SinSeparador(campos[n], sep)
      BY <1>2, <3>1 DEF LectorInv
    <3> QED BY <1>1, <3>1, <3>2
  <2> QED BY <2>1, <2>2
<1>4. UnionDe(campos', sep) = SubSeq(texto, 1, p) \o c
  <2>1. campos \in Seq(Seq(Caracteres))
    BY DEF BufInv
  <2>2. CASE campos = <<>>
    <3>1. p = 0
      BY <1>2, <2>2 DEF LectorInv
    <3>2. SubSeq(texto, 1, p) = <<>>
      BY <3>1, SubSeqEmpty
    <3>3. UnionDe(Append(campos, c), sep) = <<>> \o c
      BY <2>1, <2>2, UnionCrece
    <3> HIDE DEF sep, p
    <3> QED BY <3>2, <3>3
  <2>3. CASE campos # <<>>
    <3>1. SubSeq(texto, 1, p) = UnionDe(campos, sep) \o sep
      BY <1>2, <2>3 DEF LectorInv
    <3>2. UnionDe(Append(campos, c), sep) = (UnionDe(campos, sep) \o sep) \o c
      BY <2>1, <2>3, UnionCrece
    <3> HIDE DEF sep, p
    <3> QED BY <3>1, <3>2
  <2> QED BY <2>2, <2>3
<1> QED BY <1>1, <1>3, <1>4

\* The least place where the separator is.
LEMMA EncontradoEs ==
  ASSUME Encontrados # {}
  PROVE  Encontrado \in Encontrados /\ \A otro \in Encontrados : Encontrado <= otro
<1>1. Encontrados \in SUBSET Nat
  BY DEF Encontrados
<1>2. \E i \in Encontrados : \A otro \in Encontrados : i <= otro
  BY <1>1, Lista!Minimo
<1> QED BY <1>2, Zenon DEF Encontrado

\* A piece of the text that nobody has cut.
LEMMA TrozoIntacto ==
  ASSUME NEW m \in Int, NEW n \in Int,
         \A k \in m .. n : buf[k] = texto[k] /\ texto[k] \in Caracteres
  PROVE  SubSeq(buf, m, n) = SubSeq(texto, m, n)
<1>1. \E S : \A k \in m .. n : buf[k] = texto[k] /\ texto[k] \in S
  OBVIOUS
<1>2. PICK S : \A k \in m .. n : buf[k] = texto[k] /\ texto[k] \in S
  BY <1>1
<1> QED BY <1>2, MismoTrozo

\* A piece of the text from the reader's place up to where no separator begins before has
\* none in it.
LEMMA TrozoSinSeparador ==
  ASSUME BufInv, lector # NULL, NEW q \in lector.posicion .. Len(texto),
         \A i \in Encontrados : q < i + Len(lector.separador)
  PROVE  /\ SubSeq(texto, lector.posicion + 1, q) \in Seq(Caracteres)
         /\ SinSeparador(SubSeq(texto, lector.posicion + 1, q), lector.separador)
<1> DEFINE sep == lector.separador
           p == lector.posicion
           L == Len(texto)
           c == SubSeq(texto, p + 1, q)
<1>1. /\ p \in 0 .. L /\ L \in Nat /\ Intacto(p) /\ texto \in Seq(Caracteres)
      /\ sep \in Seq(Caracteres) /\ sep # <<>> /\ Len(buf) = L + 1
      /\ buf \in Seq(Caracteres \cup {BARRACERO}) /\ q \in p .. L
  BY BufAssumption DEF BufInv, LectorInv, Intacto, Lectores
<1>2. Len(sep) \in Nat /\ Len(sep) >= 1
  BY <1>1, EmptySeq
<1>3. /\ \A i \in p + 1 .. L : buf[i] = texto[i] /\ texto[i] \in Caracteres
      /\ Len(Cadena(buf, p)) = L - p
  <2>1. \A i \in p + 1 .. L : buf[i] = texto[i] /\ texto[i] \in Caracteres
    BY <1>1 DEF Intacto
  <2>2. Cadena(buf, p) = SubSeq(texto, p + 1, L)
    <3>1. p \in Nat /\ p <= Len(texto)
      BY <1>1
    <3> QED BY <1>1, <3>1, CadenaEsResto
  <2>3. Len(SubSeq(texto, p + 1, L)) = L - p
    <3> HIDE DEF L, p
    <3>1. p + 1 \in Int /\ L \in Int /\ \A i \in p + 1 .. L : texto[i] \in Caracteres
      BY <1>1, <2>1
    <3>2. Len(SubSeq(texto, p + 1, L)) = IF p + 1 <= L THEN L - (p + 1) + 1 ELSE 0
      BY <3>1, SubSeqProperties
    <3> QED BY <1>1, <3>2
  <2> QED BY <2>1, <2>2, <2>3
<1>4. c \in Seq(Caracteres) /\ Len(c) = q - p
  <2> HIDE DEF L, p
  <2>1. p + 1 \in Int /\ q \in Int /\ \A i \in p + 1 .. q : texto[i] \in Caracteres
    BY <1>1, <1>3
  <2>2. c \in Seq(Caracteres) /\ Len(c) = IF p + 1 <= q THEN q - (p + 1) + 1 ELSE 0
    BY <2>1, SubSeqProperties
  <2> QED BY <1>1, <2>2
<1> HIDE DEF c, sep, p, L
<1>5. ASSUME NEW i \in 0 .. Len(c) - Len(sep)
      PROVE  SubSeq(c, i + 1, i + Len(sep)) # sep
  <2>1. /\ i \in Int /\ i >= 0 /\ i + Len(sep) <= q - p /\ p + i \in Int /\ p < q
    BY <1>1, <1>2, <1>4
  <2>2. SubSeq(c, i + 1, i + Len(sep)) = SubSeq(texto, p + i + 1, p + i + Len(sep))
    <3>1. /\ p + 1 \in 1 .. Len(texto) /\ q \in 1 .. Len(texto)
          /\ i + 1 \in 1 .. q - (p + 1) + 1 /\ i + Len(sep) \in 1 .. q - (p + 1) + 1
          /\ (p + 1) + (i + 1) - 1 = p + i + 1 /\ (p + 1) + (i + Len(sep)) - 1 = p + i + Len(sep)
      BY <1>1, <1>2, <2>1 DEF L
    <3>2. SubSeq(SubSeq(texto, p + 1, q), i + 1, i + Len(sep))
            = SubSeq(texto, (p + 1) + (i + 1) - 1, (p + 1) + (i + Len(sep)) - 1)
      BY <1>1, <3>1, SubSeqOfSubSeq
    <3> QED BY <3>1, <3>2 DEF c
  <2>3. SubSeq(texto, p + i + 1, p + i + Len(sep)) = SubSeq(buf, p + i + 1, p + i + Len(sep))
    <3>1. \A k \in p + i + 1 .. p + i + Len(sep) : buf[k] = texto[k] /\ texto[k] \in Caracteres
      <4>1. \A k \in p + i + 1 .. p + i + Len(sep) : k \in p + 1 .. L
        BY <1>1, <1>2, <2>1
      <4> QED BY <1>3, <4>1
    <3>2. p + i + 1 \in Int /\ p + i + Len(sep) \in Int
      BY <1>1, <1>2, <2>1
    <3>3. SubSeq(buf, p + i + 1, p + i + Len(sep)) = SubSeq(texto, p + i + 1, p + i + Len(sep))
      BY <3>1, <3>2, TrozoIntacto
    <3> QED BY <3>3
  <2>4. SUFFICES ASSUME SubSeq(buf, p + i + 1, p + i + Len(sep)) = sep PROVE FALSE
    BY <2>2, <2>3
  <2>5. p + i \in Encontrados
    <3>1. /\ p + i \in 0 .. Len(buf) - 1 /\ p <= p + i
          /\ p + i + Len(sep) <= p + (L - p)
      BY <1>1, <1>2, <2>1
    <3> QED BY <1>3, <2>4, <3>1 DEF Encontrados, p, sep
  <2>6. q < (p + i) + Len(sep)
    BY <2>5 DEF sep
  <2> QED BY <1>1, <1>2, <2>1, <2>6
<1> QED BY <1>4, <1>5 DEF SinSeparador, c, sep, p

\* No separator is left: the field is the rest of the text.
LEMMA RestoPaso == BufInv /\ lector # NULL /\ NextResto => BufInv'
<1> SUFFICES ASSUME BufInv, lector # NULL, NextResto PROVE BufInv'
  OBVIOUS
<1> DEFINE sep == lector.separador
           p == lector.posicion
           L == Len(texto)
           c == SubSeq(texto, p + 1, L)
<1>1. /\ p \in 0 .. L /\ L \in Nat /\ Intacto(p) /\ texto \in Seq(Caracteres) /\ texto \in Textos
      /\ lector \in Lectores /\ lector.endPosicion = L /\ p # lector.endPosicion
      /\ lector.numLinea = Len(campos) - 1 /\ Len(campos) \in Nat
      /\ Encontrados = {} /\ UNCHANGED <<buf, texto>>
      /\ lector' = [lector EXCEPT !.posicion = lector.endPosicion, !.numLinea = @ + 1]
      /\ campos' = Append(campos, Cadena(buf, p))
      /\ lector.alloc => buf = Append(texto, BARRACERO)
  BY BufAssumption DEF BufInv, LectorInv, Intacto, NextResto
<1>2. Cadena(buf, p) = c
  <2>1. p \in Nat /\ p <= Len(texto)
    BY <1>1
  <2> QED BY <1>1, <2>1, CadenaEsResto
<1>3. c \in Seq(Caracteres) /\ SinSeparador(c, sep)
  <2>1. L \in p .. L /\ \A i \in Encontrados : L < i + Len(sep)
    BY <1>1
  <2> QED BY <2>1, TrozoSinSeparador
<1>4. campos' = Append(campos, c)
  BY <1>1, <1>2
<1>5. /\ campos' \in Seq(Seq(Caracteres)) /\ campos' # <<>> /\ Len(campos') = Len(campos) + 1
      /\ \A n \in 1 .. Len(campos') : SinSeparador(campos'[n], sep)
      /\ UnionDe(campos', sep) = SubSeq(texto, 1, p) \o c
  BY <1>1, <1>3, <1>4, CampoNuevo
<1>6. SubSeq(texto, 1, p) \o c = texto
  <2>1. 1 \in 1 .. Len(texto) + 1 /\ p \in 1 - 1 .. Len(texto) /\ L \in p .. Len(texto)
    BY <1>1
  <2>2. SubSeq(texto, 1, p) \o SubSeq(texto, p + 1, L) = SubSeq(texto, 1, L)
    BY <1>1, <2>1, ConcatAdjacentSubSeq
  <2>3. SubSeq(texto, 1, L) = texto
    BY <1>1, SubSeqFull
  <2> QED BY <2>2, <2>3
<1>7. /\ lector' \in Lectores /\ lector'.posicion = L /\ lector'.endPosicion = L
      /\ lector'.separador = sep /\ lector'.alloc = lector.alloc
      /\ lector'.numLinea = Len(campos') - 1
  <2>1. lector.endPosicion \in Int /\ lector.numLinea + 1 \in Int
    BY <1>1 DEF Lectores
  <2>2. /\ lector' \in Lectores /\ lector'.posicion = lector.endPosicion
        /\ lector'.endPosicion = lector.endPosicion
        /\ lector'.separador = lector.separador /\ lector'.alloc = lector.alloc
        /\ lector'.numLinea = lector.numLinea + 1
    BY <1>1, <2>1 DEF Lectores
  <2> QED BY <1>1, <1>5, <2>2
<1> HIDE DEF c, sep, p, L
<1>8. Intacto(L)'
  BY <1>1 DEF Intacto, L
<1>9. /\ texto' = texto /\ buf' = buf /\ Len(texto) = L
      /\ texto = UnionDe(campos', sep)
  BY <1>1, <1>5, <1>6 DEF L
<1>10. LectorInv'
  <2>1. lector'.posicion \in 0 .. Len(texto') /\ lector'.endPosicion = Len(texto')
    BY <1>1, <1>7, <1>9
  <2>2. Intacto(lector.posicion)'
    BY <1>7, <1>8, <1>9 DEF Intacto
  <2>3. \A n \in 1 .. Len(campos') : SinSeparador(campos'[n], lector'.separador)
    BY <1>5, <1>7
  <2>4. lector'.alloc => buf' = Append(texto', BARRACERO)
    BY <1>1, <1>7, <1>9
  <2>5. lector'.posicion = Len(texto') /\ texto' = UnionDe(campos', lector'.separador)
    BY <1>7, <1>9
  <2> QED BY <1>5, <1>7, <2>1, <2>2, <2>3, <2>4, <2>5 DEF LectorInv
<1> QED BY <1>1, <1>5, <1>7, <1>9, <1>10 DEF BufInv

\* Up to the next separator; the byte that is cut is the reader's no more.
LEMMA CampoPaso == BufInv /\ lector # NULL /\ NextCampo => BufInv'
<1> SUFFICES ASSUME BufInv, lector # NULL, NextCampo PROVE BufInv'
  OBVIOUS
<1>1. PICK sep, p, L, i, q, c :
        /\ sep = lector.separador /\ p = lector.posicion /\ L = Len(texto)
        /\ i = Encontrado /\ q = Encontrado + Len(lector.separador)
        /\ c = SubSeq(texto, lector.posicion + 1, Encontrado)
  OBVIOUS
<1>2. q = i + Len(sep) /\ c = SubSeq(texto, p + 1, i)
  BY <1>1
<1>3. /\ p \in 0 .. L /\ L \in Nat /\ Intacto(p) /\ texto \in Seq(Caracteres) /\ texto \in Textos
      /\ lector \in Lectores /\ lector.endPosicion = L /\ lector.posicion # lector.endPosicion
      /\ lector.numLinea = Len(campos) - 1 /\ Len(campos) \in Nat
      /\ Encontrados # {} /\ texto' = texto
      /\ lector.alloc => buf = Append(texto, BARRACERO)
  BY <1>1, BufAssumption DEF BufInv, LectorInv, Intacto, NextCampo
<1>4. /\ buf' = IF lector.alloc THEN buf ELSE [buf EXCEPT ![i + 1] = BARRACERO]
      /\ lector' = [lector EXCEPT !.posicion = q, !.numLinea = @ + 1]
      /\ campos' = Append(campos, SubSeq(buf, p + 1, i))
  BY <1>1, Zenon DEF NextCampo
<1>5. /\ sep \in Seq(Caracteres) /\ sep # <<>> /\ Len(sep) \in Nat /\ Len(sep) >= 1
      /\ sep \in Separadores
  <2>1. sep \in Separadores /\ sep \in Seq(Caracteres) /\ sep # <<>>
    BY <1>1, <1>3, BufAssumption DEF Lectores
  <2> QED BY <2>1, EmptySeq
<1>6. /\ \A k \in p + 1 .. L : buf[k] = texto[k] /\ texto[k] \in Caracteres
      /\ Len(buf) = L + 1 /\ buf[L + 1] = BARRACERO /\ buf \in Seq(Caracteres \cup {BARRACERO})
      /\ Len(Cadena(buf, p)) = L - p
  <2>1. /\ \A k \in p + 1 .. L : buf[k] = texto[k] /\ texto[k] \in Caracteres
        /\ Len(buf) = L + 1 /\ buf[L + 1] = BARRACERO /\ buf \in Seq(Caracteres \cup {BARRACERO})
    BY <1>1, <1>3 DEF Intacto
  <2>2. Cadena(buf, p) = SubSeq(texto, p + 1, L)
    <3>1. p \in Nat /\ p <= Len(texto)
      BY <1>1, <1>3
    <3> QED BY <1>1, <1>3, <3>1, CadenaEsResto
  <2>3. Len(SubSeq(texto, p + 1, L)) = L - p
    <3>1. p + 1 \in Int /\ L \in Int /\ \A k \in p + 1 .. L : texto[k] \in Caracteres
      BY <1>3, <2>1
    <3>2. Len(SubSeq(texto, p + 1, L)) = IF p + 1 <= L THEN L - (p + 1) + 1 ELSE 0
      BY <3>1, SubSeqProperties
    <3> QED BY <1>3, <3>2
  <2> QED BY <2>1, <2>2, <2>3
<1>7. /\ i \in Encontrados /\ i \in Int /\ p <= i /\ q <= p + (L - p)
      /\ SubSeq(buf, i + 1, q) = sep
      /\ \A otro \in Encontrados : i <= otro /\ otro \in Int
  <2>1. i \in Encontrados /\ \A otro \in Encontrados : i <= otro
    BY <1>1, <1>3, EncontradoEs, Zenon
  <2>2. \A otro \in Encontrados : otro \in Int
    BY DEF Encontrados
  <2>3. /\ lector.posicion <= i
        /\ i + Len(lector.separador) <= lector.posicion + Len(Cadena(buf, lector.posicion))
        /\ SubSeq(buf, i + 1, i + Len(lector.separador)) = lector.separador
    BY <2>1, Zenon DEF Encontrados
  <2>4. /\ p <= i /\ i + Len(sep) <= p + Len(Cadena(buf, p))
        /\ SubSeq(buf, i + 1, i + Len(sep)) = sep
    BY <1>1, <2>3, Zenon
  <2> QED BY <1>2, <1>6, <2>1, <2>2, <2>4
<1>8. q \in Int /\ i < q /\ q <= L /\ i \in p .. L /\ q \in 0 .. L
  BY <1>2, <1>3, <1>5, <1>7
<1>9. c \in Seq(Caracteres) /\ SinSeparador(c, sep)
  <2>1. i \in lector.posicion .. Len(texto)
    BY <1>1, <1>8
  <2>2. \A otro \in Encontrados : i < otro + Len(lector.separador)
    BY <1>1, <1>5, <1>7
  <2>3. /\ SubSeq(texto, lector.posicion + 1, i) \in Seq(Caracteres)
        /\ SinSeparador(SubSeq(texto, lector.posicion + 1, i), lector.separador)
    BY <2>1, <2>2, TrozoSinSeparador
  <2> QED BY <1>1, <2>3, Zenon
<1>10. campos' = Append(campos, c)
  <2>1. \A k \in p + 1 .. i : buf[k] = texto[k] /\ texto[k] \in Caracteres
    <3>1. \A k \in p + 1 .. i : k \in p + 1 .. L
      BY <1>3, <1>8
    <3> QED BY <1>6, <3>1
  <2>2. PICK a : a = p + 1
    OBVIOUS
  <2>3. a \in Int /\ i \in Int /\ \A k \in a .. i : buf[k] = texto[k] /\ texto[k] \in Caracteres
    BY <1>3, <1>7, <2>1, <2>2
  <2>4. SubSeq(buf, a, i) = SubSeq(texto, a, i)
    BY <2>3, TrozoIntacto
  <2> QED BY <1>2, <1>4, <2>2, <2>4
<1>11. /\ campos' \in Seq(Seq(Caracteres)) /\ campos' # <<>> /\ Len(campos') = Len(campos) + 1
       /\ \A n \in 1 .. Len(campos') : SinSeparador(campos'[n], sep)
       /\ UnionDe(campos', sep) = SubSeq(texto, 1, p) \o c
  <2>1. SinSeparador(c, lector.separador)
    BY <1>1, <1>9
  <2>2. /\ campos' \in Seq(Seq(Caracteres)) /\ campos' # <<>> /\ Len(campos') = Len(campos) + 1
        /\ \A n \in 1 .. Len(campos') : SinSeparador(campos'[n], lector.separador)
        /\ UnionDe(campos', lector.separador) = SubSeq(texto, 1, lector.posicion) \o c
    BY <1>3, <1>9, <1>10, <2>1, CampoNuevo
  <2> QED BY <1>1, <2>2, Zenon
<1>12. /\ lector' \in Lectores /\ lector'.posicion = q /\ lector'.endPosicion = L
       /\ lector'.separador = sep /\ lector'.alloc = lector.alloc
       /\ lector'.numLinea = Len(campos') - 1
  <2>1. q \in Int /\ lector.numLinea + 1 \in Int
    BY <1>3, <1>8 DEF Lectores
  <2>2. /\ lector' \in Lectores /\ lector'.posicion = q
        /\ lector'.endPosicion = lector.endPosicion
        /\ lector'.separador = lector.separador /\ lector'.alloc = lector.alloc
        /\ lector'.numLinea = lector.numLinea + 1
    BY <1>3, <1>4, <2>1 DEF Lectores
  <2> QED BY <1>1, <1>3, <1>11, <2>2
<1>13. UnionDe(campos', sep) \o sep = SubSeq(texto, 1, q)
  <2>1. sep = SubSeq(texto, i + 1, q)
    <3>1. PICK a : a = i + 1
      OBVIOUS
    <3>2. \A k \in a .. q : k \in p + 1 .. L
      BY <1>3, <1>8, <3>1
    <3>3. a \in Int /\ q \in Int /\ \A k \in a .. q : buf[k] = texto[k] /\ texto[k] \in Caracteres
      BY <1>6, <1>7, <1>8, <3>1, <3>2
    <3>4. SubSeq(buf, a, q) = SubSeq(texto, a, q)
      BY <3>3, TrozoIntacto
    <3> QED BY <1>7, <3>1, <3>4
  <2>2. SubSeq(texto, 1, p) \o c = SubSeq(texto, 1, i)
    <3>1. 1 \in 1 .. Len(texto) + 1 /\ p \in 1 - 1 .. Len(texto) /\ i \in p .. Len(texto)
      BY <1>1, <1>3, <1>8
    <3> QED BY <1>2, <1>3, <3>1, ConcatAdjacentSubSeq
  <2>3. SubSeq(texto, 1, i) \o SubSeq(texto, i + 1, q) = SubSeq(texto, 1, q)
    <3>1. 1 \in 1 .. Len(texto) + 1 /\ i \in 1 - 1 .. Len(texto) /\ q \in i .. Len(texto)
      BY <1>1, <1>3, <1>8
    <3> QED BY <1>3, <3>1, ConcatAdjacentSubSeq
  <2> QED BY <1>11, <2>1, <2>2, <2>3
<1>14. /\ buf' \in Seq(Caracteres \cup {BARRACERO}) /\ Len(buf') = L + 1
       /\ \A k \in q + 1 .. L + 1 : buf'[k] = buf[k]
  <2>1. CASE lector.alloc
    BY <1>4, <1>6, <2>1
  <2>2. CASE ~lector.alloc
    <3>1. buf' = [buf EXCEPT ![i + 1] = BARRACERO]
      BY <1>4, <2>2
    <3>2. i + 1 \in 1 .. L + 1 /\ i + 1 \in 1 .. Len(buf) /\ \A k \in q + 1 .. L + 1 : k # i + 1 /\ k \in 1 .. Len(buf)
      BY <1>3, <1>6, <1>8
    <3> QED BY <1>6, <3>1, <3>2
  <2> QED BY <2>1, <2>2
<1>15. Intacto(lector.posicion)'
  <2>1. /\ Len(texto) = L /\ q + 1 >= p + 1 /\ L + 1 \in q + 1 .. L + 1
        /\ \A k \in q + 1 .. L : k \in p + 1 .. L /\ k \in q + 1 .. L + 1
    BY <1>1, <1>3, <1>8
  <2>2. buf'[L + 1] = BARRACERO /\ \A k \in q + 1 .. L : buf'[k] = texto[k]
    BY <1>6, <1>14, <2>1
  <2>3. /\ texto' \in Seq(Caracteres) /\ buf' \in Seq(Caracteres \cup {BARRACERO})
        /\ Len(buf') = Len(texto') + 1 /\ buf'[Len(texto') + 1] = BARRACERO
        /\ \A k \in lector'.posicion + 1 .. Len(texto') : buf'[k] = texto'[k]
    BY <1>3, <1>12, <1>14, <2>1, <2>2
  <2> QED BY <2>3 DEF Intacto
<1>16. LectorInv'
  <2>1. lector'.posicion \in 0 .. Len(texto') /\ lector'.endPosicion = Len(texto')
    BY <1>1, <1>3, <1>8, <1>12
  <2>2. \A n \in 1 .. Len(campos') : SinSeparador(campos'[n], lector'.separador)
    BY <1>11, <1>12
  <2>3. lector'.alloc => buf' = Append(texto', BARRACERO)
    BY <1>3, <1>4, <1>12
  <2>4. SubSeq(texto', 1, lector'.posicion) = UnionDe(campos', lector'.separador) \o lector'.separador
    BY <1>3, <1>12, <1>13
  <2> QED BY <1>11, <1>12, <1>15, <2>1, <2>2, <2>3, <2>4 DEF LectorInv
<1> QED BY <1>3, <1>11, <1>12, <1>16 DEF BufInv

\* BufInv is inductive.
LEMMA BufInvPaso == BufInv /\ [BufNext]_bufVars => BufInv'
<1> SUFFICES ASSUME BufInv, [BufNext]_bufVars PROVE BufInv'
  OBVIOUS
<1>1. ASSUME NEW separador \in Separadores, NEW alloc \in BOOLEAN, zlrBufReadFor(separador, alloc)
      PROVE  BufInv'
  <2>1. /\ lector = NULL /\ campos = <<>> /\ UNCHANGED <<buf, campos, texto>>
        /\ texto \in Textos /\ buf = Append(texto, BARRACERO)
    BY <1>1 DEF zlrBufReadFor, BufInv
  <2>2. Intacto(0) /\ Len(texto) \in Nat
    BY <2>1, BufEntero
  <2>3. PICK x : x = [posicion |-> 0, endPosicion |-> Len(texto), numLinea |-> -1,
                      separador |-> separador, alloc |-> alloc]
    OBVIOUS
  <2>4. x \in Lectores
    BY <2>2, <2>3 DEF Lectores
  <2>5. /\ x.posicion = 0 /\ x.endPosicion = Len(texto) /\ x.numLinea = -1
        /\ lector' = x
    BY <1>1, <2>3 DEF zlrBufReadFor
  <2>6. Len(campos) = 0
    BY <2>1, EmptySeq
  <2>7. Intacto(0)'
    BY <2>1, <2>2 DEF Intacto
  <2>8. Intacto(lector.posicion)'
    BY <2>5, <2>7 DEF Intacto
  <2>9. LectorInv'
    BY <2>1, <2>2, <2>5, <2>6, <2>8 DEF LectorInv
  <2> QED BY <2>1, <2>4, <2>5, <2>9 DEF BufInv
<1>2. CASE lector # NULL /\ NextFin
  BY <1>2 DEF BufInv, NextFin
<1>3. CASE lector # NULL /\ NextResto
  BY <1>3, RestoPaso
<1>4. CASE lector # NULL /\ NextCampo
  BY <1>4, CampoPaso
<1>5. CASE UNCHANGED bufVars
  BY <1>5 DEF bufVars, BufInv, LectorInv, Intacto
<1> QED BY <1>1, <1>2, <1>3, <1>4, <1>5, Zenon DEF BufNext, zlrBufReadNext

\* It says what FieldsMakeTheText asks for.
LEMMA CamposHacenTexto == BufInv => FieldsMakeTheText
<1> SUFFICES ASSUME BufInv, lector # NULL PROVE FieldsMakeTheText
  BY DEF FieldsMakeTheText
<1> DEFINE sep == lector.separador
           p == lector.posicion
           L == Len(texto)
           resto == SubSeq(texto, p + 1, lector.endPosicion)
<1>1. /\ LectorInv /\ p \in 0 .. L /\ lector.endPosicion = L /\ L \in Nat
      /\ texto \in Seq(Caracteres) /\ campos \in Seq(Seq(Caracteres))
  <2>1. LectorInv /\ campos \in Seq(Seq(Caracteres))
    BY DEF BufInv
  <2>2. p \in 0 .. L /\ lector.endPosicion = L /\ Intacto(p)
    BY <2>1, Zenon DEF LectorInv
  <2>3. texto \in Seq(Caracteres)
    BY <2>2, Zenon DEF Intacto
  <2>4. L \in Nat
    BY <2>3
  <2> QED BY <2>1, <2>2, <2>3, <2>4
<1>2. Unidos(sep) = UnionDe(campos, sep)
  BY Zenon DEF Unidos, UnionDe
<1>3. SubSeq(texto, 1, p) \o resto = texto
  <2>1. 1 \in 1 .. Len(texto) + 1 /\ p \in 1 - 1 .. Len(texto) /\ L \in p .. Len(texto)
    BY <1>1
  <2>2. SubSeq(texto, 1, p) \o SubSeq(texto, p + 1, L) = SubSeq(texto, 1, L)
    BY <1>1, <2>1, ConcatAdjacentSubSeq
  <2>3. SubSeq(texto, 1, L) = texto
    BY <1>1, SubSeqFull
  <2> QED BY <1>1, <2>2, <2>3
<1>4. texto = Unidos(sep) \o resto \/ texto = Unidos(sep) \o sep \o resto
  <2>1. CASE campos = <<>> /\ p = 0
    <3>1. SubSeq(texto, 1, p) = <<>>
      BY <2>1, SubSeqEmpty
    <3>2. Unidos(sep) = <<>>
      <4>1. Len(campos) = 0
        BY <2>1, EmptySeq
      <4>2. Len(campos) \in Nat
        BY <4>1
      <4>3. PICK f : Une(f, campos, sep, Len(campos)) /\ UnionDe(campos, sep) = f[Len(campos)]
        BY <4>2, UnionEs, Zenon
      <4>4. f[0] = <<>>
        BY <4>1, <4>3 DEF Une
      <4> QED BY <1>2, <4>1, <4>3, <4>4
    <3> HIDE DEF resto, p
    <3> QED BY <1>3, <3>1, <3>2
  <2>2. CASE SubSeq(texto, 1, p) = UnionDe(campos, sep) \o sep
    <3> HIDE DEF resto, p, sep
    <3> QED BY <1>2, <1>3, <2>2
  <2>3. CASE p = L /\ texto = UnionDe(campos, sep)
    <3>1. resto = <<>>
      BY <1>1, <2>3, SubSeqEmpty
    <3>2. texto \o <<>> = texto
      BY <1>1, ConcatEmptySeq
    <3> HIDE DEF resto, p, sep
    <3> QED BY <1>2, <2>3, <3>1, <3>2
  <2> QED BY <1>1, <2>1, <2>2, <2>3 DEF LectorInv
<1>5. /\ p <= lector.endPosicion /\ lector.numLinea = Len(campos) - 1
      /\ lector.alloc => buf = Append(texto, BARRACERO)
  BY <1>1 DEF LectorInv
<1>6. \A n \in DOMAIN campos : \A i \in 0 .. Len(campos[n]) - Len(sep) :
        SubSeq(campos[n], i + 1, i + Len(sep)) # sep
  <2>1. DOMAIN campos = 1 .. Len(campos)
    BY <1>1
  <2>2. \A n \in 1 .. Len(campos) : SinSeparador(campos[n], sep)
    BY <1>1 DEF LectorInv
  <2> QED BY <2>1, <2>2, Zenon DEF SinSeparador
<1> QED BY <1>4, <1>5, <1>6 DEF FieldsMakeTheText

-----------------------------------------------------------------------------
\* The functions of zlUtil.lib.

\* The first member of a set of positions.
LEMMA Primera ==
  ASSUME NEW S \in SUBSET Nat, S # {}
  PROVE  Min(S) \in S /\ \A otra \in S : Min(S) <= otra
<1>1. PICK k \in S : \A otra \in S : k <= otra
  BY Lista!Minimo
<1> QED BY <1>1 DEF Min

\* A function whose arguments are positions is a sequence.
LEMMA EsSecuencia ==
  ASSUME NEW S, NEW n \in Nat, NEW f \in [1 .. n -> S]
  PROVE  f \in Seq(S) /\ Len(f) = n
<1>1. f \in Seq(S)
  BY SeqDef
<1>2. Len(f) \in Nat /\ DOMAIN f = 1 .. Len(f)
  BY <1>1, LenProperties
<1>3. 1 .. n = 1 .. Len(f)
  BY <1>2
<1> QED BY <1>1, <1>2, <1>3

\* What three sequences make, one after another.
LEMMA TresTrozos ==
  ASSUME NEW S, NEW a \in Seq(S), NEW b \in Seq(S), NEW c \in Seq(S)
  PROVE  /\ a \o b \o c \in Seq(S) /\ Len(a \o b \o c) = Len(a) + Len(b) + Len(c)
         /\ \A i \in 1 .. Len(a) : (a \o b \o c)[i] = a[i]
         /\ \A i \in Len(a) + 1 .. Len(a) + Len(b) : (a \o b \o c)[i] = b[i - Len(a)]
         /\ \A i \in Len(a) + Len(b) + 1 .. Len(a) + Len(b) + Len(c) :
               (a \o b \o c)[i] = c[i - Len(a) - Len(b)]
<1>1. /\ a \o b \in Seq(S) /\ Len(a \o b) = Len(a) + Len(b)
      /\ \A i \in 1 .. Len(a) + Len(b) :
           (a \o b)[i] = IF i <= Len(a) THEN a[i] ELSE b[i - Len(a)]
  BY ConcatProperties
<1>2. PICK ab \in Seq(S) : ab = a \o b
  BY <1>1
<1>3. /\ ab \o c \in Seq(S) /\ Len(ab \o c) = Len(ab) + Len(c)
      /\ \A i \in 1 .. Len(ab) + Len(c) :
           (ab \o c)[i] = IF i <= Len(ab) THEN ab[i] ELSE c[i - Len(ab)]
  BY ConcatProperties
<1>4. Len(a) \in Nat /\ Len(b) \in Nat /\ Len(c) \in Nat
  OBVIOUS
<1> QED BY <1>1, <1>2, <1>3, <1>4

\* strlen is where the first NUL is, or the end of the buffer.
LEMMA StrlenEs ==
  ASSUME NEW dato \in Seq(Bytes)
  PROVE  /\ strlen(dato) \in 0 .. Len(dato)
         /\ \A i \in 1 .. strlen(dato) : dato[i] # NUL
         /\ strlen(dato) < Len(dato) => dato[strlen(dato) + 1] = NUL
<1> DEFINE todo == Append(dato, NUL)
           S == {i \in 1 .. Len(todo) : todo[i] \in {NUL} \cup {NUL}}
<1>1. /\ Len(todo) = Len(dato) + 1 /\ Len(dato) \in Nat
      /\ todo[Len(dato) + 1] = NUL /\ \A i \in 1 .. Len(dato) : todo[i] = dato[i]
  <2>1. NUL \in Bytes
    BY DEF Bytes
  <2> QED BY <2>1, AppendProperties
<1> HIDE DEF todo
<1>2. S \in SUBSET Nat /\ S # {}
  BY <1>1
<1>3. Min(S) \in S /\ \A otra \in S : Min(S) <= otra
  BY <1>2, Primera
<1>4. strlen(dato) = Min(S) - 1
  <2>1. (IF S # {} THEN Min(S) ELSE 0) = Min(S)
    BY <1>2
  <2> QED BY <2>1 DEF strlen, Busca, SelectInSeq, todo
<1> HIDE DEF S
<1>5. PICK k \in S : k = Min(S)
  BY <1>3
<1>6. k \in 1 .. Len(dato) + 1 /\ todo[k] = NUL /\ \A i \in 1 .. k - 1 : todo[i] # NUL
  <2>1. k \in 1 .. Len(dato) + 1 /\ todo[k] = NUL
    BY <1>1 DEF S
  <2>2. ASSUME NEW i \in 1 .. k - 1, todo[i] = NUL
        PROVE  FALSE
    <3>1. i \in S
      BY <1>1, <2>1, <2>2 DEF S
    <3> QED BY <1>3, <1>5, <2>1, <3>1
  <2> QED BY <2>1, <2>2
<1>7. strlen(dato) = k - 1
  BY <1>4, <1>5
<1>8. (k - 1) + 1 = k /\ k - 1 \in 0 .. Len(dato) /\ \A i \in 1 .. k - 1 : i \in 1 .. Len(dato)
  BY <1>1, <1>6
<1>9. k - 1 < Len(dato) => k \in 1 .. Len(dato)
  BY <1>1, <1>6
<1> QED BY <1>1, <1>6, <1>7, <1>8, <1>9

\* And nowhere else.
LEMMA StrlenUnico ==
  ASSUME NEW dato \in Seq(Bytes), NEW l \in 0 .. Len(dato),
         \A i \in 1 .. l : dato[i] # NUL,
         l < Len(dato) => dato[l + 1] = NUL
  PROVE  strlen(dato) = l
<1>1. PICK k : k = strlen(dato)
  OBVIOUS
<1>2. /\ k \in 0 .. Len(dato) /\ Len(dato) \in Nat
      /\ \A i \in 1 .. k : dato[i] # NUL
      /\ k < Len(dato) => dato[k + 1] = NUL
  BY <1>1, StrlenEs
<1>3. ~(k < l)
  <2>1. SUFFICES ASSUME k < l PROVE FALSE
    OBVIOUS
  <2>2. k < Len(dato) /\ k + 1 \in 1 .. l
    BY <1>2, <2>1
  <2> QED BY <1>2, <2>2
<1>4. ~(l < k)
  <2>1. SUFFICES ASSUME l < k PROVE FALSE
    OBVIOUS
  <2>2. l < Len(dato) /\ l + 1 \in 1 .. k
    BY <1>2, <2>1
  <2> QED BY <1>2, <2>2
<1> QED BY <1>1, <1>2, <1>3, <1>4

\* The string of a buffer.
LEMMA TextoEs ==
  ASSUME NEW dato \in Seq(Bytes)
  PROVE  /\ Texto(dato) \in Seq(Bytes) /\ Len(Texto(dato)) = strlen(dato)
         /\ \A i \in 1 .. strlen(dato) : Texto(dato)[i] = dato[i]
<1>1. PICK k : k = strlen(dato)
  OBVIOUS
<1>2. k \in 0 .. Len(dato) /\ Len(dato) \in Nat
  BY <1>1, StrlenEs
<1>3. \A i \in 1 .. k : dato[i] \in Bytes
  BY <1>2
<1>4. /\ SubSeq(dato, 1, k) \in Seq(Bytes)
      /\ Len(SubSeq(dato, 1, k)) = IF 1 <= k THEN k - 1 + 1 ELSE 0
      /\ \A i \in 1 .. k - 1 + 1 : SubSeq(dato, 1, k)[i] = dato[1 + i - 1]
  <2>1. k \in Int
    BY <1>2
  <2> QED BY <1>3, <2>1, SubSeqProperties
<1>5. k - 1 + 1 = k /\ \A i \in 1 .. k : 1 + i - 1 = i
  BY <1>2
<1>6. Len(SubSeq(dato, 1, k)) = k
  BY <1>2, <1>4
<1>7. Texto(dato) = SubSeq(dato, 1, k)
  BY <1>1 DEF Texto, Hasta
<1> QED BY <1>1, <1>4, <1>5, <1>6, <1>7

\* The spaces a buffer starts with, and those it ends with.
LEMMA InicialesEs ==
  ASSUME NEW dato \in Seq(Bytes)
  PROVE  /\ Iniciales(dato) \in 0 .. Len(dato)
         /\ \A i \in 1 .. Iniciales(dato) : dato[i] = ESPACIO
         /\ Iniciales(dato) < Len(dato) => dato[Iniciales(dato) + 1] # ESPACIO
<1> DEFINE todo == Append(dato, NUL)
           S == {i \in 1 .. Len(todo) : todo[i] # ESPACIO}
<1>1. /\ Len(todo) = Len(dato) + 1 /\ Len(dato) \in Nat
      /\ todo[Len(dato) + 1] = NUL /\ \A i \in 1 .. Len(dato) : todo[i] = dato[i]
  <2>1. NUL \in Bytes
    BY DEF Bytes
  <2> QED BY <2>1, AppendProperties
<1> HIDE DEF todo
<1>2. S \in SUBSET Nat /\ S # {}
  <2>1. NUL # ESPACIO
    BY CadenasAssumption
  <2>2. Len(dato) + 1 \in 1 .. Len(todo)
    BY <1>1
  <2> QED BY <1>1, <2>1, <2>2
<1>3. Min(S) \in S /\ \A otra \in S : Min(S) <= otra
  BY <1>2, Primera
<1>4. Iniciales(dato) = Min(S) - 1
  <2>1. (IF S # {} THEN Min(S) ELSE 0) = Min(S)
    BY <1>2
  <2> QED BY <2>1 DEF Iniciales, SelectInSeq, todo
<1> HIDE DEF S
<1>5. PICK k \in S : k = Min(S)
  BY <1>3
<1>6. k \in 1 .. Len(dato) + 1 /\ todo[k] # ESPACIO /\ \A i \in 1 .. k - 1 : todo[i] = ESPACIO
  <2>1. k \in 1 .. Len(dato) + 1 /\ todo[k] # ESPACIO
    BY <1>1 DEF S
  <2>2. ASSUME NEW i \in 1 .. k - 1, todo[i] # ESPACIO
        PROVE  FALSE
    <3>1. i \in S
      BY <1>1, <2>1, <2>2 DEF S
    <3> QED BY <1>3, <1>5, <2>1, <3>1
  <2> QED BY <2>1, <2>2
<1>7. Iniciales(dato) = k - 1
  BY <1>4, <1>5
<1>8. (k - 1) + 1 = k /\ k - 1 \in 0 .. Len(dato) /\ \A i \in 1 .. k - 1 : i \in 1 .. Len(dato)
  BY <1>1, <1>6
<1>9. k - 1 < Len(dato) => k \in 1 .. Len(dato)
  BY <1>1, <1>6
<1> QED BY <1>1, <1>6, <1>7, <1>8, <1>9

\* And how many it ends with.
LEMMA FinalesEs ==
  ASSUME NEW dato \in Seq(Bytes)
  PROVE  /\ Finales(dato) \in 0 .. Len(dato)
         /\ \A i \in Len(dato) - Finales(dato) + 1 .. Len(dato) : dato[i] = ESPACIO
         /\ Finales(dato) < Len(dato) => dato[Len(dato) - Finales(dato)] # ESPACIO
<1>1. PICK L \in Nat : L = Len(dato)
  OBVIOUS
<1>2. PICK r : r = Reverse(dato)
  OBVIOUS
<1>3. r = [i \in 1 .. L |-> dato[(L - i) + 1]]
  BY <1>1, <1>2 DEF Reverse
<1>4. r \in [1 .. L -> Bytes]
  <2>1. \A i \in 1 .. L : (L - i) + 1 \in 1 .. L
    OBVIOUS
  <2> QED BY <1>1, <1>3, <2>1
<1>5. r \in Seq(Bytes) /\ Len(r) = L
  BY <1>4, EsSecuencia
<1>6. PICK m : m = Iniciales(r)
  OBVIOUS
<1>7. m \in 0 .. L /\ (\A i \in 1 .. m : r[i] = ESPACIO) /\ (m < L => r[m + 1] # ESPACIO)
  BY <1>5, <1>6, InicialesEs
<1>8. Finales(dato) = m
  BY <1>2, <1>6 DEF Finales
<1>9. ASSUME NEW i \in L - m + 1 .. L
      PROVE  dato[i] = ESPACIO
  <2>1. L - i + 1 \in 1 .. m /\ L - i + 1 \in 1 .. L /\ (L - (L - i + 1)) + 1 = i
    BY <1>7
  <2> QED BY <1>3, <1>7, <2>1
<1>10. ASSUME m < L
       PROVE  dato[L - m] # ESPACIO
  <2>1. m + 1 \in 1 .. L /\ (L - (m + 1)) + 1 = L - m
    BY <1>7, <1>10
  <2> QED BY <1>3, <1>7, <1>10, <2>1
<1> QED BY <1>1, <1>7, <1>8, <1>9, <1>10

\* NULs fill what a buffer leaves.
LEMMA CerosSon ==
  ASSUME NEW n \in Nat
  PROVE  Ceros(n) \in Seq(Bytes) /\ Len(Ceros(n)) = n /\ \A i \in 1 .. n : Ceros(n)[i] = NUL
<1>1. NUL \in Bytes
  BY DEF Bytes
<1>2. Ceros(n) \in [1 .. n -> Bytes] /\ \A i \in 1 .. n : Ceros(n)[i] = NUL
  BY <1>1 DEF Ceros
<1> QED BY <1>2, EsSecuencia

\* A piece of a buffer.
LEMMA TrozoEs ==
  ASSUME NEW dato \in Seq(Bytes), NEW d \in 1 .. Len(dato) + 1, NEW h \in d - 1 .. Len(dato)
  PROVE  /\ SubSeq(dato, d, h) \in Seq(Bytes) /\ Len(SubSeq(dato, d, h)) = h - d + 1
         /\ \A i \in 1 .. h - d + 1 : SubSeq(dato, d, h)[i] = dato[d + i - 1]
<1>1. PICK L \in Nat : L = Len(dato)
  OBVIOUS
<1>2. d \in Int /\ h \in Int /\ \A i \in d .. h : dato[i] \in Bytes
  BY <1>1
<1>3. /\ SubSeq(dato, d, h) \in Seq(Bytes)
      /\ Len(SubSeq(dato, d, h)) = IF d <= h THEN h - d + 1 ELSE 0
      /\ \A i \in 1 .. h - d + 1 : SubSeq(dato, d, h)[i] = dato[d + i - 1]
  BY <1>2, SubSeqProperties
<1>4. (IF d <= h THEN h - d + 1 ELSE 0) = h - d + 1
  BY <1>1
<1> QED BY <1>3, <1>4

\* limpiaIniciales takes the spaces at the start away, of the first len bytes...
LEMMA LimpiaInicialesEs ==
  ASSUME NEW dato \in Seq(Bytes), NEW len \in 0 .. Len(dato)
  PROVE  \E n \in 0 .. len :
           LET l == limpiaIniciales(dato, len)
           IN /\ l.len = len - n /\ l.buf \in Seq(Bytes) /\ Len(l.buf) = Len(dato)
              /\ \A i \in 1 .. len - n : l.buf[i] = dato[i + n]
              /\ \A i \in len - n + 1 .. len : l.buf[i] = NUL
              /\ \A i \in len + 1 .. Len(dato) : l.buf[i] = dato[i]
              /\ \A i \in 1 .. n : dato[i] = ESPACIO
              /\ n < len => dato[n + 1] # ESPACIO
<1>1. PICK L \in Nat : L = Len(dato)
  OBVIOUS
<1>2. PICK e : e = Hasta(dato, len)
  OBVIOUS
<1>3. /\ e \in Seq(Bytes) /\ Len(e) = len
      /\ \A i \in 1 .. len : e[i] = dato[i]
  <2>1. 1 \in 1 .. Len(dato) + 1 /\ len \in 1 - 1 .. Len(dato)
    BY <1>1
  <2>2. /\ SubSeq(dato, 1, len) \in Seq(Bytes) /\ Len(SubSeq(dato, 1, len)) = len - 1 + 1
        /\ \A i \in 1 .. len - 1 + 1 : SubSeq(dato, 1, len)[i] = dato[1 + i - 1]
    BY <2>1, TrozoEs
  <2>3. len - 1 + 1 = len /\ \A i \in 1 .. len : 1 + i - 1 = i
    BY <1>1
  <2> QED BY <1>2, <2>2, <2>3 DEF Hasta
<1>4. PICK n : n = Iniciales(e)
  OBVIOUS
<1>5. /\ n \in 0 .. len /\ (\A i \in 1 .. n : e[i] = ESPACIO) /\ (n < len => e[n + 1] # ESPACIO)
  BY <1>3, <1>4, InicialesEs
<1>6. /\ (\A i \in 1 .. n : dato[i] = ESPACIO) /\ (n < len => dato[n + 1] # ESPACIO)
  <2>1. (\A i \in 1 .. n : i \in 1 .. len) /\ (n < len => n + 1 \in 1 .. len)
    BY <1>1, <1>5
  <2> QED BY <1>3, <1>5, <2>1
<1>7. PICK a, b, c : a = SubSeq(dato, n + 1, len) /\ b = Ceros(n) /\ c = Desde(dato, len + 1)
  OBVIOUS
<1>8. /\ a \in Seq(Bytes) /\ Len(a) = len - n
      /\ \A i \in 1 .. len - n : a[i] = dato[i + n]
  <2>1. n + 1 \in 1 .. Len(dato) + 1 /\ len \in (n + 1) - 1 .. Len(dato)
    BY <1>1, <1>5
  <2>2. /\ SubSeq(dato, n + 1, len) \in Seq(Bytes) /\ Len(SubSeq(dato, n + 1, len)) = len - (n + 1) + 1
        /\ \A i \in 1 .. len - (n + 1) + 1 : SubSeq(dato, n + 1, len)[i] = dato[(n + 1) + i - 1]
    BY <2>1, TrozoEs
  <2>3. len - (n + 1) + 1 = len - n /\ \A i \in 1 .. len - n : (n + 1) + i - 1 = i + n
    BY <1>1, <1>5
  <2> QED BY <1>7, <2>2, <2>3
<1>9. b \in Seq(Bytes) /\ Len(b) = n /\ \A i \in 1 .. n : b[i] = NUL
  <2>1. n \in Nat
    BY <1>5
  <2> QED BY <1>7, <2>1, CerosSon
<1>10. /\ c \in Seq(Bytes) /\ Len(c) = L - len
       /\ \A i \in 1 .. L - len : c[i] = dato[len + i]
  <2>1. len + 1 \in 1 .. Len(dato) + 1 /\ L \in (len + 1) - 1 .. Len(dato)
    BY <1>1
  <2>2. /\ SubSeq(dato, len + 1, L) \in Seq(Bytes) /\ Len(SubSeq(dato, len + 1, L)) = L - (len + 1) + 1
        /\ \A i \in 1 .. L - (len + 1) + 1 : SubSeq(dato, len + 1, L)[i] = dato[(len + 1) + i - 1]
    BY <2>1, TrozoEs
  <2>3. L - (len + 1) + 1 = L - len /\ \A i \in 1 .. L - len : (len + 1) + i - 1 = len + i
    BY <1>1
  <2> QED BY <1>1, <1>7, <2>2, <2>3 DEF Desde
<1>11. PICK t : t = a \o b \o c
  OBVIOUS
<1>12. /\ t \in Seq(Bytes) /\ Len(t) = Len(a) + Len(b) + Len(c)
       /\ \A i \in 1 .. Len(a) : t[i] = a[i]
       /\ \A i \in Len(a) + 1 .. Len(a) + Len(b) : t[i] = b[i - Len(a)]
       /\ \A i \in Len(a) + Len(b) + 1 .. Len(a) + Len(b) + Len(c) :
            t[i] = c[i - Len(a) - Len(b)]
  <2>1. a \in Seq(Bytes) /\ b \in Seq(Bytes) /\ c \in Seq(Bytes)
    BY <1>8, <1>9, <1>10
  <2> QED BY <1>11, <2>1, TresTrozos
<1>13. Len(a) + Len(b) = len /\ len + Len(c) = L
  BY <1>1, <1>5, <1>8, <1>9, <1>10
<1>14. /\ Len(t) = L
       /\ \A i \in 1 .. len - n : t[i] = dato[i + n]
  BY <1>8, <1>12, <1>13
<1>15. \A i \in len - n + 1 .. len : t[i] = NUL
  <2>1. ASSUME NEW i \in len - n + 1 .. len
        PROVE  t[i] = NUL
    <3>1. i - Len(a) \in 1 .. n
      BY <1>5, <1>8
    <3>2. t[i] = b[i - Len(a)]
      BY <1>8, <1>12, <1>13
    <3> QED BY <1>9, <3>1, <3>2
  <2> QED BY <2>1
<1>16. \A i \in len + 1 .. L : t[i] = dato[i]
  <2>1. ASSUME NEW i \in len + 1 .. L
        PROVE  t[i] = dato[i]
    <3>1. i - len \in 1 .. L - len /\ len + (i - len) = i /\ i - Len(a) - Len(b) = i - len
      BY <1>1, <1>5, <1>8, <1>9
    <3>2. t[i] = c[i - Len(a) - Len(b)]
      BY <1>12, <1>13
    <3> QED BY <1>10, <3>1, <3>2
  <2> QED BY <2>1
<1>17. PICK l : l = limpiaIniciales(dato, len)
  OBVIOUS
<1>18. l.len = len - n /\ l.buf = t
  <2>1. limpiaIniciales(dato, len)
          = [buf |-> SubSeq(dato, Iniciales(Hasta(dato, len)) + 1, len)
                       \o Ceros(Iniciales(Hasta(dato, len))) \o Desde(dato, len + 1),
             len |-> len - Iniciales(Hasta(dato, len))]
    BY Zenon DEF limpiaIniciales
  <2>2. n = Iniciales(Hasta(dato, len))
    BY <1>2, <1>4, Zenon
  <2>3. l = [buf |-> t, len |-> len - n]
    BY <1>7, <1>11, <1>17, <2>1, <2>2, Zenon
  <2> QED BY <2>3
<1> QED BY <1>1, <1>5, <1>6, <1>12, <1>14, <1>15, <1>16, <1>17, <1>18

\* ...and limpiaFinales those at the end.
LEMMA LimpiaFinalesEs ==
  ASSUME NEW dato \in Seq(Bytes), NEW len \in 0 .. Len(dato)
  PROVE  \E m \in 0 .. len :
           LET l == limpiaFinales(dato, len)
           IN /\ l.len = len - m /\ l.buf \in Seq(Bytes) /\ Len(l.buf) = Len(dato)
              /\ \A i \in 1 .. len - m : l.buf[i] = dato[i]
              /\ \A i \in len - m + 1 .. len : l.buf[i] = NUL
              /\ \A i \in len + 1 .. Len(dato) : l.buf[i] = dato[i]
              /\ \A i \in len - m + 1 .. len : dato[i] = ESPACIO
              /\ m < len => dato[len - m] # ESPACIO
<1>1. PICK L \in Nat : L = Len(dato)
  OBVIOUS
<1>2. ASSUME NEW k \in 0 .. L
      PROVE  /\ Hasta(dato, k) \in Seq(Bytes) /\ Len(Hasta(dato, k)) = k
             /\ \A i \in 1 .. k : Hasta(dato, k)[i] = dato[i]
  <2>1. 1 \in 1 .. Len(dato) + 1 /\ k \in 1 - 1 .. Len(dato)
    BY <1>1
  <2>2. /\ SubSeq(dato, 1, k) \in Seq(Bytes) /\ Len(SubSeq(dato, 1, k)) = k - 1 + 1
        /\ \A i \in 1 .. k - 1 + 1 : SubSeq(dato, 1, k)[i] = dato[1 + i - 1]
    BY <2>1, TrozoEs
  <2>3. k - 1 + 1 = k /\ \A i \in 1 .. k : 1 + i - 1 = i
    BY <1>1
  <2> QED BY <2>2, <2>3 DEF Hasta
<1>3. PICK e : e = Hasta(dato, len)
  OBVIOUS
<1>4. /\ e \in Seq(Bytes) /\ Len(e) = len
      /\ \A i \in 1 .. len : e[i] = dato[i]
  BY <1>1, <1>2, <1>3
<1>5. PICK m : m = Finales(e)
  OBVIOUS
<1>6. /\ m \in 0 .. len /\ (\A i \in len - m + 1 .. len : e[i] = ESPACIO)
      /\ (m < len => e[len - m] # ESPACIO)
  BY <1>4, <1>5, FinalesEs
<1>7. /\ (\A i \in len - m + 1 .. len : dato[i] = ESPACIO) /\ (m < len => dato[len - m] # ESPACIO)
  <2>1. (\A i \in len - m + 1 .. len : i \in 1 .. len) /\ (m < len => len - m \in 1 .. len)
    BY <1>1, <1>6
  <2> QED BY <1>4, <1>6, <2>1
<1>8. PICK a, b, c : a = Hasta(dato, len - m) /\ b = Ceros(m) /\ c = Desde(dato, len + 1)
  OBVIOUS
<1>9. /\ a \in Seq(Bytes) /\ Len(a) = len - m
      /\ \A i \in 1 .. len - m : a[i] = dato[i]
  <2>1. len - m \in 0 .. L
    BY <1>1, <1>6
  <2> QED BY <1>2, <1>8, <2>1
<1>10. b \in Seq(Bytes) /\ Len(b) = m /\ \A i \in 1 .. m : b[i] = NUL
  <2>1. m \in Nat
    BY <1>6
  <2> QED BY <1>8, <2>1, CerosSon
<1>11. /\ c \in Seq(Bytes) /\ Len(c) = L - len
       /\ \A i \in 1 .. L - len : c[i] = dato[len + i]
  <2>1. len + 1 \in 1 .. Len(dato) + 1 /\ L \in (len + 1) - 1 .. Len(dato)
    BY <1>1
  <2>2. /\ SubSeq(dato, len + 1, L) \in Seq(Bytes) /\ Len(SubSeq(dato, len + 1, L)) = L - (len + 1) + 1
        /\ \A i \in 1 .. L - (len + 1) + 1 : SubSeq(dato, len + 1, L)[i] = dato[(len + 1) + i - 1]
    BY <2>1, TrozoEs
  <2>3. L - (len + 1) + 1 = L - len /\ \A i \in 1 .. L - len : (len + 1) + i - 1 = len + i
    BY <1>1
  <2> QED BY <1>1, <1>8, <2>2, <2>3 DEF Desde
<1>12. PICK t : t = a \o b \o c
  OBVIOUS
<1>13. /\ t \in Seq(Bytes) /\ Len(t) = Len(a) + Len(b) + Len(c)
       /\ \A i \in 1 .. Len(a) : t[i] = a[i]
       /\ \A i \in Len(a) + 1 .. Len(a) + Len(b) : t[i] = b[i - Len(a)]
       /\ \A i \in Len(a) + Len(b) + 1 .. Len(a) + Len(b) + Len(c) :
            t[i] = c[i - Len(a) - Len(b)]
  <2>1. a \in Seq(Bytes) /\ b \in Seq(Bytes) /\ c \in Seq(Bytes)
    BY <1>9, <1>10, <1>11
  <2> QED BY <1>12, <2>1, TresTrozos
<1>14. Len(a) + Len(b) = len /\ len + Len(c) = L
  BY <1>1, <1>6, <1>9, <1>10, <1>11
<1>15. Len(t) = L /\ \A i \in 1 .. len - m : t[i] = dato[i]
  BY <1>9, <1>13, <1>14
<1>16. \A i \in len - m + 1 .. len : t[i] = NUL
  <2>1. ASSUME NEW i \in len - m + 1 .. len
        PROVE  t[i] = NUL
    <3>1. i - Len(a) \in 1 .. m
      BY <1>6, <1>9
    <3>2. t[i] = b[i - Len(a)]
      BY <1>9, <1>13, <1>14
    <3> QED BY <1>10, <3>1, <3>2
  <2> QED BY <2>1
<1>17. \A i \in len + 1 .. L : t[i] = dato[i]
  <2>1. ASSUME NEW i \in len + 1 .. L
        PROVE  t[i] = dato[i]
    <3>1. i - len \in 1 .. L - len /\ len + (i - len) = i /\ i - Len(a) - Len(b) = i - len
      BY <1>1, <1>6, <1>9, <1>10
    <3>2. t[i] = c[i - Len(a) - Len(b)]
      BY <1>13, <1>14
    <3> QED BY <1>11, <3>1, <3>2
  <2> QED BY <2>1
<1>18. PICK l : l = limpiaFinales(dato, len)
  OBVIOUS
<1>19. l.len = len - m /\ l.buf = t
  <2>1. limpiaFinales(dato, len)
          = [buf |-> Hasta(dato, len - Finales(Hasta(dato, len)))
                       \o Ceros(Finales(Hasta(dato, len))) \o Desde(dato, len + 1),
             len |-> len - Finales(Hasta(dato, len))]
    BY Zenon DEF limpiaFinales
  <2>2. m = Finales(Hasta(dato, len))
    BY <1>3, <1>5, Zenon
  <2>3. l = [buf |-> t, len |-> len - m]
    BY <1>8, <1>12, <1>18, <2>1, <2>2, Zenon
  <2> QED BY <2>3
<1> QED BY <1>1, <1>6, <1>7, <1>13, <1>15, <1>16, <1>17, <1>18, <1>19

\* What limpiaBuffer leaves of the string in a buffer.
LEMMA LimpiaEs ==
  ASSUME NEW dato \in Seq(Bytes)
  PROVE  LET l == limpiaBuffer(dato, strlen(dato))
             queda == Texto(l.buf)
         IN /\ l.buf \in Seq(Bytes) /\ l.len = Len(queda) /\ Len(l.buf) = Len(dato)
            /\ queda # <<>> => Head(queda) # ESPACIO /\ Last(queda) # ESPACIO
            /\ \E n, m \in 0 .. Len(dato) :
                 Texto(dato) = [i \in 1 .. n |-> ESPACIO] \o queda \o [i \in 1 .. m |-> ESPACIO]
<1>1. PICK L \in Nat : L = Len(dato)
  OBVIOUS
<1>2. PICK len : len = strlen(dato)
  OBVIOUS
<1>3. /\ len \in 0 .. Len(dato) /\ (\A i \in 1 .. len : dato[i] # NUL)
      /\ (len < L => dato[len + 1] = NUL)
  BY <1>1, <1>2, StrlenEs
<1>4. PICK a : a = limpiaIniciales(dato, len)
  OBVIOUS
<1>5. PICK n \in 0 .. len :
           /\ a.len = len - n /\ a.buf \in Seq(Bytes) /\ Len(a.buf) = L
           /\ \A i \in 1 .. len - n : a.buf[i] = dato[i + n]
           /\ \A i \in len - n + 1 .. len : a.buf[i] = NUL
           /\ \A i \in len + 1 .. L : a.buf[i] = dato[i]
           /\ \A i \in 1 .. n : dato[i] = ESPACIO
           /\ n < len => dato[n + 1] # ESPACIO
  <2>1. len \in 0 .. Len(dato)
    BY <1>3
  <2>2. \E n \in 0 .. len :
           LET l == limpiaIniciales(dato, len)
           IN /\ l.len = len - n /\ l.buf \in Seq(Bytes) /\ Len(l.buf) = Len(dato)
              /\ \A i \in 1 .. len - n : l.buf[i] = dato[i + n]
              /\ \A i \in len - n + 1 .. len : l.buf[i] = NUL
              /\ \A i \in len + 1 .. Len(dato) : l.buf[i] = dato[i]
              /\ \A i \in 1 .. n : dato[i] = ESPACIO
              /\ n < len => dato[n + 1] # ESPACIO
    BY <2>1, LimpiaInicialesEs, Zenon
  <2> QED BY <1>1, <1>4, <2>2, Zenon
<1>6. PICK p, corto : p = a.buf /\ corto = a.len
  OBVIOUS
<1>7. p \in Seq(Bytes) /\ Len(p) = L /\ corto = len - n /\ corto \in 0 .. Len(p)
  BY <1>1, <1>3, <1>5, <1>6
<1>8. PICK l : l = limpiaFinales(p, corto)
  OBVIOUS
<1>9. PICK m \in 0 .. corto :
           /\ l.len = corto - m /\ l.buf \in Seq(Bytes) /\ Len(l.buf) = L
           /\ \A i \in 1 .. corto - m : l.buf[i] = p[i]
           /\ \A i \in corto - m + 1 .. corto : l.buf[i] = NUL
           /\ \A i \in corto + 1 .. L : l.buf[i] = p[i]
           /\ \A i \in corto - m + 1 .. corto : p[i] = ESPACIO
           /\ m < corto => p[corto - m] # ESPACIO
  <2>1. corto \in 0 .. Len(p) /\ p \in Seq(Bytes)
    BY <1>7
  <2>2. \E m \in 0 .. corto :
           LET l0 == limpiaFinales(p, corto)
           IN /\ l0.len = corto - m /\ l0.buf \in Seq(Bytes) /\ Len(l0.buf) = Len(p)
              /\ \A i \in 1 .. corto - m : l0.buf[i] = p[i]
              /\ \A i \in corto - m + 1 .. corto : l0.buf[i] = NUL
              /\ \A i \in corto + 1 .. Len(p) : l0.buf[i] = p[i]
              /\ \A i \in corto - m + 1 .. corto : p[i] = ESPACIO
              /\ m < corto => p[corto - m] # ESPACIO
    BY <2>1, LimpiaFinalesEs, Zenon
  <2>3. Len(p) = L
    BY <1>7
  <2> QED BY <1>8, <2>2, <2>3, Zenon
<1>10. l = limpiaBuffer(dato, strlen(dato))
  BY <1>2, <1>4, <1>6, <1>8, Zenon DEF limpiaBuffer
<1>11. PICK q : q = l.buf
  OBVIOUS
<1>12. PICK k \in Nat : k = corto - m
  BY <1>7, <1>9
<1>13. k + m + n = len /\ k \in 0 .. L /\ n \in Nat /\ m \in Nat /\ len \in Nat /\ len <= L
  BY <1>1, <1>3, <1>7, <1>9, <1>12
<1>14. /\ q \in Seq(Bytes) /\ Len(q) = L
       /\ \A i \in 1 .. k : q[i] = dato[i + n]
       /\ \A i \in k + 1 .. len : q[i] = NUL
       /\ \A i \in len + 1 .. L : q[i] = dato[i]
  <2>1. q \in Seq(Bytes) /\ Len(q) = L
    BY <1>9, <1>11
  <2>2. ASSUME NEW i \in 1 .. k
        PROVE  q[i] = dato[i + n]
    <3>1. i \in 1 .. corto - m /\ i \in 1 .. len - n
      BY <1>7, <1>12, <1>13
    <3> QED BY <1>5, <1>6, <1>9, <1>11, <3>1
  <2>3. ASSUME NEW i \in k + 1 .. len
        PROVE  q[i] = NUL
    <3>1. CASE i <= corto
      <4>1. i \in corto - m + 1 .. corto
        BY <1>7, <1>12, <1>13, <3>1
      <4> QED BY <1>9, <1>11, <4>1
    <3>2. CASE i > corto
      <4>1. i \in corto + 1 .. L /\ i \in len - n + 1 .. len
        BY <1>7, <1>12, <1>13, <3>2
      <4> QED BY <1>5, <1>6, <1>9, <1>11, <4>1
    <3>3. corto \in Int
      BY <1>7
    <3> QED BY <3>1, <3>2, <3>3
  <2>4. ASSUME NEW i \in len + 1 .. L
        PROVE  q[i] = dato[i]
    <3>1. i \in corto + 1 .. L
      BY <1>7, <1>13
    <3> QED BY <1>5, <1>6, <1>9, <1>11, <3>1
  <2> QED BY <2>1, <2>2, <2>3, <2>4
<1>15. strlen(q) = k
  <2>1. ASSUME NEW i \in 1 .. k PROVE q[i] # NUL
    <3>1. i + n \in 1 .. len
      BY <1>13
    <3> QED BY <1>3, <1>14, <3>1
  <2>2. ASSUME k < L PROVE q[k + 1] = NUL
    <3>1. CASE k < len
      <4>1. k + 1 \in k + 1 .. len
        BY <1>13, <3>1
      <4> QED BY <1>14, <4>1
    <3>2. CASE k = len
      <4>1. len + 1 \in len + 1 .. L
        BY <1>13, <2>2, <3>2
      <4> QED BY <1>3, <1>14, <2>2, <3>2, <4>1
    <3> QED BY <1>13, <3>1, <3>2
  <2>3. k \in 0 .. Len(q)
    BY <1>13, <1>14
  <2> QED BY <1>14, <2>1, <2>2, <2>3, StrlenUnico
<1>16. PICK queda : queda = Texto(q)
  OBVIOUS
<1>17. /\ queda \in Seq(Bytes) /\ Len(queda) = k
       /\ \A i \in 1 .. k : queda[i] = dato[i + n]
  BY <1>14, <1>15, <1>16, TextoEs
<1>18. queda # <<>> => Head(queda) # ESPACIO /\ Last(queda) # ESPACIO
  <2>1. SUFFICES ASSUME queda # <<>> PROVE Head(queda) # ESPACIO /\ Last(queda) # ESPACIO
    OBVIOUS
  <2>2. k # 0
    BY <1>17, <2>1, EmptySeq
  <2>3. 1 \in 1 .. k /\ k \in 1 .. k /\ k + n = n + k /\ n < len /\ m < corto
    BY <1>7, <1>12, <1>13, <2>2
  <2>4. Head(queda) = queda[1] /\ Last(queda) = queda[k]
    BY <1>17, <2>1 DEF Last
  <2>5. queda[1] = dato[n + 1]
    <3>1. 1 + n = n + 1
      BY <1>13
    <3> QED BY <1>17, <2>3, <3>1
  <2>6. queda[k] = p[corto - m]
    <3>1. k \in 1 .. len - n
      BY <1>13, <2>3
    <3>2. a.buf[k] = dato[k + n]
      BY <1>5, <3>1
    <3> QED BY <1>6, <1>12, <1>17, <2>3, <3>2
  <2> QED BY <1>5, <1>9, <2>3, <2>4, <2>5, <2>6
<1>19. PICK b, c : b = [i \in 1 .. n |-> ESPACIO] /\ c = [i \in 1 .. m |-> ESPACIO]
  OBVIOUS
<1>20. /\ b \in Seq(Bytes) /\ Len(b) = n /\ c \in Seq(Bytes) /\ Len(c) = m
       /\ (\A i \in 1 .. n : b[i] = ESPACIO) /\ (\A i \in 1 .. m : c[i] = ESPACIO)
  <2>1. ESPACIO \in Bytes
    BY DEF Bytes
  <2>2. b \in [1 .. n -> Bytes] /\ c \in [1 .. m -> Bytes]
    BY <1>19, <2>1
  <2> QED BY <1>13, <1>19, <2>2, EsSecuencia
<1>21. PICK junto : junto = b \o queda \o c
  OBVIOUS
<1>22. /\ junto \in Seq(Bytes) /\ Len(junto) = Len(b) + Len(queda) + Len(c)
       /\ \A i \in 1 .. Len(b) : junto[i] = b[i]
       /\ \A i \in Len(b) + 1 .. Len(b) + Len(queda) : junto[i] = queda[i - Len(b)]
       /\ \A i \in Len(b) + Len(queda) + 1 .. Len(b) + Len(queda) + Len(c) :
             junto[i] = c[i - Len(b) - Len(queda)]
  <2>1. b \in Seq(Bytes) /\ queda \in Seq(Bytes) /\ c \in Seq(Bytes)
    BY <1>17, <1>20
  <2> QED BY <1>21, <2>1, TresTrozos
<1>23. Texto(dato) = junto
  <2>1. /\ Texto(dato) \in Seq(Bytes) /\ Len(Texto(dato)) = len
        /\ \A i \in 1 .. len : Texto(dato)[i] = dato[i]
    BY <1>2, TextoEs
  <2>2. Len(junto) = len
    BY <1>13, <1>17, <1>20, <1>22
  <2>3. ASSUME NEW i \in 1 .. len
        PROVE  junto[i] = dato[i]
    <3>1. CASE i <= n
      <4>1. i \in 1 .. n
        BY <3>1
      <4> QED BY <1>5, <1>20, <1>22, <4>1
    <3>2. CASE n < i /\ i <= n + k
      <4>1. i - n \in 1 .. k /\ (i - n) + n = i /\ i \in n + 1 .. n + k
        BY <1>13, <3>2
      <4>2. junto[i] = queda[i - n]
        BY <1>17, <1>20, <1>22, <4>1
      <4> QED BY <1>17, <4>1, <4>2
    <3>3. CASE n + k < i
      <4>1. i - n - k \in 1 .. m /\ i \in n + k + 1 .. n + k + m
        BY <1>13, <3>3
      <4>2. junto[i] = ESPACIO
        BY <1>17, <1>20, <1>22, <4>1
      <4>3. i - n \in corto - m + 1 .. corto /\ i - n \in 1 .. len - n /\ (i - n) + n = i
        BY <1>7, <1>12, <1>13, <3>3
      <4>4. p[i - n] = ESPACIO
        BY <1>9, <4>3
      <4>5. a.buf[i - n] = dato[(i - n) + n]
        BY <1>5, <4>3
      <4> QED BY <1>6, <4>2, <4>3, <4>4, <4>5
    <3> QED BY <1>13, <3>1, <3>2, <3>3
  <2>4. \A i \in 1 .. Len(junto) : junto[i] = Texto(dato)[i]
    BY <2>1, <2>2, <2>3
  <2>5. Len(junto) = Len(Texto(dato)) /\ junto \in Seq(Bytes)
    BY <1>22, <2>1, <2>2
  <2>6. junto = Texto(dato)
    BY <2>1, <2>4, <2>5, SeqEqual
  <2> QED BY <2>6
<1>24. n \in 0 .. Len(dato) /\ m \in 0 .. Len(dato)
  BY <1>1, <1>13
<1>25. l.len = Len(queda)
  BY <1>9, <1>12, <1>17
<1>26. \E i, j \in 0 .. Len(dato) :
         Texto(dato) = [x \in 1 .. i |-> ESPACIO] \o queda \o [x \in 1 .. j |-> ESPACIO]
  BY <1>19, <1>21, <1>23, <1>24, Zenon
<1> QED BY <1>1, <1>10, <1>11, <1>14, <1>16, <1>18, <1>25, <1>26

\* quita0d0a puts a NUL at most.
LEMMA QuitaSaltoEs ==
  ASSUME NEW dato \in Seq(Bytes)
  PROVE  quita0d0a(dato).buf \in Seq(Bytes)
<1>1. NUL \in Bytes
  BY DEF Bytes
<1>2. PICK k : k = Busca(dato, {SALTO})
  OBVIOUS
<1>3. [dato EXCEPT ![k] = NUL] \in Seq(Bytes)
  <2>1. dato \in [1 .. Len(dato) -> Bytes] /\ Len(dato) \in Nat
    OBVIOUS
  <2>2. [dato EXCEPT ![k] = NUL] \in [1 .. Len(dato) -> Bytes]
    BY <1>1, <2>1
  <2> QED BY <2>1, <2>2, EsSecuencia
<1> QED BY <1>2, <1>3 DEF quita0d0a

\* A string padded with zeros.
LEMMA RellenoEs ==
  ASSUME NEW campo \in Seq(Bytes)
  PROVE  LET p == padCerosIzquierda(campo, Largo)
         IN /\ Len(p) = IF Len(campo) > Largo THEN Len(campo) ELSE Largo
            /\ IsSuffix(campo, p)
            /\ \A i \in 1 .. Len(p) - Len(campo) : p[i] = CERO
<1>1. PICK L \in Nat, T \in Nat : L = Len(campo) /\ T = Largo
  BY FuncionesAssumption
<1>2. PICK p : p = padCerosIzquierda(campo, Largo)
  OBVIOUS
<1>3. PICK ceros : ceros = [i \in 1 .. T - L |-> CERO]
  OBVIOUS
<1>4. PICK h \in Nat : h = IF L >= T THEN 0 ELSE T - L
  <2>1. (IF L >= T THEN 0 ELSE T - L) \in Nat
    OBVIOUS
  <2> QED BY <2>1
<1>5. /\ p \in Seq(Bytes) /\ Len(p) = h + L /\ (\A i \in 1 .. h : p[i] = CERO)
      /\ \A i \in 1 .. L : p[h + i] = campo[i]
  <2>1. CASE L >= T
    <3>1. p = campo /\ h = 0
      BY <1>1, <1>2, <1>4, <2>1 DEF padCerosIzquierda
    <3>2. \A i \in 1 .. L : h + i = i
      BY <3>1
    <3> QED BY <1>1, <3>1, <3>2
  <2>2. CASE ~(L >= T)
    <3>1. h = T - L
      BY <1>4, <2>2
    <3>2. CERO \in Bytes
      BY DEF Bytes
    <3>3. ceros \in [1 .. h -> Bytes] /\ \A i \in 1 .. h : ceros[i] = CERO
      BY <1>3, <3>1, <3>2
    <3>4. ceros \in Seq(Bytes) /\ Len(ceros) = h
      BY <3>3, EsSecuencia
    <3>5. p = ceros \o campo
      BY <1>1, <1>2, <1>3, <2>2 DEF padCerosIzquierda
    <3>6. /\ ceros \o campo \in Seq(Bytes) /\ Len(ceros \o campo) = Len(ceros) + Len(campo)
          /\ \A i \in 1 .. Len(ceros) + Len(campo) : (ceros \o campo)[i] =
               IF i <= Len(ceros) THEN ceros[i] ELSE campo[i - Len(ceros)]
      BY <3>4, ConcatProperties
    <3>7. ASSUME NEW i \in 1 .. L
          PROVE  p[h + i] = campo[i]
      <4>1. h + i \in 1 .. h + L /\ ~(h + i <= h) /\ (h + i) - h = i
        OBVIOUS
      <4> QED BY <1>1, <3>4, <3>5, <3>6, <4>1
    <3>8. ASSUME NEW i \in 1 .. h
          PROVE  p[i] = CERO
      <4>1. i \in 1 .. h + L /\ i <= h
        BY <1>1
      <4> QED BY <1>1, <3>3, <3>4, <3>5, <3>6, <4>1
    <3> QED BY <1>1, <3>4, <3>5, <3>6, <3>7, <3>8
  <2> QED BY <2>1, <2>2
<1>6. Len(p) = (IF Len(campo) > Largo THEN Len(campo) ELSE Largo) /\ Len(p) - Len(campo) = h
  BY <1>1, <1>4, <1>5
<1>7. IsSuffix(campo, p)
  <2>1. PICK a, b : a = Reverse(campo) /\ b = Reverse(p)
    OBVIOUS
  <2>2. a = [i \in 1 .. L |-> campo[(L - i) + 1]] /\ b = [i \in 1 .. h + L |-> p[((h + L) - i) + 1]]
    BY <1>1, <1>5, <2>1 DEF Reverse
  <2>3. a \in [1 .. L -> Bytes]
    <3>1. \A i \in 1 .. L : (L - i) + 1 \in 1 .. L
      OBVIOUS
    <3> QED BY <1>1, <2>2, <3>1
  <2>4. b \in [1 .. h + L -> Bytes]
    <3>1. \A i \in 1 .. h + L : ((h + L) - i) + 1 \in 1 .. h + L
      OBVIOUS
    <3> QED BY <1>5, <2>2, <3>1
  <2>5. Len(a) = L /\ Len(b) = h + L
    BY <2>3, <2>4, EsSecuencia
  <2>6. ASSUME NEW i \in 1 .. L
        PROVE  b[i] = a[i] /\ a[i] \in Bytes
    <3>1. i \in 1 .. h + L /\ ((h + L) - i) + 1 = h + ((L - i) + 1) /\ (L - i) + 1 \in 1 .. L
      OBVIOUS
    <3>2. p[h + ((L - i) + 1)] = campo[(L - i) + 1]
      BY <1>5, <3>1
    <3> QED BY <2>2, <2>3, <3>1, <3>2
  <2>7. SubSeq(b, 1, L) = SubSeq(a, 1, L)
    BY <2>6, MismoTrozo
  <2>8. L <= h + L
    OBVIOUS
  <2> QED BY <2>1, <2>5, <2>7, <2>8 DEF IsSuffix, IsPrefix
<1> QED BY <1>2, <1>5, <1>6, <1>7

\* What fgets reads from byte i ends at it or after it.
LEMMA FgetsAvanza ==
  ASSUME NEW fichero, Len(fichero) \in Nat, NEW i \in 1 .. Len(fichero)
  PROVE  FinFgets(fichero, i) \in i .. Len(fichero)
<1> DEFINE tope == IF i + TamBuf - 2 < Len(fichero) THEN i + TamBuf - 2 ELSE Len(fichero)
           saltos == {k \in i .. tope : fichero[k] = SALTO}
           elPrimero == CHOOSE k \in saltos : \A otro \in saltos : k <= otro
<1>1. TamBuf \in Nat /\ TamBuf >= 2
  BY TamBufAssumption
<1>2. tope \in i .. Len(fichero) /\ tope \in Int
  BY <1>1
<1> HIDE DEF tope
<1>3. saltos # {} => elPrimero \in saltos
  <2>1. SUFFICES ASSUME saltos # {} PROVE elPrimero \in saltos
    OBVIOUS
  <2>2. saltos \in SUBSET Nat
    BY <1>2
  <2>3. \E k \in saltos : \A otro \in saltos : k <= otro
    BY <2>1, <2>2, Lista!Minimo
  <2> HIDE DEF saltos
  <2> QED BY <2>3
<1>4. FinFgets(fichero, i) = IF saltos = {} THEN tope ELSE elPrimero
  BY Zenon DEF FinFgets, tope
<1>5. CASE saltos = {}
  BY <1>2, <1>4, <1>5
<1>6. CASE saltos # {}
  <2>1. elPrimero \in i .. tope
    BY <1>3, <1>6
  <2> HIDE DEF elPrimero, saltos
  <2> QED BY <1>2, <1>4, <1>6, <2>1
<1> QED BY <1>5, <1>6

\* f answers what is read from each byte on: the recursive definition in zluFile2Buf.
Leyendo(f, fichero) ==
  f = [i \in 1 .. Len(fichero) + 1 |->
         IF i > Len(fichero) THEN <<>>
         ELSE LET ultimo == FinFgets(fichero, i)
              IN Texto(SubSeq(fichero, i, ultimo)) \o f[ultimo + 1]]

\* A file without NULs is read whole.
THEOREM FicheroEntero ==
  ASSUME NEW fichero \in Seq(Bytes), \A i \in 1 .. Len(fichero) : fichero[i] # NUL
  PROVE  zluFile2Buf(fichero) = fichero
<1>1. PICK L \in Nat : L = Len(fichero)
  OBVIOUS
<1>2. ASSUME NEW i \in 1 .. L
      PROVE  /\ FinFgets(fichero, i) \in i .. L
             /\ Texto(SubSeq(fichero, i, FinFgets(fichero, i))) \o SubSeq(fichero, FinFgets(fichero, i) + 1, L)
                  = SubSeq(fichero, i, L)
  <2>1. PICK ultimo : ultimo = FinFgets(fichero, i)
    OBVIOUS
  <2>2. ultimo \in i .. L
    BY <1>1, <2>1, FgetsAvanza
  <2>3. PICK s : s = SubSeq(fichero, i, ultimo)
    OBVIOUS
  <2>4. /\ s \in Seq(Bytes) /\ Len(s) = ultimo - i + 1
        /\ \A j \in 1 .. ultimo - i + 1 : s[j] = fichero[i + j - 1]
    <3>1. i \in 1 .. Len(fichero) + 1 /\ ultimo \in i - 1 .. Len(fichero)
      BY <1>1, <2>2
    <3> QED BY <2>3, <3>1, TrozoEs
  <2>5. strlen(s) = Len(s)
    <3>1. ASSUME NEW j \in 1 .. Len(s)
          PROVE  s[j] # NUL
      <4>1. j \in 1 .. ultimo - i + 1 /\ i + j - 1 \in 1 .. L
        BY <2>2, <2>4
      <4> QED BY <1>1, <2>4, <4>1
    <3>2. Len(s) \in 0 .. Len(s) /\ ~(Len(s) < Len(s))
      BY <2>2, <2>4
    <3> QED BY <2>4, <3>1, <3>2, StrlenUnico
  <2>6. Texto(s) = s
    <3>1. /\ Texto(s) \in Seq(Bytes) /\ Len(Texto(s)) = Len(s)
          /\ \A j \in 1 .. Len(s) : Texto(s)[j] = s[j]
      BY <2>4, <2>5, TextoEs
    <3> QED BY <2>4, <3>1, SeqEqual
  <2>7. SubSeq(fichero, i, ultimo) \o SubSeq(fichero, ultimo + 1, L) = SubSeq(fichero, i, L)
    <3>1. /\ i \in 1 .. Len(fichero) + 1 /\ ultimo \in i - 1 .. Len(fichero)
          /\ L \in ultimo .. Len(fichero)
      BY <1>1, <2>2
    <3> QED BY <3>1, ConcatAdjacentSubSeq
  <2> QED BY <2>1, <2>2, <2>3, <2>6, <2>7
<1>3. SubSeq(fichero, L + 1, L) = <<>>
  BY SubSeqEmpty
<1>4. \E f : Leyendo(f, fichero)
  <2> DEFINE g == [i \in 1 .. Len(fichero) + 1 |-> SubSeq(fichero, i, L)]
             V(i) == IF i > Len(fichero) THEN <<>>
                     ELSE LET ultimo == FinFgets(fichero, i)
                          IN Texto(SubSeq(fichero, i, ultimo)) \o g[ultimo + 1]
  <2>1. ASSUME NEW i \in 1 .. Len(fichero) + 1
        PROVE  SubSeq(fichero, i, L) = V(i)
    <3>1. CASE i = L + 1
      <4>1. V(i) = <<>>
        BY <1>1, <3>1
      <4> QED BY <1>3, <3>1, <4>1
    <3>2. CASE i # L + 1
      <4>1. i \in 1 .. L /\ ~(i > Len(fichero))
        BY <1>1, <3>2
      <4>2. FinFgets(fichero, i) + 1 \in 1 .. Len(fichero) + 1
        <5>1. PICK u \in i .. L : u = FinFgets(fichero, i)
          BY <1>2, <4>1
        <5> QED BY <1>1, <4>1, <5>1
      <4>3. g[FinFgets(fichero, i) + 1] = SubSeq(fichero, FinFgets(fichero, i) + 1, L)
        BY <4>2
      <4>4. V(i) = Texto(SubSeq(fichero, i, FinFgets(fichero, i))) \o g[FinFgets(fichero, i) + 1]
        <5> HIDE DEF g
        <5> QED BY <4>1, Zenon
      <4> HIDE DEF g, V
      <4> QED BY <1>2, <4>1, <4>3, <4>4
    <3> QED BY <3>1, <3>2
  <2>2. g = [i \in 1 .. Len(fichero) + 1 |-> V(i)]
    <3> HIDE DEF V
    <3> QED BY <2>1
  <2>3. Leyendo(g, fichero)
    BY <2>2, Zenon DEF Leyendo
  <2> QED BY <2>3, Zenon
<1>5. \E f : Leyendo(f, fichero) /\ zluFile2Buf(fichero) = f[1]
  <2> DEFINE f == CHOOSE h : h = [i \in 1 .. Len(fichero) + 1 |->
                    IF i > Len(fichero) THEN <<>>
                    ELSE LET ultimo == FinFgets(fichero, i)
                         IN Texto(SubSeq(fichero, i, ultimo)) \o h[ultimo + 1]]
  <2>1. f = [i \in 1 .. Len(fichero) + 1 |->
               IF i > Len(fichero) THEN <<>>
               ELSE LET ultimo == FinFgets(fichero, i)
                    IN Texto(SubSeq(fichero, i, ultimo)) \o f[ultimo + 1]]
    BY <1>4, Zenon DEF Leyendo
  <2>2. Leyendo(f, fichero)
    BY <2>1, Zenon DEF Leyendo
  <2>3. zluFile2Buf(fichero) = f[1]
    BY Zenon DEF zluFile2Buf
  <2> QED BY <2>2, <2>3, Zenon
<1>6. PICK f : Leyendo(f, fichero) /\ zluFile2Buf(fichero) = f[1]
  BY <1>5
<1>7. /\ f[L + 1] = <<>>
      /\ \A i \in 1 .. L :
           f[i] = Texto(SubSeq(fichero, i, FinFgets(fichero, i))) \o f[FinFgets(fichero, i) + 1]
  <2>1. L + 1 \in 1 .. Len(fichero) + 1 /\ L + 1 > Len(fichero)
    BY <1>1
  <2>2. \A i \in 1 .. L : i \in 1 .. Len(fichero) + 1 /\ ~(i > Len(fichero))
    BY <1>1
  <2> QED BY <1>6, <2>1, <2>2 DEF Leyendo
<1> DEFINE malos == {k \in 0 .. L : f[L + 1 - k] # SubSeq(fichero, L + 1 - k, L)}
<1>8. malos = {}
  <2>1. SUFFICES ASSUME malos # {} PROVE FALSE
    OBVIOUS
  <2>2. PICK k \in malos : \A otro \in malos : k <= otro
    <3>1. malos \in SUBSET Nat
      OBVIOUS
    <3> QED BY <2>1, <3>1, Lista!Minimo
  <2>3. k \in 0 .. L /\ f[L + 1 - k] # SubSeq(fichero, L + 1 - k, L)
    OBVIOUS
  <2>4. CASE k = 0
    <3>1. L + 1 - k = L + 1
      BY <2>4
    <3> QED BY <1>3, <1>7, <2>3, <3>1
  <2>5. CASE k # 0
    <3>1. PICK i \in 1 .. L : i = L + 1 - k
      BY <2>3, <2>5
    <3>2. PICK ultimo \in i .. L : ultimo = FinFgets(fichero, i)
      BY <1>2
    <3>3. L - ultimo \in 0 .. L /\ L - ultimo < k /\ L + 1 - (L - ultimo) = ultimo + 1 /\ k \in Int
      BY <2>3, <3>1
    <3>4. L - ultimo \notin malos
      <4>1. SUFFICES ASSUME L - ultimo \in malos PROVE FALSE
        OBVIOUS
      <4> HIDE DEF malos
      <4>2. k <= L - ultimo
        BY <2>2, <4>1
      <4> QED BY <3>3, <4>2
    <3>5. f[ultimo + 1] = SubSeq(fichero, ultimo + 1, L)
      BY <3>3, <3>4
    <3>6. f[i] = SubSeq(fichero, i, L)
      BY <1>2, <1>7, <3>2, <3>5
    <3> QED BY <2>3, <3>1, <3>6
  <2> QED BY <2>4, <2>5
<1>9. f[1] = SubSeq(fichero, 1, L)
  <2>1. L \in 0 .. L /\ L + 1 - L = 1
    OBVIOUS
  <2> QED BY <1>8, <2>1
<1>10. SubSeq(fichero, 1, L) = fichero
  BY <1>1, SubSeqFull
<1> QED BY <1>6, <1>9, <1>10

\* A recursion that goes through a sequence from the left, whatever its length.
LEMMA HayLectura ==
  ASSUME NEW S, NEW base \in S, NEW N \in Nat, NEW avanza \in [1 .. N -> [S -> S]]
  PROVE  \E f \in [0 .. N -> S] :
           f[0] = base /\ \A n \in 1 .. N : f[n] = avanza[n][f[n - 1]]
<1> DEFINE Hasta0(m) == \E f \in [0 .. m -> S] :
                          f[0] = base /\ \A n \in 1 .. m : f[n] = avanza[n][f[n - 1]]
           malos == {m \in 0 .. N : ~Hasta0(m)}
<1>1. SUFFICES ASSUME malos # {} PROVE FALSE
  <2>1. N \in 0 .. N
    OBVIOUS
  <2>2. malos = {} => Hasta0(N)
    BY <2>1
  <2> QED BY <2>2
<1>2. PICK m \in malos : \A otro \in malos : m <= otro
  <2>1. malos \in SUBSET Nat
    OBVIOUS
  <2> QED BY <1>1, <2>1, Lista!Minimo
<1>3. m \in 0 .. N /\ ~Hasta0(m)
  OBVIOUS
<1>4. CASE m = 0
  <2> DEFINE f == [n \in 0 .. 0 |-> base]
  <2>1. f \in [0 .. 0 -> S] /\ f[0] = base /\ \A n \in 1 .. 0 : f[n] = avanza[n][f[n - 1]]
    OBVIOUS
  <2> HIDE DEF f
  <2> QED BY <1>3, <1>4, <2>1
<1>5. CASE m # 0
  <2>1. m - 1 \in 0 .. N /\ m \in 1 .. N
    BY <1>3, <1>5
  <2>2. Hasta0(m - 1)
    <3>1. SUFFICES ASSUME m - 1 \in malos PROVE FALSE
      BY <2>1
    <3> HIDE DEF malos
    <3>2. m <= m - 1
      BY <1>2, <3>1
    <3> QED BY <1>3, <3>2
  <2>3. PICK g \in [0 .. m - 1 -> S] :
             g[0] = base /\ \A n \in 1 .. m - 1 : g[n] = avanza[n][g[n - 1]]
    BY <2>2
  <2>4. m - 1 \in 0 .. m - 1
    BY <2>1
  <2>5. PICK v \in S : v = avanza[m][g[m - 1]]
    <3>1. g[m - 1] \in S /\ avanza[m] \in [S -> S]
      BY <2>1, <2>4
    <3> QED BY <3>1
  <2> DEFINE f == [n \in 0 .. m |-> IF n = m THEN v ELSE g[n]]
  <2>6. f \in [0 .. m -> S] /\ f[m] = v /\ \A n \in 0 .. m - 1 : f[n] = g[n]
    <3>1. ASSUME NEW n \in 0 .. m PROVE n = m \/ n \in 0 .. m - 1
      BY <2>1
    <3>2. \A n \in 0 .. m - 1 : n \in 0 .. m /\ n # m
      BY <2>1
    <3>3. m \in 0 .. m
      BY <2>1
    <3> QED BY <3>1, <3>2, <3>3
  <2> HIDE DEF f
  <2>7. f[0] = base
    <3>1. 0 \in 0 .. m - 1
      BY <2>1
    <3> QED BY <2>3, <2>6, <3>1
  <2>8. ASSUME NEW n \in 1 .. m
        PROVE  f[n] = avanza[n][f[n - 1]]
    <3>1. n - 1 \in 0 .. m - 1
      BY <2>1
    <3>2. f[n - 1] = g[n - 1]
      BY <2>6, <3>1
    <3>3. CASE n = m
      BY <2>5, <2>6, <3>2, <3>3
    <3>4. CASE n # m
      <4>1. n \in 1 .. m - 1 /\ n \in 0 .. m - 1
        BY <2>1, <3>4
      <4> QED BY <2>3, <2>6, <3>2, <4>1
    <3> QED BY <3>3, <3>4
  <2>9. Hasta0(m)
    BY <2>6, <2>7, <2>8
  <2> HIDE DEF Hasta0
  <2> QED BY <1>3, <2>9
<1> QED BY <1>4, <1>5

\* The value of a group of digits, digit by digit.
LEMMA ValorEs ==
  ASSUME NEW g \in Seq(I!Digitos)
  PROVE  \E f \in [0 .. Len(g) -> Nat] :
           /\ f[0] = 0 /\ \A n \in 1 .. Len(g) : f[n] = f[n - 1] * 10 + g[n]
           /\ I!Valor(g) = f[Len(g)]
<1>1. PICK N \in Nat : N = Len(g)
  OBVIOUS
<1>2. \A n \in 1 .. N : g[n] \in Nat
  BY <1>1 DEF I!Digitos
<1> DEFINE avanza == [n \in 1 .. N |-> [x \in Nat |-> x * 10 + g[n]]]
<1>3. avanza \in [1 .. N -> [Nat -> Nat]] /\ \A n \in 1 .. N : \A x \in Nat : avanza[n][x] = x * 10 + g[n]
  BY <1>2
<1> HIDE DEF avanza
<1>4. PICK f \in [0 .. N -> Nat] : f[0] = 0 /\ \A n \in 1 .. N : f[n] = avanza[n][f[n - 1]]
  <2>1. PICK S : S = Nat
    OBVIOUS
  <2>2. 0 \in S /\ avanza \in [1 .. N -> [S -> S]]
    BY <1>3, <2>1
  <2>3. PICK e : e = 0
    OBVIOUS
  <2>4. PICK M, af : M = N /\ af = avanza
    OBVIOUS
  <2>5. e \in S /\ M \in Nat /\ af \in [1 .. M -> [S -> S]]
    BY <2>2, <2>3, <2>4
  <2>6. \E u \in [0 .. M -> S] : u[0] = e /\ \A n \in 1 .. M : u[n] = af[n][u[n - 1]]
    BY <2>5, HayLectura
  <2> QED BY <2>1, <2>3, <2>4, <2>6, Zenon
<1>5. \A n \in 1 .. N : n - 1 \in 0 .. N /\ n # 0 /\ n \in 0 .. N
  OBVIOUS
<1>6. \A n \in 1 .. N : f[n] = f[n - 1] * 10 + g[n]
  BY <1>3, <1>4, <1>5
<1>7. f = [n \in 0 .. Len(g) |-> IF n = 0 THEN 0 ELSE f[n - 1] * 10 + g[n]]
  <2>1. ASSUME NEW n \in 0 .. N
        PROVE  f[n] = IF n = 0 THEN 0 ELSE f[n - 1] * 10 + g[n]
    <3>1. n = 0 \/ n \in 1 .. N
      OBVIOUS
    <3> QED BY <1>4, <1>6, <3>1
  <2>2. f = [n \in 0 .. N |-> f[n]]
    OBVIOUS
  <2> QED BY <1>1, <2>1, <2>2
<1> DEFINE h == CHOOSE u : u = [n \in 0 .. Len(g) |-> IF n = 0 THEN 0 ELSE u[n - 1] * 10 + g[n]]
<1>8. h = [n \in 0 .. Len(g) |-> IF n = 0 THEN 0 ELSE h[n - 1] * 10 + g[n]]
  BY <1>7, Zenon
<1>9. I!Valor(g) = h[Len(g)]
  BY Zenon DEF I!Valor
<1> HIDE DEF h
<1>10. h[0] = 0 /\ \A n \in 1 .. N : h[n] = h[n - 1] * 10 + g[n]
  <2>1. 0 \in 0 .. N
    OBVIOUS
  <2>2. \A n \in 0 .. N : h[n] = IF n = 0 THEN 0 ELSE h[n - 1] * 10 + g[n]
    BY <1>1, <1>8
  <2> QED BY <1>5, <2>1, <2>2
<1> DEFINE malos == {n \in 0 .. N : h[n] # f[n]}
<1>11. malos = {}
  <2>1. SUFFICES ASSUME malos # {} PROVE FALSE
    OBVIOUS
  <2>2. PICK n \in malos : \A otro \in malos : n <= otro
    <3>1. malos \in SUBSET Nat
      OBVIOUS
    <3> QED BY <2>1, <3>1, Lista!Minimo
  <2>3. n \in 0 .. N /\ h[n] # f[n]
    OBVIOUS
  <2>4. n # 0
    BY <1>4, <1>10, <2>3
  <2>5. n \in 1 .. N /\ n - 1 \in 0 .. N
    BY <2>3, <2>4
  <2>6. n - 1 \notin malos
    <3>1. SUFFICES ASSUME n - 1 \in malos PROVE FALSE
      OBVIOUS
    <3> HIDE DEF malos
    <3>2. n <= n - 1
      BY <2>2, <3>1
    <3> QED BY <2>5, <3>2
  <2>7. h[n - 1] = f[n - 1]
    BY <2>5, <2>6
  <2> QED BY <1>6, <1>10, <2>3, <2>5, <2>7
<1>12. h[N] = f[N]
  <2>1. N \in 0 .. N
    OBVIOUS
  <2> QED BY <1>11, <2>1
<1> QED BY <1>1, <1>4, <1>6, <1>9, <1>12

\* The value of the digits of str from the one after a to n.
ValorDe(str, a, n) == I!Valor(SubSeq(str, a + 1, n))

Cifras(str, a, n) == \A i \in a + 1 .. n : str[i] \in I!Digitos

\* A digit more makes ten times as much, and the digit.
LEMMA ValorPaso ==
  ASSUME NEW str, NEW a \in Nat, NEW n \in Nat, a <= n, Cifras(str, a, n)
  PROVE  /\ ValorDe(str, a, n) \in Nat
         /\ n = a => ValorDe(str, a, n) = 0
         /\ n > a => ValorDe(str, a, n) = ValorDe(str, a, n - 1) * 10 + str[n]
<1>1. ASSUME NEW k \in Nat, a <= k, k <= n
      PROVE  /\ SubSeq(str, a + 1, k) \in Seq(I!Digitos) /\ Len(SubSeq(str, a + 1, k)) = k - a
             /\ \A i \in 1 .. k - a : SubSeq(str, a + 1, k)[i] = str[a + i]
  <2>1. a + 1 \in Int /\ k \in Int /\ \A i \in a + 1 .. k : str[i] \in I!Digitos
    BY <1>1 DEF Cifras
  <2>2. /\ SubSeq(str, a + 1, k) \in Seq(I!Digitos)
        /\ Len(SubSeq(str, a + 1, k)) = IF a + 1 <= k THEN k - (a + 1) + 1 ELSE 0
        /\ \A i \in 1 .. k - (a + 1) + 1 : SubSeq(str, a + 1, k)[i] = str[(a + 1) + i - 1]
    BY <2>1, SubSeqProperties
  <2>3. /\ (IF a + 1 <= k THEN k - (a + 1) + 1 ELSE 0) = k - a /\ k - (a + 1) + 1 = k - a
        /\ \A i \in 1 .. k - a : (a + 1) + i - 1 = a + i
    BY <1>1
  <2> QED BY <2>2, <2>3
<1>2. PICK g : g = SubSeq(str, a + 1, n)
  OBVIOUS
<1>3. g \in Seq(I!Digitos) /\ Len(g) = n - a /\ \A i \in 1 .. n - a : g[i] = str[a + i]
  BY <1>1, <1>2
<1>4. PICK f \in [0 .. Len(g) -> Nat] :
           /\ f[0] = 0 /\ \A m \in 1 .. Len(g) : f[m] = f[m - 1] * 10 + g[m]
           /\ I!Valor(g) = f[Len(g)]
  BY <1>3, ValorEs
<1>5. ValorDe(str, a, n) = f[n - a] /\ n - a \in 0 .. Len(g)
  BY <1>2, <1>3, <1>4 DEF ValorDe
<1>6. ASSUME n > a
      PROVE  ValorDe(str, a, n) = ValorDe(str, a, n - 1) * 10 + str[n]
  <2>1. PICK c : c = SubSeq(str, a + 1, n - 1)
    OBVIOUS
  <2>2. c \in Seq(I!Digitos) /\ Len(c) = (n - 1) - a /\ \A i \in 1 .. (n - 1) - a : c[i] = str[a + i]
    <3>1. n - 1 \in Nat /\ a <= n - 1 /\ n - 1 <= n
      BY <1>6
    <3> QED BY <1>1, <2>1, <3>1
  <2>3. PICK h \in [0 .. Len(c) -> Nat] :
             /\ h[0] = 0 /\ \A m \in 1 .. Len(c) : h[m] = h[m - 1] * 10 + c[m]
             /\ I!Valor(c) = h[Len(c)]
    BY <2>2, ValorEs
  <2>4. PICK M \in Nat : M = (n - 1) - a /\ n - a = M + 1
    BY <1>6
  <2> DEFINE malos == {m \in 0 .. M : h[m] # f[m]}
  <2>5. malos = {}
    <3>1. SUFFICES ASSUME malos # {} PROVE FALSE
      OBVIOUS
    <3>2. PICK m \in malos : \A otro \in malos : m <= otro
      <4>1. malos \in SUBSET Nat
        OBVIOUS
      <4> QED BY <3>1, <4>1, Lista!Minimo
    <3>3. m \in 0 .. M /\ h[m] # f[m]
      OBVIOUS
    <3>4. m # 0
      BY <1>4, <2>3, <3>3
    <3>5. m \in 1 .. M /\ m - 1 \in 0 .. M /\ m \in 1 .. M + 1
      BY <3>3, <3>4
    <3>6. m - 1 \notin malos
      <4>1. SUFFICES ASSUME m - 1 \in malos PROVE FALSE
        OBVIOUS
      <4> HIDE DEF malos
      <4>2. m <= m - 1
        BY <3>2, <4>1
      <4> QED BY <3>5, <4>2
    <3>7. h[m - 1] = f[m - 1]
      BY <3>5, <3>6
    <3>8. c[m] = g[m]
      BY <1>3, <2>2, <2>4, <3>5
    <3>9. h[m] = h[m - 1] * 10 + c[m] /\ f[m] = f[m - 1] * 10 + g[m]
      BY <1>3, <1>4, <2>2, <2>3, <2>4, <3>5
    <3> QED BY <3>3, <3>7, <3>8, <3>9
  <2>6. h[M] = f[M]
    <3>1. M \in 0 .. M
      OBVIOUS
    <3> QED BY <2>5, <3>1
  <2>7. f[M + 1] = f[M] * 10 + g[M + 1]
    <3>1. M + 1 \in 1 .. Len(g) /\ (M + 1) - 1 = M
      BY <1>3, <2>4
    <3> QED BY <1>4, <3>1
  <2>8. g[M + 1] = str[n]
    <3>1. M + 1 \in 1 .. n - a /\ a + (M + 1) = n
      BY <2>4
    <3> QED BY <1>3, <3>1
  <2>9. ValorDe(str, a, n - 1) = h[M]
    BY <2>1, <2>2, <2>3, <2>4 DEF ValorDe
  <2> QED BY <1>5, <2>4, <2>6, <2>7, <2>8, <2>9
<1>7. n = a => ValorDe(str, a, n) = 0
  BY <1>4, <1>5
<1>8. ValorDe(str, a, n) \in Nat
  BY <1>5
<1> QED BY <1>6, <1>7, <1>8

\* It does not shrink with more digits.
LEMMA ValorCrece ==
  ASSUME NEW str, NEW a \in Nat, NEW n \in Nat, NEW m \in Nat, a <= n, n <= m, Cifras(str, a, m)
  PROVE  ValorDe(str, a, n) <= ValorDe(str, a, m)
<1> DEFINE malos == {k \in n .. m : ~(ValorDe(str, a, n) <= ValorDe(str, a, k))}
<1>0. ASSUME NEW k \in n .. m
      PROVE  /\ ValorDe(str, a, k) \in Nat
             /\ k > a => ValorDe(str, a, k) = ValorDe(str, a, k - 1) * 10 + str[k]
  <2>1. k \in Nat /\ a <= k /\ Cifras(str, a, k)
    BY <1>0 DEF Cifras
  <2> QED BY <2>1, ValorPaso
<1>1. SUFFICES ASSUME malos # {} PROVE FALSE
  <2>1. m \in n .. m
    OBVIOUS
  <2> QED BY <2>1
<1>2. PICK k \in malos : \A otro \in malos : k <= otro
  <2>1. malos \in SUBSET Nat
    OBVIOUS
  <2> QED BY <1>1, <2>1, Lista!Minimo
<1>3. k \in n .. m /\ ~(ValorDe(str, a, n) <= ValorDe(str, a, k))
  OBVIOUS
<1>4. n \in n .. m /\ ValorDe(str, a, n) \in Nat
  BY <1>0
<1>5. k # n
  BY <1>3, <1>4
<1>6. k - 1 \in n .. m /\ k > a /\ k \in a + 1 .. m
  BY <1>3, <1>5
<1>7. k - 1 \notin malos
  <2>1. SUFFICES ASSUME k - 1 \in malos PROVE FALSE
    OBVIOUS
  <2> HIDE DEF malos
  <2>2. k <= k - 1
    BY <1>2, <2>1
  <2> QED BY <1>3, <2>2
<1>8. PICK p \in Nat, q \in Nat, r \in Nat, d \in Nat :
           p = ValorDe(str, a, n) /\ q = ValorDe(str, a, k - 1) /\ r = ValorDe(str, a, k) /\ d = str[k]
  <2>1. ValorDe(str, a, n) \in Nat /\ ValorDe(str, a, k - 1) \in Nat /\ ValorDe(str, a, k) \in Nat
    BY <1>0, <1>3, <1>4, <1>6
  <2>2. str[k] \in Nat
    BY <1>6 DEF Cifras, I!Digitos
  <2> QED BY <2>1, <2>2
<1>9. p <= q
  BY <1>6, <1>7, <1>8
<1>10. r = q * 10 + d
  BY <1>0, <1>3, <1>6, <1>8
<1>11. ~(p <= r)
  BY <1>3, <1>8
<1> HIDE DEF malos
<1> QED BY <1>9, <1>10, <1>11

\* The counters of isValidIp4.
Contadores == [segs : Int, chcnt : Int, accum : Int]

\* A character more, for any counters.
LEMMA LeidoEs ==
  ASSUME NEW e \in Contadores, NEW c \in I!CaracteresIp
  PROVE  /\ I!Leido(e, c) \in Contadores
         /\ e = I!Mal => I!Leido(e, c) = I!Mal
         /\ e # I!Mal /\ c = I!PuntoIp =>
              I!Leido(e, c) = IF e.chcnt = 0 \/ e.segs + 1 = 4 THEN I!Mal
                              ELSE [segs |-> e.segs + 1, chcnt |-> 0, accum |-> 0]
         /\ e # I!Mal /\ c \in I!Digitos =>
              I!Leido(e, c) = IF e.accum * 10 + c > 255 THEN I!Mal
                              ELSE [segs |-> e.segs, chcnt |-> e.chcnt + 1, accum |-> e.accum * 10 + c]
         /\ e # I!Mal /\ c # I!PuntoIp /\ c \notin I!Digitos => I!Leido(e, c) = I!Mal
<1>1. PICK malo : malo = I!Mal
  OBVIOUS
<1>2. malo \in Contadores
  BY <1>1 DEF I!Mal, Contadores
<1>3. c \in I!Digitos => c \in Int /\ c # I!PuntoIp
  BY DEF I!Digitos, I!PuntoIp
<1>4. CASE e = malo
  <2>1. I!Leido(e, c) = I!Mal
    BY <1>1, <1>4 DEF I!Leido
  <2> QED BY <1>1, <1>2, <1>4, <2>1
<1>5. CASE e # malo /\ c = I!PuntoIp
  <2>1. I!Leido(e, c) = I!PuntoLeido(e)
    BY <1>1, <1>3, <1>5 DEF I!Leido
  <2>2. [segs |-> e.segs + 1, chcnt |-> 0, accum |-> 0] \in Contadores
    BY DEF Contadores
  <2>3. c \notin I!Digitos
    BY <1>3, <1>5
  <2> QED BY <1>1, <1>2, <1>5, <2>1, <2>2, <2>3, Zenon DEF I!PuntoLeido
<1>6. CASE e # malo /\ c \in I!Digitos
  <2>1. I!Leido(e, c) = I!DigitoLeido(e, c)
    BY <1>1, <1>3, <1>6 DEF I!Leido
  <2>2. /\ [segs |-> e.segs, chcnt |-> e.chcnt + 1, accum |-> e.accum * 10 + c] \in Contadores
        /\ [e EXCEPT !.accum = @ * 10 + c, !.chcnt = @ + 1]
             = [segs |-> e.segs, chcnt |-> e.chcnt + 1, accum |-> e.accum * 10 + c]
    <3>1. PICK v, w : v = e.accum * 10 + c /\ w = e.chcnt + 1
      OBVIOUS
    <3>2. v \in Int /\ w \in Int
      <4>1. e.accum \in Int /\ e.chcnt \in Int
        BY DEF Contadores
      <4>2. c \in Int
        BY <1>3, <1>6
      <4> QED BY <3>1, <4>1, <4>2
    <3>3. PICK r : r = [e EXCEPT !.accum = v, !.chcnt = w]
      OBVIOUS
    <3>4. r \in Contadores /\ r.segs = e.segs /\ r.chcnt = w /\ r.accum = v
      BY <3>2, <3>3 DEF Contadores
    <3>5. r = [segs |-> r.segs, chcnt |-> r.chcnt, accum |-> r.accum]
      BY <3>4 DEF Contadores
    <3>6. r = [segs |-> e.segs, chcnt |-> w, accum |-> v]
      BY <3>4, <3>5, Zenon
    <3> QED BY <3>1, <3>3, <3>4, <3>6, Zenon
  <2>3. c # I!PuntoIp
    BY <1>3, <1>6
  <2> QED BY <1>1, <1>2, <1>6, <2>1, <2>2, <2>3, Zenon DEF I!DigitoLeido
<1>7. CASE e # malo /\ c # I!PuntoIp /\ c \notin I!Digitos
  <2>1. I!Leido(e, c) = I!Mal
    BY <1>1, <1>7 DEF I!Leido
  <2> QED BY <1>1, <1>2, <1>7, <2>1
<1> QED BY <1>4, <1>5, <1>6, <1>7

\* The last of what isValidIp4 has in its counters.
LEMMA LecturaEs ==
  ASSUME NEW str \in Seq(I!CaracteresIp)
  PROVE  \E f \in [0 .. Len(str) -> Contadores] :
           /\ f[0] = I!Inicio
           /\ \A n \in 1 .. Len(str) : f[n] = I!Leido(f[n - 1], str[n])
           /\ I!isValidIp4(str) <=> (f[Len(str)].segs = 3 /\ f[Len(str)].chcnt # 0)
<1>1. PICK N \in Nat : N = Len(str)
  OBVIOUS
<1>2. \A n \in 1 .. N : str[n] \in I!CaracteresIp
  BY <1>1
<1> DEFINE avanza == [n \in 1 .. N |-> [x \in Contadores |-> I!Leido(x, str[n])]]
<1>3. /\ avanza \in [1 .. N -> [Contadores -> Contadores]]
      /\ \A n \in 1 .. N : \A x \in Contadores : avanza[n][x] = I!Leido(x, str[n])
  <2>1. \A n \in 1 .. N : \A x \in Contadores : I!Leido(x, str[n]) \in Contadores
    BY <1>2, LeidoEs
  <2>2. \A n \in 1 .. N : avanza[n] = [x \in Contadores |-> I!Leido(x, str[n])]
    BY Zenon
  <2>3. \A n \in 1 .. N : [x \in Contadores |-> I!Leido(x, str[n])] \in [Contadores -> Contadores]
    BY <2>1, Zenon
  <2>4. avanza \in [1 .. N -> [Contadores -> Contadores]]
    BY <2>3, Zenon
  <2> QED BY <2>2, <2>4, Zenon
<1> HIDE DEF avanza
<1>4. PICK e : e = I!Inicio
  OBVIOUS
<1>5. e \in Contadores
  BY <1>4 DEF I!Inicio, Contadores
<1>6. PICK h \in [0 .. N -> Contadores] : h[0] = e /\ \A n \in 1 .. N : h[n] = avanza[n][h[n - 1]]
  <2>1. PICK S : S = Contadores
    OBVIOUS
  <2>2. e \in S /\ avanza \in [1 .. N -> [S -> S]]
    BY <1>3, <1>5, <2>1
  <2>3. PICK M, af : M = N /\ af = avanza
    OBVIOUS
  <2>4. e \in S /\ M \in Nat /\ af \in [1 .. M -> [S -> S]]
    BY <2>2, <2>3
  <2>5. \E u \in [0 .. M -> S] : u[0] = e /\ \A n \in 1 .. M : u[n] = af[n][u[n - 1]]
    BY <2>4, HayLectura
  <2> QED BY <2>1, <2>3, <2>5, Zenon
<1>7. \A n \in 1 .. N : n - 1 \in 0 .. N /\ n # 0 /\ n \in 0 .. N
  OBVIOUS
<1>8. \A n \in 1 .. N : h[n] = I!Leido(h[n - 1], str[n])
  <2>1. \A n \in 1 .. N : h[n - 1] \in Contadores
    BY <1>6, <1>7
  <2> QED BY <1>3, <1>6, <2>1, Zenon
<1>9. h = [n \in 0 .. Len(str) |-> IF n = 0 THEN I!Inicio ELSE I!Leido(h[n - 1], str[n])]
  <2>1. ASSUME NEW n \in 0 .. N
        PROVE  h[n] = IF n = 0 THEN I!Inicio ELSE I!Leido(h[n - 1], str[n])
    <3>1. n = 0 \/ n \in 1 .. N
      OBVIOUS
    <3>2. CASE n = 0
      BY <1>4, <1>6, <3>2, Zenon
    <3>3. CASE n \in 1 .. N
      BY <1>7, <1>8, <3>3, Zenon
    <3> QED BY <3>1, <3>2, <3>3
  <2>2. h = [n \in 0 .. N |-> h[n]]
    OBVIOUS
  <2>3. [n \in 0 .. N |-> h[n]] = [n \in 0 .. N |-> IF n = 0 THEN I!Inicio ELSE I!Leido(h[n - 1], str[n])]
    BY <2>1, Zenon
  <2> QED BY <1>1, <2>2, <2>3, Zenon
<1> DEFINE g == CHOOSE u : u = [n \in 0 .. Len(str) |->
                  IF n = 0 THEN I!Inicio ELSE I!Leido(u[n - 1], str[n])]
<1>10. g = [n \in 0 .. Len(str) |-> IF n = 0 THEN I!Inicio ELSE I!Leido(g[n - 1], str[n])]
  BY <1>9, Zenon
<1>11. I!isValidIp4(str) <=> (g[Len(str)].segs = 3 /\ g[Len(str)].chcnt # 0)
  BY Zenon DEF I!isValidIp4
<1> HIDE DEF g
<1>12. /\ g[0] = I!Inicio
       /\ \A n \in 1 .. N : g[n] = I!Leido(g[n - 1], str[n])
  <2>1. \A n \in 0 .. N : g[n] = IF n = 0 THEN I!Inicio ELSE I!Leido(g[n - 1], str[n])
    BY <1>1, <1>10, Zenon
  <2>2. 0 \in 0 .. N
    OBVIOUS
  <2> QED BY <1>7, <2>1, <2>2, Zenon
<1>13. g \in [0 .. N -> Contadores]
  <2> DEFINE malos == {n \in 0 .. N : g[n] \notin Contadores}
  <2>1. malos = {}
    <3>1. SUFFICES ASSUME malos # {} PROVE FALSE
      OBVIOUS
    <3>2. PICK n \in malos : \A otro \in malos : n <= otro
      <4>1. malos \in SUBSET Nat
        OBVIOUS
      <4> QED BY <3>1, <4>1, Lista!Minimo
    <3>3. n \in 0 .. N /\ g[n] \notin Contadores
      OBVIOUS
    <3>4. n # 0
      BY <1>4, <1>5, <1>12, <3>3, Zenon
    <3>5. n \in 1 .. N /\ n - 1 \in 0 .. N
      BY <3>3, <3>4
    <3>6. n - 1 \notin malos
      <4>1. SUFFICES ASSUME n - 1 \in malos PROVE FALSE
        OBVIOUS
      <4> HIDE DEF malos
      <4>2. n <= n - 1
        BY <3>2, <4>1
      <4> QED BY <3>5, <4>2
    <3>7. g[n - 1] \in Contadores
      BY <3>5, <3>6
    <3>8. I!Leido(g[n - 1], str[n]) \in Contadores
      BY <1>2, <3>5, <3>7, LeidoEs, Zenon
    <3> QED BY <1>12, <3>3, <3>5, <3>8, Zenon
  <2>2. g = [n \in 0 .. N |-> g[n]]
    <3>1. g = [n \in 0 .. N |-> IF n = 0 THEN I!Inicio ELSE I!Leido(g[n - 1], str[n])]
      BY <1>1, <1>10, Zenon
    <3>2. DOMAIN g = 0 .. N
      BY <3>1, Zenon
    <3> QED BY <3>1, <3>2, Zenon
  <2>3. \A n \in 0 .. N : g[n] \in Contadores
    BY <2>1, Zenon
  <2> HIDE DEF malos
  <2> QED BY <2>2, <2>3, Zenon
<1> QED BY <1>1, <1>11, <1>12, <1>13, Zenon

\* A group as it is read, from the character after a to n.
GrupoBien(str, a, n) == a < n /\ Cifras(str, a, n) /\ ValorDe(str, a, n) <= 255

\* It is what EsGrupo asks for.
LEMMA GrupoEs ==
  ASSUME NEW str, NEW a \in Nat, NEW n \in Nat, a <= n,
         \A i \in a + 1 .. n : str[i] \in I!CaracteresIp
  PROVE  I!EsGrupo(SubSeq(str, a + 1, n)) <=> GrupoBien(str, a, n)
<1>1. PICK g : g = SubSeq(str, a + 1, n)
  OBVIOUS
<1>2. /\ g \in Seq(I!CaracteresIp) /\ Len(g) = n - a /\ DOMAIN g = 1 .. n - a
      /\ \A i \in 1 .. n - a : g[i] = str[a + i]
  <2>1. PICK x \in Int, y \in Int : x = a + 1 /\ y = n
    OBVIOUS
  <2>2. \A i \in x .. y : str[i] \in I!CaracteresIp
    BY <2>1
  <2>3. /\ SubSeq(str, x, y) \in Seq(I!CaracteresIp)
        /\ Len(SubSeq(str, x, y)) = IF x <= y THEN y - x + 1 ELSE 0
        /\ \A i \in 1 .. y - x + 1 : SubSeq(str, x, y)[i] = str[x + i - 1]
    BY <2>2, SubSeqProperties
  <2>4. /\ (IF x <= y THEN y - x + 1 ELSE 0) = n - a /\ y - x + 1 = n - a
        /\ \A i \in 1 .. n - a : x + i - 1 = a + i
    BY <2>1
  <2>5. /\ g \in Seq(I!CaracteresIp) /\ Len(g) = n - a
        /\ \A i \in 1 .. n - a : g[i] = str[a + i]
    BY <1>1, <2>1, <2>3, <2>4
  <2> QED BY <2>5
<1>3. (g # <<>>) <=> (a < n)
  BY <1>2, EmptySeq
<1>4. (\A i \in DOMAIN g : g[i] \in I!Digitos) <=> Cifras(str, a, n)
  <2>1. ASSUME \A i \in 1 .. n - a : g[i] \in I!Digitos, NEW i \in a + 1 .. n
        PROVE  str[i] \in I!Digitos
    <3>1. i - a \in 1 .. n - a /\ a + (i - a) = i
      OBVIOUS
    <3> QED BY <1>2, <2>1, <3>1
  <2>2. ASSUME Cifras(str, a, n), NEW i \in 1 .. n - a
        PROVE  g[i] \in I!Digitos
    <3>1. a + i \in a + 1 .. n
      OBVIOUS
    <3> QED BY <1>2, <2>2, <3>1 DEF Cifras
  <2> QED BY <1>2, <2>1, <2>2 DEF Cifras
<1> QED BY <1>1, <1>3, <1>4, Zenon DEF I!EsGrupo, GrupoBien, ValorDe

\* The dots among the first n characters.
Puntos(str, n) == {i \in 1 .. n : str[i] = I!PuntoIp}

\* No dot is between a and b, which part the string there.
Vecinos(str, a, b) == a < b /\ \A i \in a + 1 .. b - 1 : str[i] # I!PuntoIp

\* An address, in those words.
LEMMA DireccionEs ==
  ASSUME NEW str \in Seq(I!CaracteresIp)
  PROVE  I!EsDireccion(str) <=>
           /\ Cardinality(Puntos(str, Len(str))) = 3
           /\ \A a \in Puntos(str, Len(str)) \cup {0}, b \in Puntos(str, Len(str)) \cup {Len(str) + 1} :
                Vecinos(str, a, b) => GrupoBien(str, a, b - 1)
<1>1. PICK N \in Nat : N = Len(str)
  OBVIOUS
<1>2. PICK puntos, cortes : puntos = Puntos(str, N) /\ cortes = puntos \cup {0, N + 1}
  OBVIOUS
<1>3. /\ puntos = {i \in DOMAIN str : str[i] = I!PuntoIp}
      /\ puntos \subseteq 1 .. N /\ cortes \subseteq 0 .. N + 1
      /\ \A i \in 1 .. N : i \in cortes <=> str[i] = I!PuntoIp
      /\ \A i \in 1 .. N : str[i] \in I!CaracteresIp
  <2>1. DOMAIN str = 1 .. N
    BY <1>1
  <2>2. puntos = {i \in 1 .. N : str[i] = I!PuntoIp}
    BY <1>2, Zenon DEF Puntos
  <2>3. cortes \subseteq 0 .. N + 1
    <3>1. puntos \subseteq 1 .. N
      BY <2>2
    <3> QED BY <1>2, <3>1
  <2>4. ASSUME NEW i \in 1 .. N PROVE i \in cortes <=> str[i] = I!PuntoIp
    <3>1. i # 0 /\ i # N + 1
      OBVIOUS
    <3> QED BY <1>2, <2>2, <3>1, Zenon
  <2>5. \A i \in 1 .. N : str[i] \in I!CaracteresIp
    BY <1>1
  <2> QED BY <2>1, <2>2, <2>3, <2>4, <2>5, Zenon
<1>4. I!EsDireccion(str) <=>
        /\ Cardinality(puntos) = 3
        /\ \A a, b \in cortes :
             a < b /\ (\A c \in cortes : c <= a \/ c >= b) => I!EsGrupo(SubSeq(str, a + 1, b - 1))
  <2> DEFINE P == {i \in DOMAIN str : str[i] = I!PuntoIp}
             C == P \cup {0, Len(str) + 1}
  <2>1. I!EsDireccion(str) <=>
          /\ I!Cardinality(P) = 3
          /\ \A a, b \in C :
               a < b /\ (\A c \in C : c <= a \/ c >= b) => I!EsGrupo(SubSeq(str, a + 1, b - 1))
    BY Zenon DEF I!EsDireccion
  <2>2. P = puntos /\ C = cortes
    BY <1>1, <1>2, <1>3, Zenon
  <2>3. I!Cardinality(P) = Cardinality(P)
    BY Zenon DEF I!Cardinality, Cardinality
  <2> HIDE DEF P, C
  <2> QED BY <2>1, <2>2, <2>3, Zenon
<1>5. ASSUME NEW a \in cortes, NEW b \in cortes, a < b
      PROVE  /\ a \in puntos \cup {0} /\ b \in puntos \cup {N + 1}
             /\ (\A c \in cortes : c <= a \/ c >= b) <=> Vecinos(str, a, b)
             /\ I!EsGrupo(SubSeq(str, a + 1, b - 1)) <=> GrupoBien(str, a, b - 1)
  <2>1. a \in 0 .. N + 1 /\ b \in 0 .. N + 1 /\ a \in Nat /\ b - 1 \in Nat /\ a <= b - 1 /\ b - 1 <= N
    BY <1>3, <1>5
  <2>2. a \in puntos \cup {0} /\ b \in puntos \cup {N + 1}
    BY <1>1, <1>2, <1>5, <2>1
  <2>3. ASSUME \A c \in cortes : c <= a \/ c >= b, NEW i \in a + 1 .. b - 1
        PROVE  str[i] # I!PuntoIp
    <3>1. i \in 1 .. N /\ ~(i <= a \/ i >= b)
      BY <2>1
    <3> QED BY <1>3, <2>3, <3>1
  <2>4. ASSUME \A i \in a + 1 .. b - 1 : str[i] # I!PuntoIp, NEW c \in cortes, ~(c <= a \/ c >= b)
        PROVE  FALSE
    <3>1. c \in a + 1 .. b - 1 /\ c \in 1 .. N
      BY <1>3, <2>1, <2>4
    <3> QED BY <1>3, <2>4, <3>1
  <2>5. (\A c \in cortes : c <= a \/ c >= b) <=> Vecinos(str, a, b)
    BY <1>5, <2>3, <2>4 DEF Vecinos
  <2>6. I!EsGrupo(SubSeq(str, a + 1, b - 1)) <=> GrupoBien(str, a, b - 1)
    <3>1. PICK x \in Nat, y \in Nat : x = a /\ y = b - 1
      BY <2>1
    <3>2. x <= y /\ \A i \in x + 1 .. y : str[i] \in I!CaracteresIp
      <4>1. \A i \in x + 1 .. y : i \in 1 .. N
        BY <2>1, <3>1
      <4> QED BY <1>3, <2>1, <3>1, <4>1
    <3>3. I!EsGrupo(SubSeq(str, x + 1, y)) <=> GrupoBien(str, x, y)
      BY <3>2, GrupoEs
    <3> QED BY <3>1, <3>3, Zenon
  <2> QED BY <2>2, <2>5, <2>6
<1>6. ASSUME NEW a \in puntos \cup {0}, NEW b \in puntos \cup {N + 1}
      PROVE  a \in cortes /\ b \in cortes
  BY <1>2
<1>7. (\A a, b \in cortes :
         a < b /\ (\A c \in cortes : c <= a \/ c >= b) => I!EsGrupo(SubSeq(str, a + 1, b - 1)))
      <=> \A a \in puntos \cup {0}, b \in puntos \cup {N + 1} :
            Vecinos(str, a, b) => GrupoBien(str, a, b - 1)
  <2>1. \A a, b \in cortes : Vecinos(str, a, b) => a < b
    BY Zenon DEF Vecinos
  <2> QED BY <1>5, <1>6, <2>1, Zenon
<1> QED BY <1>1, <1>2, <1>4, <1>7, Zenon

\* The dots, as the string is read.
LEMMA PuntosCrecen ==
  ASSUME NEW str, NEW n \in Nat
  PROVE  /\ Puntos(str, 0) = {} /\ IsFiniteSet(Puntos(str, n)) /\ Cardinality(Puntos(str, n)) \in Nat
         /\ str[n + 1] = I!PuntoIp =>
              /\ Puntos(str, n + 1) = Puntos(str, n) \cup {n + 1}
              /\ Cardinality(Puntos(str, n + 1)) = Cardinality(Puntos(str, n)) + 1
         /\ str[n + 1] # I!PuntoIp => Puntos(str, n + 1) = Puntos(str, n)
<1>1. Puntos(str, 0) = {}
  BY DEF Puntos
<1>2. IsFiniteSet(Puntos(str, n)) /\ Cardinality(Puntos(str, n)) \in Nat
  <2>1. IsFiniteSet(1 .. n)
    BY FS_Interval
  <2>2. Puntos(str, n) \subseteq 1 .. n
    BY DEF Puntos
  <2> QED BY <2>1, <2>2, FS_Subset, FS_CardinalityType
<1>3. 1 .. n + 1 = (1 .. n) \cup {n + 1} /\ n + 1 \notin 1 .. n
  OBVIOUS
<1>4. ASSUME str[n + 1] = I!PuntoIp
      PROVE  Puntos(str, n + 1) = Puntos(str, n) \cup {n + 1} /\ n + 1 \notin Puntos(str, n)
  BY <1>3, <1>4, Zenon DEF Puntos
<1>5. ASSUME str[n + 1] # I!PuntoIp
      PROVE  Puntos(str, n + 1) = Puntos(str, n)
  BY <1>3, <1>5, Zenon DEF Puntos
<1> QED BY <1>1, <1>2, <1>4, <1>5, FS_AddElement

\* There are no fewer further on.
LEMMA PuntosQuedan ==
  ASSUME NEW str, NEW n \in Nat, NEW m \in Nat, n <= m
  PROVE  Puntos(str, n) \subseteq Puntos(str, m) /\ Cardinality(Puntos(str, n)) <= Cardinality(Puntos(str, m))
<1>1. Puntos(str, n) \subseteq Puntos(str, m)
  BY DEF Puntos
<1> QED BY <1>1, PuntosCrecen, FS_Subset

\* In an address, what follows a dot or its beginning is digits worth at most 255.
LEMMA TrasCorte ==
  ASSUME NEW str \in Seq(I!CaracteresIp), I!EsDireccion(str),
         NEW u \in Puntos(str, Len(str)) \cup {0}, NEW n \in Nat, u <= n, n <= Len(str),
         \A i \in u + 1 .. n : str[i] # I!PuntoIp
  PROVE  /\ u < Len(str) /\ Cifras(str, u, n) /\ ValorDe(str, u, n) <= 255
         /\ (n < Len(str) /\ str[n + 1] = I!PuntoIp) => u < n
<1>1. PICK N \in Nat : N = Len(str)
  OBVIOUS
<1>2. PICK P : P = Puntos(str, N)
  OBVIOUS
<1>3. /\ u \in P \cup {0} /\ u \in Nat /\ n <= N /\ u \in 0 .. N
      /\ \A i \in n + 1 .. N : str[i] = I!PuntoIp => i \in P
  BY <1>1, <1>2 DEF Puntos
<1>4. \A a \in P \cup {0}, b \in P \cup {N + 1} : Vecinos(str, a, b) => GrupoBien(str, a, b - 1)
  BY <1>1, <1>2, DireccionEs, Zenon
<1> DEFINE cortes == {k \in n + 1 .. N + 1 : k = N + 1 \/ str[k] = I!PuntoIp}
<1>5. PICK b \in cortes : \A otro \in cortes : b <= otro
  <2>1. N + 1 \in cortes
    BY <1>1, <1>3
  <2>2. cortes \in SUBSET Nat
    OBVIOUS
  <2> HIDE DEF cortes
  <2> QED BY <2>1, <2>2, Lista!Minimo
<1>6. b \in n + 1 .. N + 1 /\ (b = N + 1 \/ str[b] = I!PuntoIp)
  OBVIOUS
<1>7. b \in P \cup {N + 1}
  BY <1>1, <1>3, <1>6
<1>8. ASSUME NEW i \in u + 1 .. b - 1
      PROVE  str[i] # I!PuntoIp
  <2>1. i \in Int /\ (i <= n => i \in u + 1 .. n)
    BY <1>3, <1>6
  <2>2. CASE i <= n
    BY <2>1, <2>2
  <2>3. CASE i > n
    <3>1. i \in n + 1 .. N + 1 /\ i < b
      BY <1>1, <1>3, <1>6, <2>3
    <3>2. i \notin cortes
      <4> HIDE DEF cortes
      <4> QED BY <1>5, <1>6, <3>1
    <3> QED BY <3>1, <3>2
  <2> QED BY <2>1, <2>2, <2>3
<1>9. Vecinos(str, u, b)
  <2>1. u < b
    BY <1>3, <1>6
  <2> QED BY <1>8, <2>1 DEF Vecinos
<1>10. GrupoBien(str, u, b - 1)
  BY <1>3, <1>4, <1>7, <1>9
<1> HIDE DEF cortes
<1>11. PICK m \in Nat : m = b - 1 /\ n <= m /\ m <= N
  BY <1>1, <1>3, <1>6
<1>12. u < m /\ Cifras(str, u, m) /\ ValorDe(str, u, m) <= 255
  BY <1>10, <1>11 DEF GrupoBien
<1>13. Cifras(str, u, n)
  BY <1>11, <1>12 DEF Cifras
<1>14. ValorDe(str, u, n) <= 255
  <2>1. ValorDe(str, u, n) <= ValorDe(str, u, m)
    BY <1>3, <1>11, <1>12, ValorCrece
  <2>2. ValorDe(str, u, n) \in Nat /\ ValorDe(str, u, m) \in Nat
    BY <1>3, <1>11, <1>12, <1>13, ValorPaso
  <2> QED BY <1>12, <2>1, <2>2
<1>15. ASSUME n < N, str[n + 1] = I!PuntoIp
       PROVE  u < n
  <2>1. n + 1 \in u + 1 .. N
    BY <1>3, <1>15
  <2>2. b = n + 1
    <3>1. n + 1 \notin u + 1 .. b - 1
      BY <1>8, <1>15
    <3> QED BY <1>3, <1>6, <3>1, <2>1
  <2> QED BY <1>11, <1>12, <2>2
<1>16. u < Len(str)
  BY <1>1, <1>3, <1>11, <1>12
<1> QED BY <1>1, <1>13, <1>14, <1>15, <1>16, Zenon

\* The groups that a dot of the first n characters has ended.
GruposHasta(str, n) ==
  \A a \in Puntos(str, n) \cup {0}, b \in Puntos(str, n) :
    Vecinos(str, a, b) => GrupoBien(str, a, b - 1)

\* What the counters say of the first n characters, whose last dot is u, or none if 0.
Cuenta(str, n, e, u) ==
  /\ u \in Puntos(str, n) \cup {0} /\ Cifras(str, u, n)
  /\ e.segs = Cardinality(Puntos(str, n)) /\ e.segs <= 3
  /\ e.chcnt = n - u /\ e.accum = ValorDe(str, u, n) /\ e.accum <= 255

\* Either the string is already known not to be an address, or so far it may be.
Bien(str, n, e) ==
  \/ e = I!Mal /\ ~I!EsDireccion(str)
  \/ e # I!Mal /\ GruposHasta(str, n) /\ \E u \in 0 .. n : Cuenta(str, n, e, u)

\* Nothing read.
LEMMA BienEmpieza ==
  ASSUME NEW str \in Seq(I!CaracteresIp)
  PROVE  Bien(str, 0, I!Inicio)
<1>1. PICK e : e = I!Inicio
  OBVIOUS
<1>2. e.segs = 0 /\ e.chcnt = 0 /\ e.accum = 0 /\ e # I!Mal
  BY <1>1 DEF I!Inicio, I!Mal
<1>3. Puntos(str, 0) = {} /\ Cardinality(Puntos(str, 0)) = 0
  BY PuntosCrecen, FS_EmptySet
<1>4. Cifras(str, 0, 0)
  BY DEF Cifras
<1>5. ValorDe(str, 0, 0) = 0
  BY <1>4, ValorPaso
<1>6. Cuenta(str, 0, e, 0)
  BY <1>2, <1>3, <1>4, <1>5 DEF Cuenta
<1>7. GruposHasta(str, 0)
  BY <1>3 DEF GruposHasta
<1>8. 0 \in 0 .. 0
  OBVIOUS
<1> QED BY <1>1, <1>2, <1>6, <1>7, <1>8, Zenon DEF Bien

\* The group that a dot at n + 1 ends begins after the last one before.
LEMMA UltimoGrupo ==
  ASSUME NEW str, NEW n \in Nat, NEW u \in 0 .. n, u \in Puntos(str, n) \cup {0}, Cifras(str, u, n),
         NEW a \in Puntos(str, n) \cup {0}, Vecinos(str, a, n + 1)
  PROVE  a = u
<1>1. /\ a \in 0 .. n /\ \A i \in a + 1 .. n : str[i] # I!PuntoIp
      /\ a \in Puntos(str, n) => str[a] = I!PuntoIp
      /\ u \in Puntos(str, n) => str[u] = I!PuntoIp
  <2>1. a \in 0 .. n
    BY DEF Puntos
  <2>2. (n + 1) - 1 = n
    OBVIOUS
  <2>3. \A i \in a + 1 .. n : str[i] # I!PuntoIp
    BY <2>2 DEF Vecinos
  <2> QED BY <2>1, <2>3, Zenon DEF Puntos
<1>2. \A i \in u + 1 .. n : str[i] # I!PuntoIp
  BY DEF Cifras, I!Digitos, I!PuntoIp
<1>3. CASE a < u
  <2>1. u \in a + 1 .. n /\ u \in Puntos(str, n)
    BY <1>1, <1>3
  <2> QED BY <1>1, <2>1
<1>4. CASE a > u
  <2>1. a \in u + 1 .. n /\ a \in Puntos(str, n)
    BY <1>1, <1>4
  <2> QED BY <1>1, <1>2, <2>1
<1> QED BY <1>1, <1>3, <1>4

\* One character more.
LEMMA BienPaso ==
  ASSUME NEW str \in Seq(I!CaracteresIp), NEW n \in Nat, n < Len(str),
         NEW e \in Contadores, Bien(str, n, e)
  PROVE  Bien(str, n + 1, I!Leido(e, str[n + 1]))
<1>1. PICK N \in Nat : N = Len(str)
  OBVIOUS
<1>2. PICK c, f : c = str[n + 1] /\ f = I!Leido(e, str[n + 1])
  OBVIOUS
<1>3. c \in I!CaracteresIp /\ f = I!Leido(e, c)
  <2>1. n + 1 \in 1 .. N
    BY <1>1
  <2> QED BY <1>1, <1>2, <2>1
<1>4. CASE e = I!Mal
  <2>1. ~I!EsDireccion(str)
    BY <1>4, Zenon DEF Bien
  <2>2. f = I!Mal
    BY <1>3, <1>4, LeidoEs
  <2> QED BY <1>2, <2>1, <2>2, Zenon DEF Bien
<1>5. CASE e # I!Mal
  <2>1. GruposHasta(str, n) /\ \E u \in 0 .. n : Cuenta(str, n, e, u)
    BY <1>5, Zenon DEF Bien
  <2>2. PICK u \in 0 .. n : Cuenta(str, n, e, u)
    BY <2>1
  <2>3. /\ u \in Puntos(str, n) \cup {0} /\ Cifras(str, u, n)
        /\ e.segs = Cardinality(Puntos(str, n)) /\ e.segs <= 3
        /\ e.chcnt = n - u /\ e.accum = ValorDe(str, u, n) /\ e.accum <= 255
        /\ u \in Nat /\ u <= n
    BY <2>2 DEF Cuenta
  <2>4. \A i \in u + 1 .. n : str[i] # I!PuntoIp
    BY <2>3 DEF Cifras, I!Digitos, I!PuntoIp
  <2>5. PICK k \in Nat : k = e.segs
    BY <2>3, PuntosCrecen
  <2>6. u \in Puntos(str, Len(str)) \cup {0}
    BY <1>1, <2>3 DEF Puntos
  <2>7. CASE c = I!PuntoIp
    <3>1. /\ Puntos(str, n + 1) = Puntos(str, n) \cup {n + 1}
          /\ Cardinality(Puntos(str, n + 1)) = k + 1
      <4>1. str[n + 1] = I!PuntoIp
        BY <1>2, <2>7
      <4>2. /\ Puntos(str, n + 1) = Puntos(str, n) \cup {n + 1}
            /\ Cardinality(Puntos(str, n + 1)) = Cardinality(Puntos(str, n)) + 1
        BY <4>1, PuntosCrecen, Zenon
      <4> QED BY <2>3, <2>5, <4>2
    <3>2. f = IF e.chcnt = 0 \/ e.segs + 1 = 4 THEN I!Mal
              ELSE [segs |-> e.segs + 1, chcnt |-> 0, accum |-> 0]
      BY <1>3, <1>5, <2>7, LeidoEs
    <3>3. CASE e.chcnt = 0
      <4>1. ~(u < n)
        BY <2>3, <3>3
      <4>2. ~I!EsDireccion(str)
        <5>1. u <= n /\ n <= Len(str) /\ n < Len(str) /\ str[n + 1] = I!PuntoIp
          BY <1>1, <1>2, <2>3, <2>7
        <5>2. I!EsDireccion(str) => u < n
          BY <2>4, <2>6, <5>1, TrasCorte, Zenon
        <5> QED BY <4>1, <5>2
      <4>3. f = I!Mal
        BY <3>2, <3>3
      <4> QED BY <1>2, <4>2, <4>3, Zenon DEF Bien
    <3>4. CASE e.segs + 1 = 4
      <4>1. Cardinality(Puntos(str, N)) # 3
        <5>1. Cardinality(Puntos(str, n + 1)) <= Cardinality(Puntos(str, N)) /\ Cardinality(Puntos(str, N)) \in Nat
          <6>1. n + 1 \in Nat /\ n + 1 <= N
            BY <1>1
          <6> QED BY <6>1, PuntosQuedan, PuntosCrecen
        <5> QED BY <2>5, <3>1, <3>4, <5>1
      <4>2. ~I!EsDireccion(str)
        BY <1>1, <4>1, DireccionEs
      <4>3. f = I!Mal
        BY <3>2, <3>4
      <4> QED BY <1>2, <4>2, <4>3, Zenon DEF Bien
    <3>5. CASE e.chcnt # 0 /\ e.segs + 1 # 4
      <4>1. f.segs = k + 1 /\ f.chcnt = 0 /\ f.accum = 0 /\ f # I!Mal
        <5>1. PICK s \in Int : s = e.segs + 1 /\ s = k + 1
          BY <2>5
        <5>2. f = [segs |-> s, chcnt |-> 0, accum |-> 0] /\ s # -1
          BY <2>5, <3>2, <3>5, <5>1
        <5>3. f.segs = s /\ f.chcnt = 0 /\ f.accum = 0
          BY <5>2
        <5>4. f # I!Mal
          BY <5>2, <5>3 DEF I!Mal
        <5> QED BY <5>1, <5>3, <5>4
      <4>2. PICK m \in Nat : m = n + 1
        OBVIOUS
      <4>3. Cifras(str, m, m) /\ ValorDe(str, m, m) = 0
        <5>1. Cifras(str, m, m)
          BY DEF Cifras
        <5> QED BY <5>1, ValorPaso
      <4>4. Cuenta(str, m, f, m)
        <5>1. f.segs <= 3
          BY <2>3, <2>5, <3>5, <4>1
        <5>2. m \in Puntos(str, m)
          BY <3>1, <4>2
        <5>3. f.chcnt = m - m /\ f.accum <= 255
          BY <4>1, <4>2
        <5> QED BY <3>1, <4>1, <4>2, <4>3, <5>1, <5>2, <5>3 DEF Cuenta
      <4>5. GruposHasta(str, m)
        <5>1. SUFFICES ASSUME NEW a \in Puntos(str, m) \cup {0}, NEW b \in Puntos(str, m), Vecinos(str, a, b)
                       PROVE  GrupoBien(str, a, b - 1)
          BY Zenon DEF GruposHasta
        <5>2. a < b
          BY <5>1, Zenon DEF Vecinos
        <5>3. a \in Puntos(str, n) \cup {0}
          <6>1. b <= m /\ \A x \in Puntos(str, m) \cup {0} : x \in Int
            BY <4>2 DEF Puntos
          <6>2. a # m
            BY <5>2, <6>1, <4>2
          <6> QED BY <3>1, <4>2, <6>2
        <5>4. CASE b \in Puntos(str, n)
          BY <2>1, <5>1, <5>3, <5>4, Zenon DEF GruposHasta
        <5>5. CASE b = n + 1
          <6>1. a = u
            BY <2>3, <5>1, <5>3, <5>5, UltimoGrupo
          <6>2. b - 1 = n
            BY <5>5
          <6>3. u < n
            BY <2>3, <3>5
          <6>4. GrupoBien(str, u, n)
            BY <2>3, <6>3 DEF GrupoBien
          <6> QED BY <6>1, <6>2, <6>4, Zenon
        <5> QED BY <3>1, <4>2, <5>4, <5>5
      <4>6. m \in 0 .. m
        OBVIOUS
      <4> QED BY <1>2, <4>1, <4>2, <4>4, <4>5, <4>6, Zenon DEF Bien
    <3> QED BY <3>3, <3>4, <3>5
  <2>8. CASE c # I!PuntoIp
    <3>1. Puntos(str, n + 1) = Puntos(str, n)
      BY <1>2, <2>8, PuntosCrecen
    <3>2. PICK m \in Nat : m = n + 1
      OBVIOUS
    <3>3. \A i \in u + 1 .. m : str[i] # I!PuntoIp
      <4>1. \A i \in u + 1 .. m : i \in u + 1 .. n \/ i = n + 1
        BY <2>3, <3>2
      <4> QED BY <1>2, <2>4, <2>8, <4>1
    <3>4. u <= m /\ m <= Len(str)
      BY <1>1, <2>3, <3>2
    <3>5. I!EsDireccion(str) => Cifras(str, u, m) /\ ValorDe(str, u, m) <= 255
      BY <2>6, <3>3, <3>4, TrasCorte
    <3>6. CASE c \notin I!Digitos
      <4>1. m \in u + 1 .. m
        BY <2>3, <3>2
      <4>2. ~Cifras(str, u, m)
        BY <1>2, <3>2, <3>6, <4>1, Zenon DEF Cifras
      <4>3. f = I!Mal
        BY <1>3, <1>5, <2>8, <3>6, LeidoEs
      <4> QED BY <1>2, <3>5, <4>2, <4>3, Zenon DEF Bien
    <3>7. CASE c \in I!Digitos
      <4>1. Cifras(str, u, m)
        <5>1. \A i \in u + 1 .. m : i \in u + 1 .. n \/ i = n + 1
          BY <2>3, <3>2
        <5> QED BY <1>2, <2>3, <3>7, <5>1, Zenon DEF Cifras
      <4>2. c \in Int
        BY <3>7 DEF I!Digitos
      <4>3. PICK v \in Nat : v = ValorDe(str, u, m) /\ v = e.accum * 10 + c
        <5>1. m > u /\ m - 1 = n
          BY <2>3, <3>2
        <5>2. /\ ValorDe(str, u, m) \in Nat
              /\ ValorDe(str, u, m) = ValorDe(str, u, m - 1) * 10 + str[m]
          BY <2>3, <3>4, <4>1, <5>1, ValorPaso
        <5>3. ValorDe(str, u, m) = e.accum * 10 + c
          BY <1>2, <2>3, <3>2, <5>1, <5>2
        <5> QED BY <5>2, <5>3
      <4>4. f = IF v > 255 THEN I!Mal
                ELSE [segs |-> e.segs, chcnt |-> e.chcnt + 1, accum |-> v]
        <5>1. f = IF e.accum * 10 + c > 255 THEN I!Mal
                  ELSE [segs |-> e.segs, chcnt |-> e.chcnt + 1, accum |-> e.accum * 10 + c]
          BY <1>3, <1>5, <3>7, LeidoEs
        <5> QED BY <4>3, <5>1, Zenon
      <4>5. CASE v > 255
        <5>1. ~I!EsDireccion(str)
          BY <3>5, <4>3, <4>5
        <5>2. f = I!Mal
          BY <4>4, <4>5
        <5> QED BY <1>2, <5>1, <5>2, Zenon DEF Bien
      <4>6. CASE ~(v > 255)
        <5>1. PICK s \in Int : s = e.chcnt + 1 /\ s = m - u
          BY <2>3, <3>2
        <5>2. f = [segs |-> k, chcnt |-> s, accum |-> v]
          BY <2>5, <4>4, <4>6, <5>1, Zenon
        <5>3. f.segs = k /\ f.chcnt = s /\ f.accum = v
          BY <5>2
        <5>4. f # I!Mal
          BY <5>2, <5>3 DEF I!Mal
        <5>5. Cuenta(str, m, f, u)
          <6>1. v <= 255 /\ k <= 3
            BY <2>3, <2>5, <4>6
          <6> QED BY <2>3, <2>5, <3>1, <3>2, <4>1, <4>3, <5>1, <5>3, <6>1, Zenon DEF Cuenta
        <5>6. GruposHasta(str, m)
          BY <2>1, <3>1, <3>2, Zenon DEF GruposHasta
        <5>7. u \in 0 .. m
          BY <2>3, <3>4
        <5> QED BY <1>2, <3>2, <5>4, <5>5, <5>6, <5>7, Zenon DEF Bien
      <4> QED BY <4>5, <4>6
    <3> QED BY <3>6, <3>7
  <2> QED BY <2>7, <2>8
<1> QED BY <1>4, <1>5

\* A string is told valid exactly when it is an address.
THEOREM ValidaDirecciones ==
  ASSUME NEW str \in Seq(I!CaracteresIp)
  PROVE  I!isValidIp4(str) <=> I!EsDireccion(str)
<1>1. PICK N \in Nat : N = Len(str)
  OBVIOUS
<1>2. PICK f \in [0 .. N -> Contadores] :
           /\ f[0] = I!Inicio
           /\ \A n \in 1 .. N : f[n] = I!Leido(f[n - 1], str[n])
           /\ I!isValidIp4(str) <=> (f[N].segs = 3 /\ f[N].chcnt # 0)
  BY <1>1, LecturaEs, Zenon
<1> DEFINE malos == {n \in 0 .. N : ~Bien(str, n, f[n])}
<1>3. malos = {}
  <2>1. SUFFICES ASSUME malos # {} PROVE FALSE
    OBVIOUS
  <2>2. PICK n \in malos : \A otro \in malos : n <= otro
    <3>1. malos \in SUBSET Nat
      OBVIOUS
    <3> QED BY <2>1, <3>1, Lista!Minimo
  <2>3. n \in 0 .. N /\ ~Bien(str, n, f[n])
    OBVIOUS
  <2>4. n # 0
    BY <1>2, <2>3, BienEmpieza, Zenon
  <2>5. PICK m \in Nat : m = n - 1 /\ n = m + 1 /\ m \in 0 .. N /\ m < N /\ n \in 1 .. N
    BY <2>3, <2>4
  <2>6. m \notin malos
    <3>1. SUFFICES ASSUME m \in malos PROVE FALSE
      OBVIOUS
    <3> HIDE DEF malos
    <3>2. n <= m
      BY <2>2, <3>1
    <3> QED BY <2>3, <2>5, <3>2
  <2>7. Bien(str, m, f[m]) /\ f[m] \in Contadores
    BY <1>2, <2>5, <2>6
  <2>8. Bien(str, m + 1, I!Leido(f[m], str[m + 1]))
    BY <1>1, <2>5, <2>7, BienPaso
  <2>9. f[n] = I!Leido(f[m], str[m + 1])
    <3>1. f[n] = I!Leido(f[n - 1], str[n])
      BY <1>2, <2>5
    <3> QED BY <2>5, <3>1
  <2> HIDE DEF malos
  <2> QED BY <2>3, <2>5, <2>8, <2>9, Zenon
<1>4. PICK e : e = f[N]
  OBVIOUS
<1>5. Bien(str, N, e) /\ e \in Contadores
  <2>1. N \in 0 .. N
    OBVIOUS
  <2>2. Bien(str, N, f[N])
    BY <1>3, <2>1
  <2> QED BY <1>2, <1>4, <2>1, <2>2
<1> HIDE DEF malos
<1>6. I!isValidIp4(str) <=> (e.segs = 3 /\ e.chcnt # 0)
  BY <1>2, <1>4, Zenon
<1>7. CASE e = I!Mal
  <2>1. ~I!EsDireccion(str)
    BY <1>5, <1>7, Zenon DEF Bien
  <2>2. e.segs # 3
    BY <1>7 DEF I!Mal
  <2> QED BY <1>6, <2>1, <2>2
<1>8. CASE e # I!Mal
  <2>1. GruposHasta(str, N) /\ \E u \in 0 .. N : Cuenta(str, N, e, u)
    BY <1>5, <1>8, Zenon DEF Bien
  <2>2. PICK u \in 0 .. N : Cuenta(str, N, e, u)
    BY <2>1
  <2>3. /\ u \in Puntos(str, N) \cup {0} /\ Cifras(str, u, N)
        /\ e.segs = Cardinality(Puntos(str, N))
        /\ e.chcnt = N - u /\ ValorDe(str, u, N) <= 255
    <3>1. e.accum = ValorDe(str, u, N) /\ e.accum <= 255
      BY <2>2, Zenon DEF Cuenta
    <3> QED BY <2>2, <3>1, Zenon DEF Cuenta
  <2>4. ASSUME I!isValidIp4(str) PROVE I!EsDireccion(str)
    <3>1. e.segs = 3 /\ u < N
      BY <1>6, <2>3, <2>4
    <3>2. ASSUME NEW a \in Puntos(str, N) \cup {0}, NEW b \in Puntos(str, N) \cup {N + 1}, Vecinos(str, a, b)
          PROVE  GrupoBien(str, a, b - 1)
      <4>1. CASE b \in Puntos(str, N)
        BY <2>1, <3>2, <4>1, Zenon DEF GruposHasta
      <4>2. CASE b = N + 1
        <5>1. a = u
          BY <2>3, <3>2, <4>2, UltimoGrupo
        <5>2. b - 1 = N
          BY <4>2
        <5>3. GrupoBien(str, u, N)
          BY <2>3, <3>1 DEF GrupoBien
        <5> QED BY <5>1, <5>2, <5>3, Zenon
      <4> QED BY <4>1, <4>2
    <3>3. Cardinality(Puntos(str, N)) = 3
      BY <2>3, <3>1
    <3> QED BY <1>1, <3>2, <3>3, DireccionEs, Zenon
  <2>5. ASSUME I!EsDireccion(str) PROVE I!isValidIp4(str)
    <3>1. Cardinality(Puntos(str, N)) = 3
      BY <1>1, <2>5, DireccionEs, Zenon
    <3>2. u < N
      <4>1. u \in Puntos(str, Len(str)) \cup {0} /\ u <= N /\ N <= Len(str)
        <5>1. u <= N /\ N <= Len(str)
          BY <1>1
        <5> QED BY <1>1, <2>3, <5>1, Zenon
      <4>2. \A i \in u + 1 .. N : str[i] # I!PuntoIp
        <5>1. \A i \in u + 1 .. N : str[i] \in I!Digitos
          BY <2>3, Zenon DEF Cifras
        <5>2. I!PuntoIp \notin I!Digitos
          BY DEF I!Digitos, I!PuntoIp
        <5> QED BY <5>1, <5>2, Zenon
      <4>3. u < Len(str)
        BY <2>5, <4>1, <4>2, TrasCorte
      <4> QED BY <1>1, <4>3
    <3>3. e.chcnt # 0
      BY <2>3, <3>2
    <3> QED BY <1>6, <2>3, <3>1, <3>3
  <2> QED BY <2>4, <2>5
<1> QED BY <1>7, <1>8

\* What the next function is called with is a buffer, and each has answered what it should.
FunInv ==
  /\ llamada \in {"quita0d0a", "limpiaBuffer"} => salida.buf \in Seq(Bytes)
  /\ AnswersAreRight

\* FunInv holds before any call.
LEMMA FunEmpieza == FunInit => FunInv
BY DEF FunInit, FunInv, AnswersAreRight, AddressesAreRight, CleanIsTrimmed, FileIsWhole,
       PadKeepsField, Tras

\* FunInv is inductive.
LEMMA FunInvPaso == FunInv /\ [FunNext]_funVars => FunInv'
<1> SUFFICES ASSUME FunInv, [FunNext]_funVars PROVE FunInv'
  OBVIOUS
<1>1. ASSUME NEW str \in Direcciones, Valida(str)
      PROVE  FunInv'
  <2>1. /\ llamada' = "isValidIp4" /\ entrada' = str
        /\ salida' = [buf |-> str, ret |-> IF I!isValidIp4(str) THEN 1 ELSE 0]
    BY <1>1, Zenon DEF Valida, Llama
  <2>2. str \in Seq(I!CaracteresIp)
    BY FuncionesAssumption
  <2>3. I!isValidIp4(str) <=> I!EsDireccion(str)
    BY <2>2, ValidaDirecciones
  <2>4. salida'.ret = 1 <=> I!EsDireccion(entrada')
    <3>1. salida'.ret = IF I!isValidIp4(str) THEN 1 ELSE 0
      BY <2>1
    <3>2. salida'.ret = 1 <=> I!isValidIp4(str)
      BY <3>1
    <3> QED BY <2>1, <2>3, <3>2
  <2> QED BY <2>1, <2>4 DEF FunInv, AnswersAreRight, AddressesAreRight, CleanIsTrimmed,
                            FileIsWhole, PadKeepsField, Tras
<1>2. ASSUME NEW linea \in Lineas, QuitaSalto(linea)
      PROVE  FunInv'
  <2>1. PICK dato : dato = Append(linea, NUL)
    OBVIOUS
  <2>2. dato \in Seq(Bytes)
    BY <2>1, FuncionesAssumption DEF Bytes
  <2>3. /\ llamada' = "quita0d0a"
        /\ salida' = [buf |-> quita0d0a(dato).buf, ret |-> quita0d0a(dato).ret]
    BY <1>2, <2>1, Zenon DEF QuitaSalto, Llama
  <2>4. salida'.buf \in Seq(Bytes)
    <3>1. salida'.buf = quita0d0a(dato).buf
      BY <2>3
    <3> QED BY <2>2, <3>1, QuitaSaltoEs
  <2> QED BY <2>3, <2>4 DEF FunInv, AnswersAreRight, AddressesAreRight, CleanIsTrimmed,
                            FileIsWhole, PadKeepsField, Tras
<1>3. ASSUME NEW linea \in Lineas, QuitaMates(linea)
      PROVE  FunInv'
  <2>1. llamada' = "quitaMates"
    BY <1>3, Zenon DEF QuitaMates, Llama
  <2> QED BY <2>1 DEF FunInv, AnswersAreRight, AddressesAreRight, CleanIsTrimmed,
                      FileIsWhole, PadKeepsField, Tras
<1>4. ASSUME NEW linea \in Lineas, Lee(linea)
      PROVE  FunInv'
  <2>1. /\ llamada' = "zluFile2Buf" /\ entrada' = linea
        /\ salida' = [buf |-> zluFile2Buf(linea), ret |-> 0]
    BY <1>4, Zenon DEF Lee, Llama
  <2>2. linea \in Seq(Bytes) /\ DOMAIN linea = 1 .. Len(linea)
    BY FuncionesAssumption
  <2>3. NUL \notin {linea[i] : i \in DOMAIN linea} => zluFile2Buf(linea) = linea
    <3>1. SUFFICES ASSUME NUL \notin {linea[i] : i \in DOMAIN linea} PROVE zluFile2Buf(linea) = linea
      OBVIOUS
    <3>2. \A i \in 1 .. Len(linea) : linea[i] # NUL
      BY <2>2, <3>1
    <3> QED BY <2>2, <3>2, FicheroEntero
  <2>4. salida'.buf = zluFile2Buf(linea)
    BY <2>1
  <2> QED BY <2>1, <2>3, <2>4, Zenon DEF FunInv, AnswersAreRight, AddressesAreRight, CleanIsTrimmed,
                                  FileIsWhole, PadKeepsField, Tras
<1>5. ASSUME Limpia
      PROVE  FunInv'
  <2>1. PICK dato, l : dato = salida.buf /\ l = limpiaBuffer(dato, strlen(dato))
    OBVIOUS
  <2>2. dato \in Seq(Bytes)
    BY <1>5, <2>1 DEF Limpia, FunInv
  <2>3. /\ llamada' = "limpiaBuffer" /\ entrada' = dato
        /\ salida' = [buf |-> l.buf, ret |-> l.len]
    BY <1>5, <2>1, Zenon DEF Limpia, Llama
  <2>4. salida'.buf = l.buf /\ salida'.ret = l.len
    BY <2>3
  <2>5. /\ l.buf \in Seq(Bytes) /\ l.len = Len(Texto(l.buf)) /\ Len(l.buf) = Len(dato)
        /\ Texto(l.buf) # <<>> => Head(Texto(l.buf)) # ESPACIO /\ Last(Texto(l.buf)) # ESPACIO
        /\ \E n, m \in 0 .. Len(dato) :
             Texto(dato) = [i \in 1 .. n |-> ESPACIO] \o Texto(l.buf) \o [i \in 1 .. m |-> ESPACIO]
    <3>1. LET k == limpiaBuffer(dato, strlen(dato))
              queda == Texto(k.buf)
          IN /\ k.buf \in Seq(Bytes) /\ k.len = Len(queda) /\ Len(k.buf) = Len(dato)
             /\ queda # <<>> => Head(queda) # ESPACIO /\ Last(queda) # ESPACIO
             /\ \E n, m \in 0 .. Len(dato) :
                  Texto(dato) = [i \in 1 .. n |-> ESPACIO] \o queda \o [i \in 1 .. m |-> ESPACIO]
      BY <2>2, LimpiaEs
    <3> QED BY <2>1, <3>1, Zenon
  <2>6. CleanIsTrimmed'
    <3>1. Texto(salida.buf)' = Texto(l.buf) /\ Texto(entrada)' = Texto(dato)
      BY <2>3, <2>4, Zenon
    <3> QED BY <2>3, <2>4, <2>5, <3>1, Zenon DEF CleanIsTrimmed
  <2> QED BY <2>3, <2>4, <2>5, <2>6 DEF FunInv, AnswersAreRight, AddressesAreRight,
                                        FileIsWhole, PadKeepsField, Tras
<1>6. ASSUME Rellena
      PROVE  FunInv'
  <2>1. PICK campo, p : campo = Texto(salida.buf) /\ p = padCerosIzquierda(campo, Largo)
    OBVIOUS
  <2>2. salida.buf \in Seq(Bytes)
    BY <1>6 DEF Rellena, FunInv
  <2>3. campo \in Seq(Bytes)
    BY <2>1, <2>2, TextoEs, Zenon
  <2>4. /\ llamada' = "padCerosIzquierda" /\ entrada' = campo
        /\ salida' = [buf |-> p, ret |-> 0]
    BY <1>6, <2>1, Zenon DEF Rellena, Llama
  <2>5. salida'.buf = p
    BY <2>4
  <2>6. /\ Len(p) = IF Len(campo) > Largo THEN Len(campo) ELSE Largo
        /\ IsSuffix(campo, p)
        /\ \A i \in 1 .. Len(p) - Len(campo) : p[i] = CERO
    BY <2>1, <2>3, RellenoEs, Zenon
  <2>7. PadKeepsField'
    BY <2>4, <2>5, <2>6, Zenon DEF PadKeepsField
  <2> QED BY <2>4, <2>7 DEF FunInv, AnswersAreRight, AddressesAreRight, CleanIsTrimmed,
                            FileIsWhole, Tras
<1>7. CASE UNCHANGED funVars
  BY <1>7 DEF funVars, FunInv, AnswersAreRight, AddressesAreRight, CleanIsTrimmed,
              FileIsWhole, PadKeepsField, Tras
<1> QED BY <1>1, <1>2, <1>3, <1>4, <1>5, <1>6, <1>7, Zenon DEF FunNext

-----------------------------------------------------------------------------
\* The directories of zlDir.

\* While the directory is walked, a file that nobody touches is in the answer exactly
\* when readdir has had it, zlDirNext has looked at it, and it passes the filters.
DirInv ==
  /\ tipo \in [Nombres -> TiposFile]
  /\ fijos \subseteq Nombres
  /\ leido \in Nombres \cup {NULL}
  /\ zlDir # NULL => zlDir \in [pendientes : SUBSET Nombres]
  /\ zlDir = NULL => leido = NULL
  /\ completo => zlDir = NULL
  /\ zlDir # NULL =>
       /\ leido \notin zlDir.pendientes
       /\ \A n \in fijos : 
            n \in nombres <=> /\ n \notin zlDir.pendientes \cup {leido}
                              /\ n \in Coinciden /\ tipo[n] = "Regular"
  /\ UntouchedAreListed

\* DirInv is inductive: whoever touches a file takes it out of those nobody touches.
LEMMA DirInvPaso == DirInv /\ [DirNext]_dirVars => DirInv'
<1> SUFFICES ASSUME DirInv, [DirNext]_dirVars PROVE DirInv'
  OBVIOUS
<1> USE DirAssumption
<1>1. ASSUME NEW n \in Nombres, NEW t \in TiposFile, CambiaFichero(n, t)
      PROVE  DirInv'
  BY <1>1 DEF DirInv, CambiaFichero, handleVars, UntouchedAreListed
<1>2. CASE zlDirFor
  BY <1>2 DEF DirInv, zlDirFor, UntouchedAreListed
<1>3. ASSUME NEW n \in Nombres, Readdir(n)
      PROVE  DirInv'
  <2>1. /\ zlDir \in [pendientes : SUBSET Nombres] /\ zlDir # NULL /\ leido = NULL
        /\ ~completo /\ completo' = completo
        /\ zlDir' \in [pendientes : SUBSET Nombres]
        /\ zlDir'.pendientes = zlDir.pendientes \ {n}
        /\ zlDir' # NULL
        /\ leido' = n /\ n \in zlDir.pendientes
        /\ UNCHANGED <<tipo, nombres, fijos>>
    BY <1>3 DEF DirInv, Readdir, EnBucleNext
  <2> QED BY <2>1 DEF DirInv, UntouchedAreListed
<1>4. CASE zlDirNext
  BY <1>4 DEF DirInv, zlDirNext, Pasa, zlDirTipoFichero, UntouchedAreListed
<1>5. CASE NextNull
  BY <1>5 DEF DirInv, NextNull, EnBucleNext, UntouchedAreListed
<1>6. CASE zlDirClose
  BY <1>6 DEF DirInv, zlDirClose, EnBucleNext, UntouchedAreListed
<1>7. CASE UNCHANGED dirVars
  BY <1>7 DEF DirInv, dirVars, handleVars, UntouchedAreListed
<1> QED BY <1>1, <1>2, <1>3, <1>4, <1>5, <1>6, <1>7 DEF DirNext

\* And holds before any walk.
LEMMA DirEmpieza == DirInit => DirInv
BY DirAssumption DEF DirInit, DirInv, UntouchedAreListed

\* A walk of zlDir that has come to its end has answered, of the files that nobody
\* touched while it went on, all those that pass the filters and no other, for any
\* directory and any changes to it.
THEOREM WalkListsUntouched == DirSpec => []UntouchedAreListed
<1>1. DirInv => UntouchedAreListed
  BY DEF DirInv
<1> QED BY <1>1, DirEmpieza, DirInvPaso, PTL DEF DirSpec

-----------------------------------------------------------------------------
\* The list of zlLista1.

\* What a walk has seen are the first itera items, in their order.
ListaInv == /\ items \in Seq(Valores) /\ vistos \in Seq(Valores)
            /\ itera = Len(vistos) /\ itera <= Len(items)
            /\ \A i \in 1 .. itera : vistos[i] = items[i]
            /\ acabado => itera = Len(items)

\* ListaInv is inductive: what is added in the middle of a walk is put at the end.
LEMMA ListaInvPaso == ListaInv /\ [ListaNext]_listaVars => ListaInv'
<1> SUFFICES ASSUME ListaInv, [ListaNext]_listaVars PROVE ListaInv'
  OBVIOUS
<1>0. Len(items) \in Nat /\ Len(vistos) \in Nat
  BY LenProperties DEF ListaInv
<1>1. ASSUME NEW item \in Valores, zlLista1Add(item)
      PROVE  ListaInv'
  <2>1. /\ items' \in Seq(Valores) /\ Len(items') = Len(items) + 1
        /\ \A i \in 1 .. Len(items) : items'[i] = items[i]
    BY <1>1, AppendProperties DEF ListaInv, zlLista1Add
  <2> QED BY <1>0, <1>1, <2>1 DEF ListaInv, zlLista1Add
<1>2. CASE zlLista1For
  BY <1>0, <1>2, EmptySeq DEF ListaInv, zlLista1For
<1>3. CASE zlLista1Next
  <2>1. AlFinal <=> itera = Len(items)
    BY <1>0 DEF ListaInv, AlFinal, num
  <2>2. CASE AlFinal
    BY <1>3, <2>1, <2>2 DEF ListaInv, zlLista1Next
  <2>3. CASE ~AlFinal
    <3>1. itera + 1 \in 1 .. Len(items)
      BY <1>0, <2>1, <2>3 DEF ListaInv
    <3>2. vistos' = Append(vistos, items[itera + 1]) /\ items[itera + 1] \in Valores
      BY <1>3, <2>3, <3>1, ElementOfSeq DEF ListaInv, zlLista1Next, zlLista1Item
    <3>3. /\ vistos' \in Seq(Valores) /\ Len(vistos') = itera + 1
          /\ vistos'[itera + 1] = items[itera + 1]
          /\ \A i \in 1 .. itera : vistos'[i] = vistos[i]
      BY <3>2, AppendProperties DEF ListaInv
    <3>4. \A i \in 1 .. itera + 1 : vistos'[i] = items[i]
      BY <1>0, <3>3 DEF ListaInv
    <3> QED BY <1>3, <2>3, <3>1, <3>3, <3>4 DEF ListaInv, zlLista1Next
  <2> QED BY <2>2, <2>3
<1>4. CASE UNCHANGED listaVars
  BY <1>4 DEF ListaInv, listaVars
<1> QED BY <1>1, <1>2, <1>3, <1>4 DEF ListaNext

\* It says what WalkSeesAll asks for.
LEMMA ListaEnOrden == ListaInv => WalkSeesAll
<1> SUFFICES ASSUME ListaInv PROVE WalkSeesAll
  OBVIOUS
<1>0. /\ Len(items) \in Nat /\ Len(vistos) \in Nat /\ Len(vistos) <= Len(items)
      /\ \A i \in 1 .. Len(vistos) : items[i] \in Valores
  BY LenProperties, ElementOfSeq DEF ListaInv
<1>1. vistos = SubSeq(items, 1, Len(vistos))
  <2>1. /\ SubSeq(items, 1, Len(vistos)) \in Seq(Valores)
        /\ Len(SubSeq(items, 1, Len(vistos))) = Len(vistos)
        /\ \A i \in 1 .. Len(vistos) : SubSeq(items, 1, Len(vistos))[i] = items[i]
    BY <1>0, SubSeqProperties DEF ListaInv
  <2> QED BY <2>1, SeqEqual DEF ListaInv
<1>2. acabado => vistos = items
  BY SeqEqual DEF ListaInv
<1> QED BY <1>1, <1>2 DEF WalkSeesAll

\* A walk of zlLista1 sees each item once and in order, and all of them when it comes to
\* the end, also those added while it went on: for any items and any length.
THEOREM WalkSeesAllItems == ListaSpec => []WalkSeesAll
<1>1. ListaInit => ListaInv
  BY EmptySeq DEF ListaInit, ListaInv
<1> QED BY <1>1, ListaInvPaso, ListaEnOrden, PTL DEF ListaSpec

-----------------------------------------------------------------------------
\* The linked list of i+d.

\* f is the walk of n steps along sig from ini: the recursive definition of desde in
\* module Enlazada, of which nothing is known until it is shown that there is such an f.
Recorre(f, ini, sig, n) == f = [pos \in 1 .. n |-> IF pos = 1 THEN ini ELSE sig[f[pos - 1]]]

\* There is one of any number of steps: the least number without one would be that of a
\* walk that goes one step further than another.
LEMMA HayRecorrido ==
  ASSUME NEW ini, NEW sig, NEW N \in Nat
  PROVE  \E f : Recorre(f, ini, sig, N)
<1> DEFINE malos == {n \in Nat : ~ \E f : Recorre(f, ini, sig, n)}
<1>1. SUFFICES malos = {}
  OBVIOUS
<1>2. SUFFICES ASSUME malos # {} PROVE FALSE
  OBVIOUS
<1>3. PICK n \in malos : \A otro \in malos : n <= otro
  <2>1. malos \in SUBSET Nat
    OBVIOUS
  <2> QED BY <1>2, <2>1, Lista!Minimo
<1>4. n \in Nat /\ ~ \E f : Recorre(f, ini, sig, n)
  OBVIOUS
<1>5. CASE n = 0
  <2>1. Recorre([pos \in 1 .. 0 |-> ini], ini, sig, 0)
    BY DEF Recorre
  <2> QED BY <1>4, <1>5, <2>1
<1>6. CASE n # 0
  <2>1. n - 1 \in Nat /\ n - 1 \notin malos
    BY <1>3, <1>4, <1>6
  <2>2. PICK g : Recorre(g, ini, sig, n - 1)
    BY <2>1
  <2> DEFINE f == [pos \in 1 .. n |-> IF pos = 1 THEN ini ELSE sig[g[pos - 1]]]
  <2>3. \A pos \in 1 .. n - 1 : g[pos] = IF pos = 1 THEN ini ELSE sig[g[pos - 1]]
    BY <2>2 DEF Recorre
  <2>4. \A pos \in 1 .. n - 1 : f[pos] = g[pos]
    BY <1>4, <2>3
  <2>5. ASSUME NEW pos \in 1 .. n, pos # 1
        PROVE  f[pos - 1] = g[pos - 1]
    <3>1. pos - 1 \in 1 .. n - 1
      BY <1>4, <2>5
    <3> QED BY <2>4, <3>1
  <2>6. f = [pos \in 1 .. n |-> IF pos = 1 THEN ini ELSE sig[f[pos - 1]]]
    BY <2>5
  <2>7. \E h : Recorre(h, ini, sig, n)
    BY <2>6 DEF Recorre
  <2> QED BY <1>4, <2>7
<1> QED BY <1>5, <1>6

\* c is the chain of the n elements of vs, each once, from ini to ultimo along sig.
Hilera(c, n, vs, sig, ini, ultimo) ==
  /\ c \in [1 .. n -> vs]
  /\ \A i, j \in 1 .. n : c[i] = c[j] => i = j
  /\ \A e \in vs : \E i \in 1 .. n : c[i] = e
  /\ n > 0 => c[1] = ini /\ c[n] = ultimo /\ sig[ultimo] = NULL
  /\ n = 0 => ini = NULL /\ ultimo = NULL
  /\ \A i \in 1 .. n - 1 : sig[c[i]] = c[i + 1]

\* They can be put in such a chain.
HayCadena(n, vs, sig, ini, ultimo) == \E c : Hilera(c, n, vs, sig, ini, ultimo)

\* What desde is in each of its positions.
LEMMA DesdeRecorre ==
  desde = [pos \in 1 .. Cardinality(Elementos) |->
             IF pos = 1 THEN inicio ELSE siguiente[desde[pos - 1]]]
<1>1. Cardinality(Elementos) \in Nat
  BY EnlazadaAssumption, FS_CardinalityType
<1> DEFINE Es(f) == Recorre(f, inicio, siguiente, Cardinality(Elementos))
<1>2. \E f : Es(f)
  BY <1>1, HayRecorrido
<1>3. desde = CHOOSE f : Es(f)
  BY DEF desde, Recorre
<1>4. Es(desde)
  BY <1>2, <1>3
<1> QED BY <1>4 DEF Recorre

\* The length of a chain is the number of the elements in it.
LEMMA CadenaCabe ==
  ASSUME NEW n \in Nat, NEW vs \in SUBSET Elementos, NEW sig, NEW ini, NEW ultimo,
         NEW c, Hilera(c, n, vs, sig, ini, ultimo)
  PROVE  n = Cardinality(vs) /\ n <= Cardinality(Elementos) /\ Cardinality(Elementos) \in Nat
<1>1. IsFiniteSet(Elementos) /\ IsFiniteSet(vs) /\ Cardinality(Elementos) \in Nat
      /\ Cardinality(vs) <= Cardinality(Elementos)
  BY EnlazadaAssumption, FS_Subset, FS_CardinalityType
<1>2. IsFiniteSet(1 .. n) /\ Cardinality(1 .. n) = n
  BY FS_Interval
<1>3. ExistsBijection(1 .. n, vs)
  BY DEF Hilera, ExistsBijection, Bijection, Injection, Surjection, IsInjective
<1>4. Cardinality(vs) = n
  BY <1>1, <1>2, <1>3, FS_Bijection
<1> QED BY <1>1, <1>4

\* The walk from inicio goes along the chain.
LEMMA DesdeEsCadena ==
  ASSUME NEW n \in Nat, vivos \subseteq Elementos,
         NEW c, Hilera(c, n, vivos, siguiente, inicio, fin)
  PROVE  \A i \in 1 .. n : desde[i] = c[i]
<1> DEFINE malos == {i \in 1 .. n : desde[i] # c[i]}
<1>1. n <= Cardinality(Elementos) /\ Cardinality(Elementos) \in Nat
  BY CadenaCabe
<1>2. \A i \in 1 .. n : desde[i] = IF i = 1 THEN inicio ELSE siguiente[desde[i - 1]]
  BY <1>1, DesdeRecorre
<1>3. SUFFICES ASSUME malos # {} PROVE FALSE
  OBVIOUS
<1>4. PICK i \in malos : \A otro \in malos : i <= otro
  <2>1. malos \in SUBSET Nat
    OBVIOUS
  <2> QED BY <1>3, <2>1, Lista!Minimo
<1>5. CASE i = 1
  BY <1>2, <1>5 DEF Hilera
<1>6. CASE i # 1
  <2>1. i - 1 \in 1 .. n - 1 /\ i - 1 \in 1 .. n /\ i - 1 \notin malos
    BY <1>4, <1>6
  <2>2. desde[i - 1] = c[i - 1] /\ siguiente[c[i - 1]] = c[(i - 1) + 1]
    BY <2>1 DEF Hilera
  <2> QED BY <1>2, <1>4, <1>6, <2>1, <2>2
<1> QED BY <1>5, <1>6

\* An element put after the first p of the chain leaves a chain: the four functions that
\* insert, at the beginning, at the end, in the middle and in an empty list.
LEMMA CadenaCrece ==
  ASSUME tamanyo \in Nat, NEW c,
         Hilera(c, tamanyo, vivos, siguiente, inicio, fin),
         NEW e, e \notin vivos, NEW p \in 0 .. tamanyo,
         p = tamanyo => siguiente'[e] = NULL,
         p < tamanyo => siguiente'[e] = c[p + 1],
         p > 0 => siguiente'[c[p]] = e,
         \A x \in vivos : (p > 0 => x # c[p]) => siguiente'[x] = siguiente[x],
         inicio' = IF p = 0 THEN e ELSE inicio,
         fin' = IF p = tamanyo THEN e ELSE fin
  PROVE  HayCadena(tamanyo + 1, vivos \cup {e}, siguiente', inicio', fin')
<1> DEFINE d == [i \in 1 .. tamanyo + 1 |-> IF i <= p THEN c[i] ELSE IF i = p + 1 THEN e ELSE c[i - 1]]
<1>0. /\ c \in [1 .. tamanyo -> vivos]
      /\ \A i, j \in 1 .. tamanyo : c[i] = c[j] => i = j
      /\ \A x \in vivos : \E i \in 1 .. tamanyo : c[i] = x
      /\ tamanyo > 0 => c[1] = inicio /\ c[tamanyo] = fin /\ siguiente[fin] = NULL
      /\ \A i \in 1 .. tamanyo - 1 : siguiente[c[i]] = c[i + 1]
  BY DEF Hilera
<1>1. /\ \A i \in 1 .. p : d[i] = c[i]
      /\ d[p + 1] = e
      /\ \A i \in p + 2 .. tamanyo + 1 : d[i] = c[i - 1]
  OBVIOUS
<1>2. d \in [1 .. tamanyo + 1 -> vivos \cup {e}]
  <2>1. ASSUME NEW i \in 1 .. tamanyo + 1
        PROVE  d[i] \in vivos \cup {e}
    <3>1. CASE i \in 1 .. p
      BY <1>0, <1>1, <3>1
    <3>2. CASE i = p + 1
      BY <1>1, <3>2
    <3>3. CASE i \in p + 2 .. tamanyo + 1
      <4>1. i - 1 \in 1 .. tamanyo
        BY <3>3
      <4> QED BY <1>0, <1>1, <3>3, <4>1
    <3> QED BY <3>1, <3>2, <3>3
  <2> QED BY <2>1
<1>3. \A i, j \in 1 .. tamanyo + 1 : d[i] = d[j] => i = j
  <2> DEFINE h(i) == IF i <= p THEN i ELSE i - 1
  <2>1. \A i \in 1 .. tamanyo + 1 : i # p + 1 => h(i) \in 1 .. tamanyo /\ d[i] = c[h(i)] /\ d[i] # e
    BY <1>0
  <2>2. \A i, j \in 1 .. tamanyo + 1 : i # p + 1 /\ j # p + 1 /\ h(i) = h(j) => i = j
    OBVIOUS
  <2> HIDE DEF d, h
  <2>3. ASSUME NEW i \in 1 .. tamanyo + 1, NEW j \in 1 .. tamanyo + 1, d[i] = d[j]
        PROVE  i = j
    <3>1. CASE i = p + 1 \/ j = p + 1
      BY <1>1, <2>1, <2>3, <3>1
    <3>2. CASE i # p + 1 /\ j # p + 1
      <4>1. h(i) \in 1 .. tamanyo /\ h(j) \in 1 .. tamanyo /\ c[h(i)] = c[h(j)]
        BY <2>1, <2>3, <3>2
      <4>2. h(i) = h(j)
        BY <1>0, <4>1
      <4> QED BY <2>2, <3>2, <4>2
    <3> QED BY <3>1, <3>2
  <2> QED BY <2>3
<1>4. \A x \in vivos \cup {e} : \E i \in 1 .. tamanyo + 1 : d[i] = x
  <2>1. ASSUME NEW k \in 1 .. tamanyo PROVE \E i \in 1 .. tamanyo + 1 : d[i] = c[k]
    <3>1. CASE k <= p
      <4>1. k \in 1 .. p /\ k \in 1 .. tamanyo + 1
        BY <3>1
      <4> QED BY <1>1, <4>1
    <3>2. CASE k > p
      <4>1. k + 1 \in p + 2 .. tamanyo + 1 /\ k + 1 \in 1 .. tamanyo + 1 /\ (k + 1) - 1 = k
        BY <3>2
      <4> QED BY <1>1, <4>1
    <3> QED BY <3>1, <3>2
  <2>2. p + 1 \in 1 .. tamanyo + 1
    OBVIOUS
  <2> HIDE DEF d
  <2>3. ASSUME NEW x \in vivos PROVE \E i \in 1 .. tamanyo + 1 : d[i] = x
    <3>1. PICK k \in 1 .. tamanyo : c[k] = x
      BY <1>0
    <3> QED BY <2>1, <3>1
  <2> QED BY <1>1, <2>2, <2>3
<1>5. /\ d[1] = IF p = 0 THEN e ELSE inicio
      /\ d[tamanyo + 1] = IF p = tamanyo THEN e ELSE fin
  BY <1>0
<1> HIDE DEF d
<1>6. \A i \in 1 .. tamanyo : siguiente'[d[i]] = d[i + 1]
  <2>1. ASSUME NEW i \in 1 .. tamanyo PROVE siguiente'[d[i]] = d[i + 1]
    <3>1. CASE i \in 1 .. p - 1
      <4>1. i \in 1 .. tamanyo - 1 /\ i \in 1 .. p /\ i + 1 \in 1 .. p /\ i # p /\ p \in 1 .. tamanyo
        BY <3>1
      <4>2. c[i] \in vivos /\ c[i] # c[p]
        BY <1>0, <4>1
      <4>3. d[i] = c[i] /\ d[i + 1] = c[i + 1] /\ siguiente[c[i]] = c[i + 1]
        BY <1>0, <1>1, <4>1
      <4> QED BY <4>2, <4>3
    <3>2. CASE i = p
      BY <1>1, <3>2
    <3>3. CASE i = p + 1
      <4>1. d[i] = e /\ p < tamanyo /\ i + 1 \in p + 2 .. tamanyo + 1 /\ (i + 1) - 1 = p + 1
        BY <1>1, <3>3
      <4> QED BY <1>1, <4>1
    <3>4. CASE i \in p + 2 .. tamanyo
      <4>1. i - 1 \in 1 .. tamanyo - 1 /\ i + 1 \in p + 2 .. tamanyo + 1 /\ i \in p + 2 .. tamanyo + 1
            /\ (i - 1) + 1 = i /\ (i + 1) - 1 = i /\ (p > 0 => p \in 1 .. tamanyo) /\ i - 1 # p
        BY <3>4
      <4>2. c[i - 1] \in vivos /\ (p > 0 => c[i - 1] # c[p])
        BY <1>0, <4>1
      <4>3. d[i] = c[i - 1] /\ d[i + 1] = c[i] /\ siguiente[c[i - 1]] = c[i]
        BY <1>0, <1>1, <4>1
      <4>4. siguiente'[c[i - 1]] = siguiente[c[i - 1]]
        BY <4>2
      <4> QED BY <4>3, <4>4
    <3> QED BY <3>1, <3>2, <3>3, <3>4
  <2> QED BY <2>1
<1>7. siguiente'[IF p = tamanyo THEN e ELSE fin] = NULL
  <2>1. CASE p = tamanyo
    BY <2>1
  <2>2. CASE p # tamanyo
    <3>1. tamanyo \in 1 .. tamanyo /\ (p > 0 => p \in 1 .. tamanyo)
      BY <2>2
    <3>2. fin \in vivos /\ (p > 0 => fin # c[p])
      BY <1>0, <2>2, <3>1
    <3> QED BY <1>0, <2>2, <3>2
  <2> QED BY <2>1, <2>2
<1>8. tamanyo + 1 > 0 /\ tamanyo + 1 # 0 /\ (tamanyo + 1) - 1 = tamanyo
  OBVIOUS
<1>9. Hilera(d, tamanyo + 1, vivos \cup {e}, siguiente', inicio', fin')
  BY <1>2, <1>3, <1>4, <1>5, <1>6, <1>7, <1>8 DEF Hilera
<1> QED BY <1>9 DEF HayCadena

\* So does the p-th element taken out: the two functions that remove.
LEMMA CadenaMengua ==
  ASSUME tamanyo \in Nat, NEW c,
         Hilera(c, tamanyo, vivos, siguiente, inicio, fin),
         NEW p \in 1 .. tamanyo,
         p > 1 => siguiente'[c[p - 1]] = siguiente[c[p]],
         \A x \in vivos : (p > 1 => x # c[p - 1]) => siguiente'[x] = siguiente[x],
         inicio' = IF p = 1 THEN siguiente[c[1]] ELSE inicio,
         fin' = IF tamanyo = 1 THEN NULL ELSE IF p = tamanyo THEN c[tamanyo - 1] ELSE fin
  PROVE  HayCadena(tamanyo - 1, vivos \ {c[p]}, siguiente', inicio', fin')
<1> DEFINE h(i) == IF i < p THEN i ELSE i + 1
           d == [i \in 1 .. tamanyo - 1 |-> c[h(i)]]
<1>0. /\ c \in [1 .. tamanyo -> vivos]
      /\ \A i, j \in 1 .. tamanyo : c[i] = c[j] => i = j
      /\ \A x \in vivos : \E i \in 1 .. tamanyo : c[i] = x
      /\ c[1] = inicio /\ c[tamanyo] = fin /\ siguiente[fin] = NULL
      /\ \A i \in 1 .. tamanyo - 1 : siguiente[c[i]] = c[i + 1]
  BY DEF Hilera
<1>1. \A i \in 1 .. tamanyo - 1 : h(i) \in 1 .. tamanyo /\ h(i) # p
  OBVIOUS
<1>2. \A i, j \in 1 .. tamanyo - 1 : h(i) = h(j) => i = j
  OBVIOUS
<1>3. \A k \in 1 .. tamanyo : k # p => \E i \in 1 .. tamanyo - 1 : h(i) = k
  <2>1. ASSUME NEW k \in 1 .. tamanyo, k < p PROVE k \in 1 .. tamanyo - 1 /\ h(k) = k
    BY <2>1
  <2>2. ASSUME NEW k \in 1 .. tamanyo, k > p PROVE k - 1 \in 1 .. tamanyo - 1 /\ h(k - 1) = k
    BY <2>2
  <2> QED BY <2>1, <2>2
<1>4. d \in [1 .. tamanyo - 1 -> vivos \ {c[p]}]
  <2> HIDE DEF h
  <2> QED BY <1>0, <1>1
<1>5. \A i, j \in 1 .. tamanyo - 1 : d[i] = d[j] => i = j
  <2> HIDE DEF h
  <2> QED BY <1>0, <1>1, <1>2
<1>6. \A x \in vivos \ {c[p]} : \E i \in 1 .. tamanyo - 1 : d[i] = x
  <2>1. ASSUME NEW x \in vivos \ {c[p]} PROVE \E i \in 1 .. tamanyo - 1 : d[i] = x
    <3>1. PICK k \in 1 .. tamanyo : c[k] = x
      BY <1>0
    <3>2. PICK i \in 1 .. tamanyo - 1 : h(i) = k
      BY <1>3, <2>1, <3>1
    <3> HIDE DEF h
    <3> QED BY <3>1, <3>2
  <2> QED BY <2>1
<1>7. \A i \in 1 .. tamanyo - 2 : siguiente'[d[i]] = d[i + 1]
  <2>1. ASSUME NEW i \in 1 .. tamanyo - 2 PROVE siguiente'[d[i]] = d[i + 1]
    <3>0. i \in 1 .. tamanyo - 1 /\ i + 1 \in 1 .. tamanyo - 1 /\ d[i] = c[h(i)] /\ d[i + 1] = c[h(i + 1)]
      OBVIOUS
    <3>1. CASE i = p - 1
      <4>1. h(i) = p - 1 /\ h(i + 1) = p + 1 /\ p > 1 /\ p \in 1 .. tamanyo - 1
        BY <3>1
      <4> HIDE DEF h, d
      <4> QED BY <1>0, <3>0, <4>1
    <3>2. CASE i # p - 1
      <4>1. h(i + 1) = h(i) + 1 /\ h(i) # p - 1 /\ h(i) \in 1 .. tamanyo - 1
            /\ h(i) \in 1 .. tamanyo /\ (p > 1 => p - 1 \in 1 .. tamanyo)
        BY <3>2
      <4> HIDE DEF h, d
      <4>2. c[h(i)] \in vivos /\ (p > 1 => c[h(i)] # c[p - 1])
        BY <1>0, <4>1
      <4>3. siguiente'[c[h(i)]] = siguiente[c[h(i)]] /\ siguiente[c[h(i)]] = c[h(i) + 1]
        BY <1>0, <4>1, <4>2
      <4> QED BY <3>0, <4>1, <4>3
    <3> QED BY <3>1, <3>2
  <2> QED BY <2>1
<1>8. ASSUME tamanyo - 1 > 0
      PROVE  d[1] = inicio' /\ d[tamanyo - 1] = fin' /\ siguiente'[fin'] = NULL
  <2>1. 1 \in 1 .. tamanyo - 1 /\ tamanyo - 1 \in 1 .. tamanyo - 1 /\ tamanyo \in 1 .. tamanyo /\ 1 \in 1 .. tamanyo /\ tamanyo # 1
    BY <1>8
  <2>2. d[1] = inicio'
    <3>1. CASE p = 1
      BY <1>0, <2>1, <3>1
    <3>2. CASE p # 1
      BY <1>0, <2>1, <3>2
    <3> QED BY <3>1, <3>2
  <2>3. CASE p = tamanyo
    <3>1. fin' = c[tamanyo - 1] /\ d[tamanyo - 1] = c[tamanyo - 1] /\ p > 1
      BY <1>0, <2>1, <2>3
    <3> QED BY <1>0, <2>2, <2>3, <3>1
  <2>4. CASE p # tamanyo
    <3>1. fin' = fin /\ d[tamanyo - 1] = c[tamanyo]
      BY <1>0, <2>1, <2>4
    <3>2. p > 1 => p - 1 \in 1 .. tamanyo /\ p - 1 # tamanyo
      OBVIOUS
    <3>3. fin \in vivos /\ (p > 1 => fin # c[p - 1])
      BY <1>0, <2>1, <3>2
    <3> QED BY <1>0, <2>2, <3>1, <3>3
  <2> QED BY <2>3, <2>4
<1>9. ASSUME tamanyo - 1 = 0
      PROVE  inicio' = NULL /\ fin' = NULL
  <2>1. tamanyo = 1 /\ p = 1
    BY <1>9
  <2> QED BY <1>0, <2>1
<1>10. (tamanyo - 1) - 1 = tamanyo - 2
  OBVIOUS
<1> HIDE DEF d, h
<1>11. Hilera(d, tamanyo - 1, vivos \ {c[p]}, siguiente', inicio', fin')
  BY <1>4, <1>5, <1>6, <1>7, <1>8, <1>9, <1>10 DEF Hilera
<1> QED BY <1>11 DEF HayCadena

\* The elements that are allocated are those of the chain, and tamanyo counts them.
EnlazadaInv == /\ siguiente \in [Elementos -> Elementos \cup {NULL}]
               /\ vivos \subseteq Elementos
               /\ tamanyo \in Nat
               /\ HayCadena(tamanyo, vivos, siguiente, inicio, fin)

\* EnlazadaInv is inductive.
LEMMA EnlazadaInvPaso == EnlazadaInv /\ [EnlazadaNext]_enlazadaVars => EnlazadaInv'
<1> SUFFICES ASSUME EnlazadaInv, [EnlazadaNext]_enlazadaVars PROVE EnlazadaInv'
  OBVIOUS
<1>0. /\ siguiente \in [Elementos -> Elementos \cup {NULL}]
      /\ vivos \subseteq Elementos
      /\ tamanyo \in Nat
  BY DEF EnlazadaInv
<1>1. PICK c : Hilera(c, tamanyo, vivos, siguiente, inicio, fin)
  BY DEF EnlazadaInv, HayCadena
<1>2. /\ \A i \in 1 .. tamanyo : desde[i] = c[i] /\ c[i] \in vivos /\ c[i] \in Elementos
      /\ \A i, j \in 1 .. tamanyo : c[i] = c[j] => i = j
      /\ tamanyo > 0 => c[1] = inicio /\ c[tamanyo] = fin /\ siguiente[fin] = NULL
                  /\ inicio \in vivos /\ fin \in vivos
      /\ \A i \in 1 .. tamanyo - 1 : siguiente[c[i]] = c[i + 1]
  <2>1. \A i \in 1 .. tamanyo : desde[i] = c[i]
    BY <1>0, <1>1, DesdeEsCadena
  <2>2. tamanyo > 0 => 1 \in 1 .. tamanyo /\ tamanyo \in 1 .. tamanyo
    BY <1>0
  <2> QED BY <1>0, <1>1, <2>1, <2>2 DEF Hilera
<1>3. ASSUME NEW e \in Elementos, ins_en_lista_vacia(e)
      PROVE  EnlazadaInv'
  <2>1. /\ tamanyo = 0 /\ e \notin vivos
        /\ siguiente' = [siguiente EXCEPT ![e] = NULL] /\ vivos' = vivos \cup {e}
        /\ inicio' = e /\ fin' = e /\ tamanyo' = tamanyo + 1
    BY <1>3 DEF ins_en_lista_vacia, NuevoNodo
  <2>2. 0 \in 0 .. tamanyo
    BY <2>1
  <2>3. vivos = {}
    BY <1>1, <2>1 DEF Hilera
  <2>4. HayCadena(tamanyo + 1, vivos \cup {e}, siguiente', inicio', fin')
    <3>1. /\ e \notin vivos /\ siguiente'[e] = NULL /\ inicio' = e /\ fin' = e
          /\ 0 = tamanyo /\ ~(0 < tamanyo) /\ ~(0 > 0)
      BY <1>0, <2>1
    <3>2. tamanyo \in Nat
      BY <1>0
    <3> HIDE DEF HayCadena, Hilera
    <3> QED BY <1>1, <2>2, <2>3, <3>1, <3>2, CadenaCrece
  <2> QED BY <1>0, <2>1, <2>4 DEF EnlazadaInv
<1>4. ASSUME NEW e \in Elementos, ins_inicio_lista(e)
      PROVE  EnlazadaInv'
  <2>1. /\ tamanyo > 0 /\ e \notin vivos
        /\ siguiente' = [siguiente EXCEPT ![e] = inicio] /\ vivos' = vivos \cup {e}
        /\ inicio' = e /\ fin' = fin /\ tamanyo' = tamanyo + 1
    BY <1>0, <1>4 DEF ins_inicio_lista, NuevoNodo
  <2>2. 0 \in 0 .. tamanyo /\ 0 # tamanyo
    BY <1>0, <2>1
  <2>3. siguiente'[e] = c[0 + 1] /\ \A x \in vivos : siguiente'[x] = siguiente[x]
    BY <1>0, <1>2, <2>1
  <2>4. HayCadena(tamanyo + 1, vivos \cup {e}, siguiente', inicio', fin')
    <3>1. inicio' = e /\ fin' = fin /\ ~(0 = tamanyo) /\ 0 < tamanyo /\ ~(0 > 0)
      BY <1>0, <2>1, <2>2
    <3>2. tamanyo \in Nat /\ e \notin vivos
      BY <1>0, <2>1
    <3> HIDE DEF HayCadena, Hilera
    <3> QED BY <1>1, <2>2, <2>3, <3>1, <3>2, CadenaCrece
  <2> QED BY <1>0, <1>2, <2>1, <2>2, <2>4 DEF EnlazadaInv
<1>5. ASSUME NEW e \in Elementos, ins_fin_lista(e)
      PROVE  EnlazadaInv'
  <2>1. /\ tamanyo > 0 /\ e \notin vivos
        /\ siguiente' = [siguiente EXCEPT ![fin] = e, ![e] = NULL] /\ vivos' = vivos \cup {e}
        /\ inicio' = inicio /\ fin' = e /\ tamanyo' = tamanyo + 1
    BY <1>0, <1>5 DEF ins_fin_lista
  <2>2. tamanyo \in 0 .. tamanyo /\ tamanyo # 0 /\ fin \in Elementos /\ fin # e /\ c[tamanyo] = fin
    BY <1>0, <1>2, <2>1
  <2>3. /\ siguiente'[e] = NULL /\ siguiente'[c[tamanyo]] = e
        /\ \A x \in vivos : x # c[tamanyo] => siguiente'[x] = siguiente[x]
    BY <1>0, <2>1, <2>2
  <2>4. HayCadena(tamanyo + 1, vivos \cup {e}, siguiente', inicio', fin')
    <3>1. inicio' = inicio /\ fin' = e /\ ~(tamanyo = 0) /\ ~(tamanyo < tamanyo)
      BY <1>0, <2>1, <2>2
    <3>2. tamanyo \in Nat /\ e \notin vivos
      BY <1>0, <2>1
    <3> HIDE DEF HayCadena, Hilera
    <3> QED BY <1>1, <2>2, <2>3, <3>1, <3>2, CadenaCrece
  <2>5. siguiente' \in [Elementos -> Elementos \cup {NULL}]
    BY <1>0, <2>1
  <2> QED BY <1>0, <2>1, <2>2, <2>4, <2>5 DEF EnlazadaInv
<1>6. ASSUME NEW e \in Elementos, NEW pos \in 1 .. tamanyo, ins_lista(e, pos)
      PROVE  EnlazadaInv'
  <2>1. /\ pos \in 1 .. tamanyo - 1 /\ e \notin vivos
        /\ siguiente' = [siguiente EXCEPT ![e] = siguiente[desde[pos]], ![desde[pos]] = e]
        /\ vivos' = vivos \cup {e}
        /\ inicio' = inicio /\ fin' = fin /\ tamanyo' = tamanyo + 1
    BY <1>6 DEF ins_lista
  <2>2. /\ pos \in 1 .. tamanyo /\ pos \in 0 .. tamanyo /\ pos # 0 /\ pos # tamanyo /\ pos > 0 /\ pos < tamanyo
        /\ desde[pos] = c[pos] /\ c[pos] \in Elementos /\ c[pos] # e
        /\ siguiente[c[pos]] = c[pos + 1]
    BY <1>0, <1>2, <2>1
  <2>3. /\ siguiente'[e] = c[pos + 1] /\ siguiente'[c[pos]] = e
        /\ \A x \in vivos : x # c[pos] => siguiente'[x] = siguiente[x]
    BY <1>0, <2>1, <2>2
  <2>4. HayCadena(tamanyo + 1, vivos \cup {e}, siguiente', inicio', fin')
    <3>1. inicio' = inicio /\ fin' = fin
      BY <1>0, <2>1, <2>2
    <3>2. tamanyo \in Nat /\ e \notin vivos
      BY <1>0, <2>1
    <3> HIDE DEF HayCadena, Hilera
    <3> QED BY <1>1, <2>2, <2>3, <3>1, <3>2, CadenaCrece
  <2>5. siguiente' \in [Elementos -> Elementos \cup {NULL}]
    <3>1. pos + 1 \in 1 .. tamanyo
      BY <1>0, <2>1
    <3>2. siguiente[desde[pos]] \in Elementos
      BY <1>2, <2>2, <3>1
    <3> QED BY <1>0, <2>1, <3>2
  <2> QED BY <1>0, <2>1, <2>2, <2>4, <2>5 DEF EnlazadaInv
<1>7. CASE sup_inicio
  <2>1. /\ tamanyo > 0 /\ tamanyo # 0
        /\ inicio' = siguiente[inicio] /\ fin' = IF tamanyo = 1 THEN NULL ELSE fin
        /\ vivos' = vivos \ {inicio} /\ tamanyo' = tamanyo - 1 /\ siguiente' = siguiente
    BY <1>0, <1>7 DEF sup_inicio, Libera
  <2>2. 1 \in 1 .. tamanyo /\ tamanyo - 1 \in Nat /\ c[1] = inicio /\ (tamanyo # 1 => 1 # tamanyo)
    BY <1>0, <1>2, <2>1
  <2>3. HayCadena(tamanyo - 1, vivos \ {c[1]}, siguiente, inicio', fin')
    <3>1. /\ inicio' = siguiente[c[1]] /\ fin' = IF tamanyo = 1 THEN NULL ELSE fin
          /\ siguiente' = siguiente /\ ~(1 > 1) /\ tamanyo \in Nat
      BY <1>0, <2>1, <2>2
    <3>2. HayCadena(tamanyo - 1, vivos \ {c[1]}, siguiente', inicio', fin')
      BY <1>1, <2>2, <3>1, CadenaMengua
    <3> QED BY <3>1, <3>2
  <2> QED BY <1>0, <2>1, <2>2, <2>3 DEF EnlazadaInv
<1>8. ASSUME NEW pos \in 1 .. tamanyo, sup_en_lista(pos)
      PROVE  EnlazadaInv'
  <2>1. /\ pos \in 1 .. tamanyo - 1 /\ tamanyo > 1
        /\ siguiente' = [siguiente EXCEPT ![desde[pos]] = siguiente[siguiente[desde[pos]]]]
        /\ fin' = IF siguiente[siguiente[desde[pos]]] = NULL THEN desde[pos] ELSE fin
        /\ vivos' = vivos \ {siguiente[desde[pos]]}
        /\ tamanyo' = tamanyo - 1 /\ inicio' = inicio
    BY <1>8 DEF sup_en_lista, Libera
  <2> DEFINE p == pos + 1
  <2>2. /\ pos \in 1 .. tamanyo /\ p \in 1 .. tamanyo /\ p > 1 /\ p # 1 /\ tamanyo # 1 /\ p - 1 = pos /\ tamanyo - 1 \in Nat
    BY <1>0, <2>1
  <2>3. /\ desde[pos] = c[pos] /\ siguiente[c[pos]] = c[p]
        /\ c[pos] \in Elementos /\ c[p] \in Elementos /\ c[p] \in vivos
    BY <1>2, <2>1, <2>2
  <2>4. /\ siguiente'[c[p - 1]] = siguiente[c[p]]
        /\ \A x \in vivos : x # c[p - 1] => siguiente'[x] = siguiente[x]
    BY <1>0, <2>1, <2>2, <2>3
  <2>6. siguiente[c[p]] = NULL <=> p = tamanyo
    <3>1. CASE p = tamanyo
      BY <1>0, <1>2, <2>2, <3>1
    <3>2. CASE p # tamanyo
      <4>1. p \in 1 .. tamanyo - 1 /\ p + 1 \in 1 .. tamanyo
        BY <1>0, <2>2, <3>2
      <4>2. siguiente[c[p]] \in Elementos
        BY <1>2, <4>1
      <4> QED BY <3>2, <4>2, EnlazadaAssumption
    <3> QED BY <3>1, <3>2
  <2>7. fin' = IF tamanyo = 1 THEN NULL ELSE IF p = tamanyo THEN c[tamanyo - 1] ELSE fin
    <3>1. p = tamanyo => tamanyo - 1 = pos
      BY <2>2
    <3> QED BY <2>1, <2>2, <2>3, <2>6, <3>1
  <2>8. siguiente' \in [Elementos -> Elementos \cup {NULL}]
    BY <1>0, <2>1, <2>3
  <2>9. HayCadena(tamanyo', vivos', siguiente', inicio', fin')
    <3> HIDE DEF p
    <3>1. inicio' = inicio /\ tamanyo \in Nat
      BY <1>0, <2>1
    <3>2. HayCadena(tamanyo - 1, vivos \ {c[p]}, siguiente', inicio', fin')
      BY <1>1, <2>2, <2>4, <2>7, <3>1, CadenaMengua
    <3> QED BY <2>1, <2>3, <3>2
  <2> QED BY <1>0, <2>1, <2>2, <2>8, <2>9 DEF EnlazadaInv
<1>9. CASE destruir
  <2>1. /\ tamanyo # 0 /\ tamanyo > 0 /\ inicio' = siguiente[desde[tamanyo]] /\ fin' = NULL /\ tamanyo' = 0
        /\ vivos' = vivos \ {desde[pos] : pos \in 1 .. tamanyo} /\ siguiente' = siguiente
    BY <1>0, <1>9 DEF destruir
  <2>2. vivos' = {}
    <3>1. \A x \in vivos : \E i \in 1 .. tamanyo : c[i] = x
      BY <1>1 DEF Hilera
    <3> QED BY <1>2, <2>1, <3>1
  <2>3. inicio' = NULL
    <3>1. tamanyo \in 1 .. tamanyo
      BY <1>0, <2>1
    <3> QED BY <1>2, <2>1, <3>1
  <2>4. HayCadena(0, {}, siguiente, NULL, NULL)
    <3>1. Hilera(<<>>, 0, {}, siguiente, NULL, NULL)
      BY DEF Hilera
    <3> QED BY <3>1 DEF HayCadena
  <2> QED BY <1>0, <2>1, <2>2, <2>3, <2>4 DEF EnlazadaInv
<1>10. CASE UNCHANGED enlazadaVars
  BY <1>10 DEF EnlazadaInv, enlazadaVars, enlaces
<1> QED BY <1>3, <1>4, <1>5, <1>6, <1>7, <1>8, <1>9, <1>10 DEF EnlazadaNext

\* It says what ListIsLinked asks for.
LEMMA EnlazadaSeRecorre == EnlazadaInv => ListIsLinked
<1> SUFFICES ASSUME EnlazadaInv PROVE ListIsLinked
  OBVIOUS
<1>0. tamanyo \in Nat /\ vivos \in SUBSET Elementos
  BY DEF EnlazadaInv
<1>1. PICK c : Hilera(c, tamanyo, vivos, siguiente, inicio, fin)
  BY DEF EnlazadaInv, HayCadena
<1>2. \A i \in 1 .. tamanyo : desde[i] = c[i]
  BY <1>0, <1>1, DesdeEsCadena
<1>3. tamanyo = Cardinality(vivos)
  BY <1>0, <1>1, CadenaCabe
<1>4. {desde[pos] : pos \in 1 .. tamanyo} = vivos
  BY <1>1, <1>2 DEF Hilera
<1>5. tamanyo # 0 => tamanyo > 0 /\ tamanyo \in 1 .. tamanyo
  BY <1>0
<1>6. tamanyo # 0 => desde[tamanyo] = fin /\ siguiente[fin] = NULL
  BY <1>1, <1>2, <1>5 DEF Hilera
<1>7. tamanyo = 0 => inicio = NULL /\ fin = NULL
  BY <1>1 DEF Hilera
<1> QED BY <1>3, <1>4, <1>6, <1>7 DEF ListIsLinked

\* And holds of the empty list.
LEMMA EnlazadaEmpieza == EnlazadaInit => EnlazadaInv
<1>1. Hilera(<<>>, 0, {}, [e \in Elementos |-> NULL], NULL, NULL)
  BY DEF Hilera
<1>2. HayCadena(0, {}, [e \in Elementos |-> NULL], NULL, NULL)
  BY <1>1 DEF HayCadena
<1> QED BY <1>2 DEF EnlazadaInit, EnlazadaInv

\* The linked list reaches from inicio exactly the elements that are allocated, ends in fin
\* and has tamanyo of them, wherever elements are inserted and removed: for any number
\* of elements.
THEOREM ListStaysLinked == EnlazadaSpec => []ListIsLinked
BY EnlazadaEmpieza, EnlazadaInvPaso, EnlazadaSeRecorre, PTL DEF EnlazadaSpec
=============================================================================
