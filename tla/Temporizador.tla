---------------------------- MODULE Temporizador ----------------------------
(***************************************************************************)
(* zlTimer.c, the timeouts: a start time of gettimeofday, in seconds and   *)
(* microseconds, and a length in microseconds, -1 for a timer that never   *)
(* ends.  The clock is that of the wall: somebody may set it.              *)
(***************************************************************************)
EXTENDS Integers

CONSTANTS
  USEG,          \* microseconds in a second: 1000000
  UMILI,         \* microseconds in a millisecond: 1000
  Plazos,        \* the lengths asked for, in milliseconds
  Tope           \* bound: the last instant, in microseconds

ASSUME TempAssumption ==
  /\ USEG \in Nat \ {0} /\ UMILI \in Nat \ {0} /\ Tope \in Nat
  /\ Plazos \subseteq Nat \cup {-1}

VARIABLES
  reloj,         \* the clock: [sec, usec]
  StartTimer,    \* timer->StartTimer
  Timeout,       \* timer->Timeout
  vencido        \* what TimedOut answered last for this timer

tempVars == <<reloj, StartTimer, Timeout, vencido>>

Instante(u) == [sec |-> u \div USEG, usec |-> u % USEG]
Micros(i) == i.sec * USEG + i.usec

Nunca == -1

TempInit == /\ reloj = Instante(0)
            /\ StartTimer = Instante(0)
            /\ Timeout = Nunca
            /\ vencido = FALSE

Arranca(plazo) == /\ StartTimer' = reloj
                  /\ Timeout' = IF plazo = -1 THEN Nunca ELSE plazo * UMILI
                  /\ vencido' = FALSE
                  /\ UNCHANGED reloj

\* Mutant of Transcurrido: the microseconds are taken as if never below the start's.
TranscurridoSinAcarreo(desde, hasta) ==
  LET diffu == IF hasta.usec >= desde.usec THEN hasta.usec - desde.usec ELSE 0
  IN (hasta.sec - desde.sec) * USEG + diffu

Transcurrido(desde, hasta) ==
  (hasta.sec - desde.sec) * USEG + (hasta.usec - desde.usec)

TimeLeft == LET queda == Timeout - Transcurrido(StartTimer, reloj)
            IN IF Timeout = Nunca THEN -1
               ELSE IF queda < 0 THEN 0 ELSE queda \div UMILI

TimedOut == /\ vencido' = (Timeout # Nunca /\ TimeLeft <= 0)
            /\ UNCHANGED <<reloj, StartTimer, Timeout>>

\* The environment: time passes, or the clock is set.
Reloj == /\ \E u \in 0 .. Tope : reloj' = Instante(u)
         /\ UNCHANGED <<StartTimer, Timeout, vencido>>

TempNext == \/ \E plazo \in Plazos : Arranca(plazo)
            \/ TimedOut
            \/ Reloj

TempSpec == TempInit /\ [][TempNext]_tempVars

-----------------------------------------------------------------------------
\* What is left of the timer, in microseconds.
Queda == Micros(StartTimer) + Timeout - Micros(reloj)

\* A timer that has expired is told to be out, wherever in its second it was started
\* and asked about; one that has a millisecond or more left is not, and one that never
\* ends never is.  Of the last millisecond nothing is said: see OutIffExpired.
OutInTime ==
  [][TimedOut => /\ Timeout # Nunca /\ Queda <= 0 => vencido'
                 /\ vencido' => Timeout # Nunca /\ Queda < UMILI]_tempVars

\* TimedOut answers "1 iff timer has expired, otherwise 0".  (With less than a
\* millisecond left it answers 1: TimeLeft rounds it down to none.)
OutIffExpired ==
  [][TimedOut => (vencido' <=> Timeout # Nunca /\ Queda <= 0)]_tempVars
=============================================================================
