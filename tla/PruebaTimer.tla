---------------------------- MODULE PruebaTimer -----------------------------
(***************************************************************************)
(* test1.c of zlEvtTimer.lib: four tests, one after the other, each with a *)
(* loop that returns when no timer waits, and the functions of its timers, *)
(* which activate and deactivate their own timer and another's.            *)
(***************************************************************************)
EXTENDS EvtTimer, Integers, Sequences

VARIABLES
  tPaso,       \* the timers that main has created
  tSegundos,   \* of each timer, when it is due
  tFuncion,    \* and its function
  tLlama,      \* the function that is to run now, 0 when it has
  tTimer,      \* zlTimer of the main of the test
  tEstado, tContador,
  tMal         \* an assertion of main failed

pruebaTimerVars == <<tPaso, tSegundos, tFuncion, tLlama, tTimer, tEstado, tContador, tMal>>

Paso(conLibera, segundos, funcion, despacha, resultado) ==
  [libera |-> conLibera, segundos |-> segundos, funcion |-> funcion,
   despacha |-> despacha, resultado |-> resultado]

\* The timers of the tests in the order main creates them; whether the loop runs after
\* it, and what tEstado must be then.
Pasos == <<Paso(TRUE, 1, 1, TRUE, 1),                                  \* TEST 1
           Paso(TRUE, 0, 1, TRUE, 1),                                  \* TEST 2
           Paso(FALSE, 2, 1, FALSE, 0), Paso(TRUE, 1, 2, TRUE, 0),     \* TEST 3
           Paso(FALSE, 0, 3, TRUE, 0)>>                                \* TEST 4

PruebaTimerInit == /\ tPaso = 0
                   /\ tSegundos = [t \in Timers |-> 0]
                   /\ tFuncion = [t \in Timers |-> 0]
                   /\ tLlama = 0
                   /\ tTimer = NULL
                   /\ tEstado = 0
                   /\ tContador = 0
                   /\ tMal = FALSE

Despacha == tPaso > 0 /\ Pasos[tPaso].despacha

\* The loop returns when nothing waits; then comes the assertion of the test.
FinDispatch == /\ corriendo = NULL
               /\ Despacha => \A t \in Timers : ~pendiente[t]
               /\ tMal' = (Despacha /\ tEstado # Pasos[tPaso].resultado)

main == /\ tPaso < Len(Pasos) /\ FinDispatch
        /\ \E t \in Timers :
             LET paso == Pasos[tPaso + 1]
             IN /\ Nuevo(t, paso.libera, TRUE)
                /\ tSegundos' = [tSegundos EXCEPT ![t] = paso.segundos]
                /\ tFuncion' = [tFuncion EXCEPT ![t] = paso.funcion]
                /\ tTimer' = IF paso.libera THEN tTimer ELSE t
        /\ tPaso' = tPaso + 1
        /\ tEstado' = 0 /\ tContador' = 0
        /\ UNCHANGED tLlama

mainFin == /\ tPaso = Len(Pasos) /\ FinDispatch
           /\ tPaso' = tPaso + 1
           /\ UNCHANGED <<timerVars, tSegundos, tFuncion, tLlama, tTimer, tEstado, tContador>>

\* The loop takes the timer that is due first.
LanzaElPrimero(t) ==
  /\ tPaso <= Len(Pasos) /\ Despacha
  /\ \A otro \in Timers : pendiente[otro] => tSegundos[t] <= tSegundos[otro]
  /\ Lanza(t)
  /\ tLlama' = tFuncion[t]
  /\ UNCHANGED <<tPaso, tSegundos, tFuncion, tTimer, tEstado, tContador, tMal>>

Funcion(n) == /\ tLlama = n /\ tLlama' = 0
              /\ UNCHANGED <<tPaso, tSegundos, tFuncion, tTimer, tMal>>

funcionDiferida1 == Funcion(1) /\ tEstado' = 1 /\ UNCHANGED <<timerVars, tContador>>

funcionDiferida2 == Funcion(2) /\ zlEvtTimerDesactiva(tTimer)
                               /\ UNCHANGED <<tEstado, tContador>>

\* Its tag is its own timer: zlEventSelfPuntero.
funcionDiferida3 ==
  /\ Funcion(3)
  /\ tContador' = tContador + 1
  /\ \/ tContador' < 3 /\ zlEvtTimerActiva(corriendo) /\ tEstado' = 1
     \/ tContador' >= 3 /\ zlEvtTimerDesactiva(corriendo) /\ tEstado' = 0

PruebaTimerNext ==
  /\ ~tMal
  /\ \/ main \/ mainFin
     \/ \E t \in Timers : LanzaElPrimero(t)
     \/ funcionDiferida1 \/ funcionDiferida2 \/ funcionDiferida3
     \/ tLlama = 0 /\ Vuelve /\ UNCHANGED pruebaTimerVars

-----------------------------------------------------------------------------
\* No assertion of the tests of zlEvtTimer fails.
TimerTestHolds == ~tMal

\* Their loops return, also that of the timer that activates itself from its function.
TimerTestEnds == <>(tPaso > Len(Pasos))
=============================================================================
