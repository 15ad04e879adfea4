------------------------------ MODULE EvtTimer ------------------------------
(***************************************************************************)
(* zlEvtTimer.c: timers over libevent, of two kinds.  A plain one runs its *)
(* function and stays, deactivated; a "Libera" one is freed by the library *)
(* when its function returns.  A function may activate, deactivate or free *)
(* any timer, its own included (test1.c does, through zlEventSelfPuntero). *)
(***************************************************************************)
EXTENDS Nulo, Naturals

CONSTANTS
  Timers,   \* the addresses malloc can return for a zlEvtTimer_t
  Reglas    \* {"libera"}: the application forgets a Libera timer it has activated

ASSUME TimerAssumption == NULL \notin Timers /\ Reglas \subseteq {"libera"}

VARIABLES
  mem,        \* "libre" or "vivo"
  libera,     \* whether the event runs zlEvtTimerInternoFree_cb
  pendiente,  \* whether the event waits in the base
  corriendo,  \* the timer whose function is running, NULL in the loop
  recien,     \* history: that function has not touched its own timer yet
  conocidos,  \* the pointers the application holds
  ub

timerVars == <<mem, libera, pendiente, corriendo, recien, conocidos, ub>>

\* The variables hold what their C types and the comments above allow.
TypeOK == /\ mem \in [Timers -> {"libre", "vivo"}]
          /\ libera \in [Timers -> BOOLEAN]
          /\ pendiente \in [Timers -> BOOLEAN]
          /\ corriendo \in Timers \cup {NULL}
          /\ recien \in BOOLEAN
          /\ conocidos \subseteq Timers
          /\ ub \in {"no", "memoria liberada", "liberado dos veces"}

TimerInit == /\ mem = [t \in Timers |-> "libre"]
             /\ libera = [t \in Timers |-> FALSE]
             /\ pendiente = [t \in Timers |-> FALSE]
             /\ corriendo = NULL
             /\ recien = FALSE
             /\ conocidos = {}
             /\ ub = "no"

-----------------------------------------------------------------------------
Olvida(conLibera) == conLibera /\ "libera" \in Reglas

\* zlEvtTimerNuevo and zlEvtTimerNuevoLibera; with activa, zlEvtTimerNuevoActiva
\* and zlEvtTimerNuevoActivaLibera (zlEvtTimerFunction is the latter with no
\* delay).  The address is not one the application or a frame still holds.
Nuevo(t, conLibera, activa) ==
  /\ ub = "no" /\ mem[t] = "libre" /\ t # corriendo /\ t \notin conocidos
  /\ mem' = [mem EXCEPT ![t] = "vivo"]
  /\ libera' = [libera EXCEPT ![t] = conLibera]
  /\ pendiente' = [pendiente EXCEPT ![t] = activa]
  /\ conocidos' = IF activa /\ Olvida(conLibera) THEN conocidos ELSE conocidos \cup {t}
  /\ UNCHANGED <<corriendo, recien, ub>>

\* The application uses a pointer it holds: what is under it may be gone.
Usa(t, fallo) == /\ ub = "no" /\ t \in conocidos
                 /\ ub' = IF mem[t] = "vivo" THEN "no" ELSE fallo

PonPendiente(t, valor) ==
  /\ Usa(t, "memoria liberada")
  /\ pendiente' = IF mem[t] = "vivo" THEN [pendiente EXCEPT ![t] = valor] ELSE pendiente
  /\ recien' = (recien /\ t # corriendo)
  /\ UNCHANGED <<mem, libera, corriendo>>

zlEvtTimerActiva(t) ==
  /\ PonPendiente(t, TRUE)
  /\ conocidos' = IF Olvida(libera[t]) THEN conocidos \ {t} ELSE conocidos

zlEvtTimerDesactiva(t) == PonPendiente(t, FALSE) /\ UNCHANGED conocidos

\* Mutant of zlEvtTimerFree: the event stays in the base.
FreeSinEvento(t) ==
  /\ Usa(t, "liberado dos veces")
  /\ mem' = [mem EXCEPT ![t] = "libre"]
  /\ conocidos' = conocidos \ {t}
  /\ recien' = (recien /\ t # corriendo)
  /\ UNCHANGED <<libera, pendiente, corriendo>>

zlEvtTimerFree(t) ==
  /\ Usa(t, "liberado dos veces")
  /\ mem' = [mem EXCEPT ![t] = "libre"]
  /\ pendiente' = [pendiente EXCEPT ![t] = FALSE]
  /\ conocidos' = conocidos \ {t}
  /\ recien' = (recien /\ t # corriendo)
  /\ UNCHANGED <<libera, corriendo>>

-----------------------------------------------------------------------------
\* The loop runs the function of a timer that is due: the event is not
\* persistent, so it is no longer pending.
Lanza(t) ==
  /\ ub = "no" /\ corriendo = NULL /\ pendiente[t]
  /\ pendiente' = [pendiente EXCEPT ![t] = FALSE]
  /\ corriendo' = t
  /\ recien' = TRUE
  /\ UNCHANGED <<mem, libera, conocidos, ub>>

\* Mutant of VuelveInterno: a plain timer is freed too.
VuelveInternoLibera ==
  /\ ub = "no" /\ corriendo # NULL /\ ~libera[corriendo]
  /\ ub' = IF mem[corriendo] = "vivo" THEN "no" ELSE "liberado dos veces"
  /\ mem' = [mem EXCEPT ![corriendo] = "libre"]
  /\ pendiente' = [pendiente EXCEPT ![corriendo] = FALSE]
  /\ corriendo' = NULL
  /\ recien' = FALSE
  /\ UNCHANGED <<libera, conocidos>>

\* The function returns to zlEvtTimerInterno_cb.
VuelveInterno ==
  /\ ub = "no" /\ corriendo # NULL /\ ~libera[corriendo]
  /\ corriendo' = NULL
  /\ recien' = FALSE
  /\ UNCHANGED <<mem, libera, pendiente, conocidos, ub>>

\* Mutant of VuelveInternoFree: the timer is not freed.
VuelveInternoNoLibera ==
  /\ ub = "no" /\ corriendo # NULL /\ libera[corriendo]
  /\ corriendo' = NULL
  /\ recien' = FALSE
  /\ UNCHANGED <<mem, libera, pendiente, conocidos, ub>>

\* The function returns to zlEvtTimerInternoFree_cb, which frees the timer.
VuelveInternoFree ==
  /\ ub = "no" /\ corriendo # NULL /\ libera[corriendo]
  /\ ub' = IF mem[corriendo] = "vivo" THEN "no" ELSE "liberado dos veces"
  /\ mem' = [mem EXCEPT ![corriendo] = "libre"]
  /\ pendiente' = [pendiente EXCEPT ![corriendo] = FALSE]
  /\ corriendo' = NULL
  /\ recien' = FALSE
  /\ UNCHANGED <<libera, conocidos>>

Vuelve == VuelveInterno \/ VuelveInternoFree

TimerNext ==
  \/ \E t \in Timers : \/ \E conLibera, activa \in BOOLEAN : Nuevo(t, conLibera, activa)
                       \/ zlEvtTimerActiva(t)
                       \/ zlEvtTimerDesactiva(t)
                       \/ zlEvtTimerFree(t)
                       \/ Lanza(t)
  \/ Vuelve

\* Functions return, and the loop comes to run a timer that frees itself (another
\* one may be put off for ever by activating it again).
TimerFairness ==
  /\ WF_timerVars(Vuelve)
  /\ \A t \in Timers : SF_timerVars(libera[t] /\ Lanza(t))

TimerSpec == TimerInit /\ [][TimerNext]_timerVars /\ TimerFairness

-----------------------------------------------------------------------------
\* Nobody uses or frees a timer that is gone.
NoUB == ub = "no"

\* The state of a timer in the words of the table, which has none for an event that
\* waits for a timer that is gone.
EstadoDe(t) == CASE mem[t] = "libre" /\ ~pendiente[t] -> "None"
                 [] mem[t] = "libre" /\ pendiente[t] -> "Colgado"
                 [] mem[t] = "vivo" /\ pendiente[t] -> "Activo"
                 [] mem[t] = "vivo" /\ ~pendiente[t] /\ corriendo = t /\ recien -> "Lanzado"
                 [] OTHER -> "Desactivado"

Tabla == INSTANCE TablaTimer WITH estado <- [t \in Timers |-> EstadoDe(t)]

\* The code moves a timer from state to state as the table of zlEvtTimer.c says.
ImplementsTabla == Tabla!Spec

\* "lanzar un evento ... y se libere el solito" (test1.c:67): a timer that frees
\* itself, once activated, is gone in the end without anybody's help.
LiberaGoesAway ==
  \A t \in Timers : libera[t] /\ pendiente[t] ~> mem[t] = "libre"

\* "Liberar  Lanzado  None" (zlEvtTimer.c:48): a timer can be freed while its
\* function runs.
FreeWhileRunning == ub # "liberado dos veces"
=============================================================================
