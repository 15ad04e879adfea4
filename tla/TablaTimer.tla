----------------------------- MODULE TablaTimer -----------------------------
(***************************************************************************)
(* The table "Flujo" of zlEvtTimer.c (lines 34-48): what a timer is        *)
(* promised to do, state by state.  EvtTimer is what the code does.        *)
(***************************************************************************)
CONSTANT Timers

VARIABLE estado    \* the state of each timer

Estados == {"None", "Desactivado", "Activo", "Lanzado"}

Creado == {"Desactivado", "Activo", "Lanzado"}

Pasa(t, desde, hasta) == estado[t] \in desde /\ estado' = [estado EXCEPT ![t] = hasta]

Inicializar(t) == Pasa(t, {"None"}, "Desactivado")
InicializarYActivar(t) == Pasa(t, {"None"}, "Activo")
Activar(t) == Pasa(t, Creado, "Activo")
Lanzar(t) == Pasa(t, {"Activo"}, "Lanzado")
TerminarLanzado(t) == Pasa(t, {"Lanzado"}, "Desactivado")
Desactivar(t) == Pasa(t, Creado, "Desactivado")
Liberar(t) == Pasa(t, Creado, "None")

Init == estado = [t \in Timers |-> "None"]

Next == \E t \in Timers : \/ Inicializar(t) \/ InicializarYActivar(t)
                          \/ Activar(t) \/ Desactivar(t) \/ Liberar(t)
                          \/ Lanzar(t) \/ TerminarLanzado(t)

\* A timer goes off only from Activo: one activation, one launch.
Spec == Init /\ [][Next]_estado
=============================================================================
