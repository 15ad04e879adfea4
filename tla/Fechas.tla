------------------------------- MODULE Fechas -------------------------------
(***************************************************************************)
(* zlTimer.c, the dates: the local date of now, of some days ago and of    *)
(* the month before, by arithmetic on seconds.  Time is counted in hours   *)
(* from the first of January of Ato0, standard time; localtime and mktime, *)
(* and the one struct tm that localtime keeps, are the C library's.        *)
(***************************************************************************)
EXTENDS Integers, Sequences

CONSTANTS
  Ato0,
  DiasAntes,     \* the days before each month from then on, of whole years and one more
  Verano,        \* from when to when the clocks are one hour ahead
  Momentos,      \* the hours at which the program may run
  NumDias,       \* the days it subtracts
  MaxPedidos     \* bound: the times one field of one struct is asked for

\* Years are of this century, the only one that two digits tell; and the calendar goes
\* back a month, and the days that are subtracted, from when the program runs.
ASSUME FechasAssumption ==
  /\ DiasAntes \in Seq(Nat) /\ Len(DiasAntes) >= 13 /\ Len(DiasAntes) % 12 = 1
  /\ Ato0 \in Nat /\ Ato0 >= 2000 /\ Ato0 + Len(DiasAntes) \div 12 <= 2100
  /\ DiasAntes[1] = 0
  /\ \A i \in 2 .. Len(DiasAntes) : DiasAntes[i] - DiasAntes[i - 1] \in 28 .. 31
  /\ MaxPedidos \in Nat /\ Verano \subseteq Nat \X Nat /\ NumDias \subseteq Nat /\ Momentos \subseteq Nat
  /\ \A t \in Momentos : /\ DiasAntes[2] * 24 <= t
                         /\ t + 24 <= DiasAntes[Len(DiasAntes)] * 24
                         /\ \A n \in NumDias : n * 24 <= t

VARIABLES
  ahora,         \* time()
  tm,            \* the struct of localtime
  respuesta,     \* the last function called and what it answered
  deCuando,      \* history: the moment that localtime put in the struct last
  pedidos        \* history: the times it has been asked for each of Sumados since

fechaVars == <<ahora, tm, respuesta, deCuando, pedidos>>

\* Months are counted from 0, like those of C.
Meses == 0 .. Len(DiasAntes) - 2

Antes(m) == DiasAntes[m + 1]

Desfase(t) == IF \E v \in Verano : v[1] <= t /\ t < v[2] THEN 1 ELSE 0

localtime(t) ==
  LET hora == t + Desfase(t)
      dia == hora \div 24
      m == CHOOSE k \in Meses : Antes(k) <= dia /\ dia < Antes(k + 1)
  IN [tm_hour |-> hora % 24, tm_mday |-> dia - Antes(m) + 1, tm_mon |-> m % 12,
      tm_year |-> Ato0 - 1900 + m \div 12, tm_yday |-> dia - Antes((m \div 12) * 12),
      tm_isdst |-> Desfase(t)]

mktime(st) ==
  LET m == (st.tm_year + 1900 - Ato0) * 12 + st.tm_mon
  IN (Antes(m) + st.tm_mday - 1) * 24 + st.tm_hour - st.tm_isdst

DiaMesAto(st) == <<st.tm_mday, st.tm_mon + 1, st.tm_year + 1900>>

Campos == {"tm_mday", "tm_mon", "tm_year", "tm_yday"}

\* The fields that zlTimerDat0 adds one to, in the struct.
Sumados == {"tm_mon", "tm_yday"}
SinPedir == [x \in Sumados |-> 0]
Pide(cuenta, x) == IF x \in Sumados THEN [cuenta EXCEPT ![x] = @ + 1] ELSE cuenta

FechaInit == /\ ahora \in Momentos
             /\ tm = localtime(ahora)
             /\ respuesta = [fn |-> "main", valor |-> <<>>]
             /\ deCuando = ahora
             /\ pedidos = SinPedir

-----------------------------------------------------------------------------
\* A function that calls localtime(t) and answers something.
Responde(fn, valor, t) == /\ tm' = localtime(t)
                          /\ respuesta' = [fn |-> fn, valor |-> valor]
                          /\ deCuando' = t
                          /\ pedidos' = SinPedir
                          /\ UNCHANGED ahora

timestamp == Responde("timestamp", DiaMesAto(localtime(ahora)), ahora)

zlTimerRestaDias(numDias) ==
  Responde("zlTimerRestaDias", <<numDias, DiaMesAto(localtime(ahora - numDias * 24))>>,
           ahora - numDias * 24)

\* Mutant of zlTimerRestaMes: thirty days before today, and not before the 15th.
RestaMesDesdeHoy ==
  LET hoy == localtime(ahora)
      st == localtime(ahora - 30 * 24)
  IN Responde("zlTimerRestaMes", <<hoy.tm_mday, st.tm_mon + 1, st.tm_year + 1900>>,
              ahora - 30 * 24)

\* The day is today's, the month that of thirty days before the 15th.
zlTimerRestaMes ==
  LET hoy == localtime(ahora)
      t == mktime([hoy EXCEPT !.tm_mday = 15]) - 30 * 24
      st == localtime(t)
  IN Responde("zlTimerRestaMes", <<hoy.tm_mday, st.tm_mon + 1, st.tm_year + 1900>>, t)

\* What zlTimerDat0 answers of a struct...
Dato(st, x) == CASE x \in Sumados   -> st[x] + 1
                 [] x = "tm_year" -> st[x] % 100
                 [] OTHER         -> st[x]

\* ...and what it leaves in it.
Tocado(st, x) == IF x \in Sumados THEN [st EXCEPT ![x] = @ + 1] ELSE st

\* The application calls localtime itself, as zlTimer.h shows...
Desglosa == Responde("localtime", <<>>, ahora)

\* ...and takes what fields it likes from the struct, whatever has been called since.
zlTimerDat0(x) == /\ x \in Sumados => pedidos[x] < MaxPedidos
                  /\ respuesta' = [fn |-> "zlTimerDat", valor |-> <<x, Dato(tm, x)>>]
                  /\ tm' = Tocado(tm, x)
                  /\ pedidos' = Pide(pedidos, x)
                  /\ UNCHANGED <<ahora, deCuando>>

\* zlTimerDat(x), which is zlTimerDat1(time(0), x).
zlTimerDat(x) ==
  /\ respuesta' = [fn |-> "zlTimerDat", valor |-> <<x, Dato(localtime(ahora), x)>>]
  /\ tm' = Tocado(localtime(ahora), x)
  /\ deCuando' = ahora
  /\ pedidos' = Pide(SinPedir, x)
  /\ UNCHANGED ahora

\* strptime fills in what the formats name; the rest is what memset left.
tmFecha(st) == [st EXCEPT !.tm_isdst = 0, !.tm_yday = 0]

timeFecha == /\ respuesta' = [fn |-> "timeFecha",
                              valor |-> mktime(tmFecha(localtime(ahora)))]
             /\ UNCHANGED <<ahora, tm, deCuando, pedidos>>

FechaNext == \/ timestamp
             \/ Desglosa
             \/ \E numDias \in NumDias : zlTimerRestaDias(numDias)
             \/ zlTimerRestaMes
             \/ \E x \in Campos : zlTimerDat0(x) \/ zlTimerDat(x)
             \/ timeFecha

FechaSpec == FechaInit /\ [][FechaNext]_fechaVars

-----------------------------------------------------------------------------
Respondio(fn) == respuesta.fn = fn

\* The date of some days ago is that of the calendar, where the clocks say of that
\* moment what they say of now; a day of 24 hours is not one where they were changed.
DaysAgoIsRight ==
  Respondio("zlTimerRestaDias") =>
    LET hoy == localtime(ahora)
        n == respuesta.valor[1]
        diaHoy == Antes((hoy.tm_year + 1900 - Ato0) * 12 + hoy.tm_mon) + hoy.tm_mday - 1
        d == respuesta.valor[2]
        dia == Antes((d[3] - Ato0) * 12 + d[2] - 1) + d[1] - 1
    IN Desfase(ahora) = Desfase(ahora - n * 24) => dia = diaHoy - n

\* The month before is the one before, whatever their lengths, and in its year; and the
\* date is that of today a month before, where that month has such a day.
MonthBeforeIsRight ==
  Respondio("zlTimerRestaMes") =>
    LET hoy == localtime(ahora)
        m == (hoy.tm_year + 1900 - Ato0) * 12 + hoy.tm_mon
    IN /\ respuesta.valor[3] * 12 + respuesta.valor[2]
            = (hoy.tm_year + 1900) * 12 + hoy.tm_mon
       /\ hoy.tm_mday <= Antes(m) - Antes(m - 1) => respuesta.valor[1] = hoy.tm_mday

\* The answer is the field of now, the month and the day of the year counted from 1.
EsDeAhora ==
  LET hoy == localtime(ahora)
      m == (hoy.tm_year + 1900 - Ato0) * 12 + hoy.tm_mon
      enElAto == Antes(m) - Antes(m - hoy.tm_mon) + hoy.tm_mday
  IN respuesta.valor \in {<<"tm_mday", hoy.tm_mday>>,
                          <<"tm_mon", hoy.tm_mon + 1>>, <<"tm_year", hoy.tm_year - 100>>,
                          <<"tm_yday", enElAto>>}

\* A struct of now gives the fields of now, although two of them are added to in it,
\* the first time that it is asked for each.  (And again: FieldsAskedAgain.)
FieldsAreOfNow ==
  /\ Respondio("zlTimerDat") /\ deCuando = ahora
  /\ respuesta.valor[1] \in Sumados => pedidos[respuesta.valor[1]] = 1
  => EsDeAhora

\* A date is turned into its time, where the clocks are not an hour ahead: tmFecha
\* leaves tm_isdst at 0, and no property says that it is the time in summer.
TimeOfDate == Respondio("timeFecha") /\ Desfase(ahora) = 0 => respuesta.valor = ahora

\* zlTimerDat0 answers what is in the struct, "timer(4) --> Mes", as often as it is
\* asked.  (The second time the month is the next one, and there may be a 13th.)
FieldsAskedAgain == Respondio("zlTimerDat") /\ deCuando = ahora => EsDeAhora
=============================================================================
