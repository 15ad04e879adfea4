------------------------------ MODULE MCFechas ------------------------------
(* One year of the calendar, 2023.                                          *)
EXTENDS Fechas

MCDiasAntes == <<0, 31, 59, 90, 120, 151, 181, 212, 243, 273, 304, 334, 365>>
\* From the last Sunday of March to the last of October.
MCVerano == {<<2018, 7226>>}
=============================================================================
