------------------------------ MODULE MCCadence ------------------------------
(* Two weeks of nights, with and without a Monday holiday.                  *)
EXTENDS Cadence

Weekdays == {d \in 0..LastNight : d % 7 < 5}
MCCalendars == {Weekdays, Weekdays \ {7}}
=============================================================================
