--------------------------- MODULE MCHeaterClock ---------------------------
(***************************************************************************)
(* The instance of HeaterClock that TLC checks: days of eight ticks, and a *)
(* device that is switched on on the eve of a turn of a year, of a leap    *)
(* day, of the first of March of years with and without one, and of        *)
(* September.  Every one of these days is over before Horizon.             *)
(***************************************************************************)
EXTENDS HeaterClock

At(y, m, d, w) == [year |-> y, month |-> m, day |-> d, dow |-> w, time |-> 0]

Evenings ==
    { At(2000, 2, 28, 1), At(2023, 12, 30, 6), At(2024, 2, 27, 2),
      At(2025, 2, 27, 4), At(2099, 12, 30, 3), At(2100, 2, 27, 6),
      At(2025, 8, 30, 6) }
=============================================================================
