---------------------------- MODULE MCCalendar ----------------------------
(* Walks through the calendar: by days through 401 years from each of      *)
(* three points, the last of them up to the end of year 9999; by seconds   *)
(* through the two days around a midnight and through the first day of     *)
(* year 1, where times are printed and read; and through three days whose  *)
(* times are printed into buffers of all sizes.                            *)
EXTENDS Calendar

Zones == {-1439, -330, 0, 60, 1439}

SomeWalks ==
    [cycle : {0, 4, 24}, days : {146462}, step : {86400}, usec : {0}, offsets : {{}}, sizes : {{}}]
    \cup [cycle : {5}, days : {1}, step : {1}, usec : {0, 999999}, offsets : {Zones}, sizes : {{}}]
    \cup [cycle : {0}, days : {0}, step : {1}, usec : {999999}, offsets : {Zones}, sizes : {{}}]
    \cup [cycle : {5}, days : {3}, step : {86400}, usec : {0, 1, 1000, 500000},
          offsets : {Zones}, sizes : {0 .. 40}]
=============================================================================
