------------------------------ MODULE MCWindows ------------------------------
(* Instants around the boundaries of hours, days, weeks, months and years    *)
(* from 1970 to 1972, a leap year.                                           *)
EXTENDS Windows

\* The first two weeks; the ends of January and February 1970, of 1970, and of
\* January and February 1972.
Days == (0 .. 13) \cup {30, 31, 58, 59, 364, 365, 760, 761} \cup (788 .. 791)

MCInstants == {d * Day + o : d \in Days, o \in {0, 1, 3599, 3600, 86399}}
==============================================================================
