--------------------------- MODULE MCCivilCalendar ---------------------------
(* Walks along the calendars, and the texts of the dates there, for TLC. *)
EXTENDS DateTexts

\* The ends of the day, and the hours at its noon, where Julian days begin.
MCHour == {0, 11, 12, 23}

MCZones == {-12, 0, 13}

=============================================================================
