------------------------------- MODULE Circles -------------------------------
(* Angles that go round, counted in units of a part of a turn.  Remainder is *)
(* remainder() of the C library.                                             *)
EXTENDS Integers

\* From the nearest multiple of the period, of two the even one.
Remainder(value, period) ==
    LET r == value % period
    IN  IF 2 * r > period \/ (2 * r = period /\ (value \div period) % 2 = 1) THEN r - period ELSE r

Magnitude(value) == IF value < 0 THEN -value ELSE value

=============================================================================
