--------------------------- MODULE MCLeapSeconds ---------------------------
(***************************************************************************)
(* Instances of LeapSeconds for TLC: a file with two leap seconds, the one *)
(* IERS replaces it with, an entry longer, one with its expiration last,   *)
(* and one with an entry that cannot be parsed.                            *)
(***************************************************************************)
EXTENDS LeapSeconds, TLC

old  == <<Comment, Expires(5), Entry(1, 10), Entry(3, 11)>>
new  == <<Expires(7), Entry(1, 10), Entry(3, 11), Comment, Entry(6, 12)>>
late == <<Entry(1, 10), Entry(3, 11), Expires(5)>>
bad  == <<Expires(7), Entry(1, 10), BadEntry>>

MCFile    == {old, new, late, bad}
MCGood    == {old, new}
MCTime    == {-1, 1, 2, 4, 5, 6, 7, 8}
MCTwoTimes == {4, 6}

Threads == Permutations(Proc)

=============================================================================
