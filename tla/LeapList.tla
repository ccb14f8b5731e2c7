------------------------------ MODULE LeapList ------------------------------
(***************************************************************************)
(* The leap seconds list of src/src/c99/iers.c: how parse_leaps() builds it *)
(* from the lines of a leap-seconds.list file, and how novas_lookup_leap() *)
(* searches it.  Times are UNIX times; the difference to the NTP epoch of  *)
(* the file, and the text of a line, are left out.                         *)
(***************************************************************************)
EXTENDS Integers, Sequences, SequencesExt

CONSTANT IntMax     \* the largest int: unix_start and unix_end are int

ASSUME IntMaxAssumption == IntMax \in Nat

\* Lines of a file: an entry, the expiration line "#@", a comment, a bad entry.
Entry(start, leap) == [kind |-> "entry", at |-> start, leap |-> leap]
Expires(t)         == [kind |-> "expires", at |-> t, leap |-> 0]
Comment            == [kind |-> "comment", at |-> 0, leap |-> 0]
BadEntry           == [kind |-> "bad", at |-> 0, leap |-> 0]

Line == [kind : {"entry", "expires", "comment", "bad"}, at : Int, leap : Int]

\* Conversion to int.
ToInt(x) == ((x + IntMax + 1) % (2 * (IntMax + 1))) - IntMax - 1

NoLeaps == [entries |-> <<>>, expiration |-> 0, dated |-> FALSE, ok |-> TRUE]

\* A new entry ends with the list, and the one before it ends where it begins:
\* the list has the entries of the file, which are in the order of time, reversed.
AddEntry(p, line) ==
    LET e == [from |-> ToInt(line.at), to |-> ToInt(p.expiration), leap |-> line.leap]
        earlier == IF p.entries = <<>> THEN <<>> ELSE [p.entries EXCEPT ![1].to = e.from]
    IN  [p EXCEPT !.entries = <<e>> \o earlier]

ReadLine(p, line) ==
    CASE ~p.ok -> p
      [] p.ok /\ line.kind = "entry" -> AddEntry(p, line)
      [] p.ok /\ line.kind = "bad" -> [p EXCEPT !.ok = FALSE]
      [] p.ok /\ line.kind = "expires" /\ ~p.dated -> [p EXCEPT !.expiration = line.at, !.dated = TRUE]
      [] OTHER -> p

\* parse_leaps(): NoLeaps if it returns NULL.
ParseLeaps(file) ==
    LET p == FoldLeft(ReadLine, NoLeaps, file)
    IN  IF p.ok /\ p.dated /\ p.entries # <<>> THEN p ELSE NoLeaps

Beyond(l, t)  == t > l.entries[1].to

\* Fault: a leap second is not yet in force when it begins.
HoldingAfter(l, t) == {i \in DOMAIN l.entries : t > l.entries[i].from /\ t < l.entries[i].to}

Holding(l, t) == {i \in DOMAIN l.entries : t >= l.entries[i].from /\ t < l.entries[i].to}
First(S)      == CHOOSE i \in S : \A j \in S : i <= j

----------------------------------------------------------------------------
(* What a file says, to check the above against. *)

Starts(file)     == {i \in DOMAIN file : file[i].kind = "entry"}
Expiration(file) == LET i == CHOOSE i \in DOMAIN file : file[i].kind = "expires" IN file[i].at

\* The leap seconds at t, up to the expiration of the file.
Published(file, t) ==
    LET past == {i \in Starts(file) : file[i].at <= t}
    IN  IF past = {} THEN 0
        ELSE file[CHOOSE i \in past : \A j \in past : file[j].at <= file[i].at].leap

\* As IERS writes them: the expiration first, then entries in the order of time.
WellFormed(file) ==
    /\ Starts(file) # {}
    /\ \A i \in DOMAIN file : file[i].kind # "bad"
    /\ \E i \in DOMAIN file :
          /\ file[i].kind = "expires"
          /\ \A j \in DOMAIN file : file[j].kind = "expires" => j = i
          /\ \A j \in Starts(file) : i < j /\ file[j].at < file[i].at
    /\ \A i, j \in Starts(file) : i < j => file[i].at < file[j].at

=============================================================================
