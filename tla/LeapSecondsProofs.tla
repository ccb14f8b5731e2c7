------------------------- MODULE LeapSecondsProofs -------------------------
(***************************************************************************)
(* Proofs about LeapSeconds, for any number of threads, any files, times   *)
(* and replies.                                                            *)
(***************************************************************************)
EXTENDS LeapSeconds, WellFoundedInduction, TLAPS

LockInv ==
    /\ lock \in Proc \cup {NoProc}
    /\ pc \in [Proc -> Pc]
    /\ LockDiscipline

LEMMA InitLockInv == Init => LockInv
BY ConstantAssumption DEF Init, LockInv, Pc, LockDiscipline

\* Each step of a lookup keeps the mutex, takes it when it is free, or gives it
\* back; nothing else touches it.
LEMMA NextLockInv == LockInv /\ [Next]_vars => LockInv'
<1> SUFFICES ASSUME LockInv, [Next]_vars PROVE LockInv'
  OBVIOUS
<1> USE ConstantAssumption DEF LockInv, Pc, LockDiscipline
<1>1. ASSUME NEW p \in Proc, NEW t \in Time, LookupLeap(p, t) PROVE LockInv'
  BY <1>1 DEF LookupLeap
<1>2. ASSUME NEW p \in Proc, UseList(p) \/ StartFetch(p) \/ FetchOk(p) PROVE LockInv'
  BY <1>2 DEF UseList, StartFetch, FetchOk
<1>3. ASSUME NEW p \in Proc, NEW value, pc[p] \in {"locked", "fetching", "search"}, ReturnUnlocked(p, value)
      PROVE  LockInv'
  BY <1>3 DEF ReturnUnlocked
<1>4. ASSUME NEW p \in Proc, FetchDisabled(p) \/ FetchFails(p) \/ BeyondCoverage(p) \/ NoEntry(p) PROVE LockInv'
  BY <1>3, <1>4 DEF FetchDisabled, FetchFails, BeyondCoverage, NoEntry
<1>5. ASSUME NEW p \in Proc, EntryFound(p) PROVE LockInv'
  BY <1>5 DEF EntryFound
<1>6. ASSUME NEW p \in Proc, ReadEntry(p) PROVE LockInv'
  BY <1>6 DEF ReadEntry
<1>7. ASSUME NEW file \in File, SetLeapList(file) \/ Publish(file) PROVE LockInv'
  BY <1>7 DEF SetLeapList, Publish, Silent
<1>8. ASSUME ClearLeapList \/ SetAutoFetch \/ Tick PROVE LockInv'
  BY <1>8 DEF ClearLeapList, SetAutoFetch, Tick, Silent
<1>9. CASE UNCHANGED vars
  BY <1>9 DEF vars
<1> QED
  BY <1>1, <1>2, <1>4, <1>5, <1>6, <1>7, <1>8, <1>9 DEF Next, Lookup

\* leap_mutex is held by a lookup from its first line to the entry found, and
\* no early return of novas_lookup_leap() keeps it.
THEOREM LookupsLock == Spec => []LockDiscipline
<1>1. LockInv => LockDiscipline
  BY DEF LockInv
<1> QED
  BY <1>1, InitLockInv, NextLockInv, PTL DEF Spec

----------------------------------------------------------------------------
(* Induction, and the loop over the lines of a file.                       *)

\* Induction with a set in the place of the predicate.
LEMMA NatSet ==
    ASSUME NEW S, 0 \in S, \A n \in Nat : n \in S => n + 1 \in S
    PROVE  Nat \subseteq S
<1> DEFINE T == Nat \ S
           R == {ss \in Nat \X Nat : ss[1] < ss[2]}
<1>1. IsWellFoundedOn(R, Nat)
  BY NatLessThanWellFounded, Zenon DEF OpToRel
<1>2. SUFFICES ASSUME T # {} PROVE FALSE
  OBVIOUS
<1>3. T \subseteq Nat
  OBVIOUS
<1> HIDE DEF T, R
<1>4. PICK x \in T : \A y \in T : <<y, x>> \notin R
  BY <1>1, <1>2, <1>3, WFMin
<1> USE DEF T, R
<1>5. x \in Nat /\ x # 0 /\ x - 1 \in Nat
  OBVIOUS
<1>6. x - 1 \in S
  <2>1. <<x - 1, x>> \in R
    BY <1>5
  <2> QED
    BY <1>4, <1>5, <2>1
<1> QED
  BY <1>5, <1>6

\* A set of some of the first numbers has a largest one.
LEMMA MaxExists ==
    ASSUME NEW n \in Nat, NEW s \in SUBSET (1 .. n), s # {}
    PROVE  /\ Max(s) \in s
           /\ \A i \in s : i <= Max(s)
<1> DEFINE S == {m \in Nat : \A t \in SUBSET (1 .. m) : t # {} => \E x \in t : \A y \in t : x >= y}
<1>1. 0 \in S
  <2>1. 1 .. 0 = {}
    OBVIOUS
  <2> QED
    BY <2>1
<1>2. ASSUME NEW m \in Nat, m \in S PROVE m + 1 \in S
  <2> SUFFICES ASSUME NEW t \in SUBSET (1 .. m + 1), t # {}
               PROVE  \E x \in t : \A y \in t : x >= y
    OBVIOUS
  <2>1. CASE m + 1 \in t
    BY <2>1
  <2>2. CASE m + 1 \notin t
    <3>1. t \in SUBSET (1 .. m)
      BY <2>2
    <3> QED
      BY <1>2, <3>1
  <2> QED
    BY <2>1, <2>2
<1>3. n \in S
  <2> HIDE DEF S
  <2> QED
    BY <1>1, <1>2, NatSet
<1>4. \E x \in s : \A y \in s : x >= y
  BY <1>3
<1>5. Max(s) \in s /\ \A y \in s : Max(s) >= y
  BY <1>4 DEF Max
<1> QED
  BY <1>5

\* The fold over the lines defers to itself on the lines but the last.
LEMMA FoldIs ==
    ASSUME NEW file
    PROVE  FoldLeft(ReadLine, NoLeaps, file) =
               LET iter[s \in SUBSET (DOMAIN file)] ==
                       IF s = {} THEN NoLeaps ELSE ReadLine(iter[s \ {Max(s)}], file[Max(s)])
               IN  iter[DOMAIN file]
BY DEF FoldLeft, MapThenFoldSet

\* The values of parse_leaps()'s variables after each of the lines.
LEMMA LinesRead ==
    ASSUME NEW file \in Seq(Line)
    PROVE  \E g : /\ g[0] = NoLeaps
                  /\ \A k \in 1 .. Len(file) : g[k] = ReadLine(g[k - 1], file[k])
                  /\ FoldLeft(ReadLine, NoLeaps, file) = g[Len(file)]
<1> DEFINE Folds(h, n) ==
               h = [s \in SUBSET (1 .. n) |->
                      IF s = {} THEN NoLeaps ELSE ReadLine(h[s \ {Max(s)}], file[Max(s)])]
           S == {n \in Nat : \E h : Folds(h, n)}
<1>1. 0 \in S
  <2>1. Folds([s \in SUBSET (1 .. 0) |-> NoLeaps], 0)
    OBVIOUS
  <2> QED
    BY <2>1
<1>2. ASSUME NEW n \in Nat, n \in S PROVE n + 1 \in S
  <2>1. PICK h : Folds(h, n)
    BY <1>2
  <2> DEFINE h1 == [s \in SUBSET (1 .. n + 1) |->
                      IF n + 1 \in s THEN ReadLine(h[s \ {n + 1}], file[n + 1]) ELSE h[s]]
             def == [s \in SUBSET (1 .. n + 1) |->
                      IF s = {} THEN NoLeaps ELSE ReadLine(h1[s \ {Max(s)}], file[Max(s)])]
  <2>2. ASSUME NEW s \in SUBSET (1 .. n + 1) PROVE h1[s] = def[s]
    <3>1. CASE n + 1 \in s
      <4>1. Max(s) = n + 1
        <5>1. n + 1 \in Nat /\ s # {}
          BY <3>1
        <5>2. Max(s) \in s /\ \A i \in s : i <= Max(s)
          BY <5>1, MaxExists
        <5>3. Max(s) \in 1 .. n + 1 /\ n + 1 <= Max(s)
          BY <3>1, <5>2
        <5> QED
          BY <5>3
      <4>2. s \ {n + 1} \in SUBSET (1 .. n + 1) /\ n + 1 \notin s \ {n + 1}
        OBVIOUS
      <4>3. h1[s \ {n + 1}] = h[s \ {n + 1}]
        BY <4>2
      <4> QED
        BY <3>1, <4>1, <4>3
    <3>2. CASE s = {}
      BY <2>1, <3>2
    <3>3. CASE n + 1 \notin s /\ s # {}
      <4>1. s \in SUBSET (1 .. n)
        BY <3>3
      <4>2. Max(s) \in s
        BY <3>3, <4>1, MaxExists
      <4>3. /\ s \ {Max(s)} \in SUBSET (1 .. n + 1)
            /\ h1[s \ {Max(s)}] = h[s \ {Max(s)}]
        BY <3>3
      <4>4. h1[s] = h[s]
        BY <3>3
      <4>5. h[s] = ReadLine(h[s \ {Max(s)}], file[Max(s)])
        BY <2>1, <3>3, <4>1
      <4> QED
        BY <3>3, <4>3, <4>4, <4>5
    <3> QED
      BY <3>1, <3>2, <3>3
  <2>3. h1 = def
    BY <2>2
  <2>4. Folds(h1, n + 1)
    BY <2>3, Zenon
  <2>5. n + 1 \in Nat
    OBVIOUS
  <2> QED
    BY <2>4, <2>5
<1>3. \E h : Folds(h, Len(file))
  <2>1. Len(file) \in Nat
    OBVIOUS
  <2>2. Nat \subseteq S
    <3> HIDE DEF S
    <3> QED
      BY <1>1, <1>2, NatSet
  <2> QED
    BY <2>1, <2>2
<1> DEFINE n == Len(file)
           iter == CHOOSE h : Folds(h, n)
           g == [k \in 0 .. n |-> iter[1 .. k]]
<1>4. Folds(iter, n)
  BY <1>3
<1>5. DOMAIN file = 1 .. n /\ n \in Nat
  OBVIOUS
<1>6. FoldLeft(ReadLine, NoLeaps, file) = iter[1 .. n]
  BY <1>5, FoldIs
<1> HIDE DEF iter
<1>7. ASSUME NEW s \in SUBSET (1 .. n)
      PROVE  iter[s] = IF s = {} THEN NoLeaps ELSE ReadLine(iter[s \ {Max(s)}], file[Max(s)])
  BY <1>4
<1>8. g[0] = NoLeaps
  <2>1. 1 .. 0 = {} /\ {} \in SUBSET (1 .. n)
    OBVIOUS
  <2>2. iter[{}] = NoLeaps
    BY <1>7, <2>1
  <2>3. g[0] = iter[1 .. 0]
    BY <1>5
  <2> QED
    BY <2>1, <2>2, <2>3
<1>9. ASSUME NEW k \in 1 .. n PROVE g[k] = ReadLine(g[k - 1], file[k])
  <2> HIDE DEF n
  <2>1. 1 .. k \in SUBSET (1 .. n) /\ 1 .. k # {} /\ k \in 1 .. k /\ k \in Nat
    BY <1>5
  <2>2. Max(1 .. k) \in 1 .. k /\ \A i \in 1 .. k : i <= Max(1 .. k)
    BY <2>1, MaxExists
  <2>3. Max(1 .. k) = k
    BY <2>1, <2>2
  <2>4. (1 .. k) \ {k} = 1 .. (k - 1)
    BY <2>1
  <2>5. iter[1 .. k] = ReadLine(iter[1 .. (k - 1)], file[k])
    BY <1>7, <2>1, <2>3, <2>4
  <2> QED
    BY <1>5, <2>5
<1>10. g[n] = iter[1 .. n]
  BY <1>5
<1> QED
  BY <1>6, <1>8, <1>9, <1>10

----------------------------------------------------------------------------
(* What parse_leaps() makes of a well-formed file. *)

Span   == [from : Int, to : Int, leap : Int]
Parsed == [entries : Seq(Span), expiration : Int, dated : BOOLEAN, ok : BOOLEAN]

\* Times fit an int: until 2038.
FitsInt(file) == \A i \in DOMAIN file : file[i].at \in -IntMax - 1 .. IntMax

LinesFitInt == \A file \in File : FitsInt(file)

StartsIn(file, k) == {j \in Starts(file) : j <= k}

Begins(e, line) == e.from = line.at /\ e.leap = line.leap

(* The invariant of the loop: the entries are those of the lines read, later *)
(* ones first, and each ends where the one before it in the list begins, or  *)
(* with the file.                                                            *)
EntriesRead(p, file, k) ==
    /\ \A i \in DOMAIN p.entries : \E j \in StartsIn(file, k) : Begins(p.entries[i], file[j])
    /\ \A j \in StartsIn(file, k) : \E i \in DOMAIN p.entries : Begins(p.entries[i], file[j])

EntriesInOrder(p) ==
    \A i, j \in DOMAIN p.entries : i < j => p.entries[j].from < p.entries[i].from

EntriesAbut(p) ==
    \A i \in DOMAIN p.entries :
        p.entries[i].to = IF i = 1 THEN p.expiration ELSE p.entries[i - 1].from

ReadSoFar(p, file, k) ==
    /\ p \in Parsed /\ p.ok
    /\ p.dated <=> \E i \in 1 .. k : file[i].kind = "expires"
    /\ p.dated => p.expiration = Expiration(file)
    /\ EntriesRead(p, file, k) /\ EntriesInOrder(p) /\ EntriesAbut(p)

\* Conversion to int leaves a time that fits alone.
LEMMA ToIntFits == ASSUME NEW x \in -IntMax - 1 .. IntMax PROVE ToInt(x) = x
<1> DEFINE m == 2 * (IntMax + 1)
           y == x + IntMax + 1
<1>1. m \in Nat \ {0} /\ y \in 0 .. m - 1 /\ x = y - IntMax - 1
  BY IntMaxAssumption
<1>2. ToInt(x) = (y % m) - IntMax - 1
  BY DEF ToInt
<1> HIDE DEF m, y
<1>3. y % m = y
  BY <1>1
<1> QED
  BY <1>1, <1>2, <1>3

\* The expiration line of a well-formed file is its only one.
LEMMA ExpirationIs ==
    ASSUME NEW file, NEW i \in DOMAIN file, file[i].kind = "expires",
           \A j \in DOMAIN file : file[j].kind = "expires" => j = i
    PROVE  Expiration(file) = file[i].at
BY DEF Expiration

LEMMA EntryAdded ==
    ASSUME NEW file \in Seq(Line), WellFormed(file), FitsInt(file),
           NEW k \in Nat, k + 1 \in DOMAIN file, file[k + 1].kind = "entry",
           NEW p, ReadSoFar(p, file, k)
    PROVE  ReadSoFar(AddEntry(p, file[k + 1]), file, k + 1)
<1> DEFINE line == file[k + 1]
           e == [from |-> line.at, to |-> p.expiration, leap |-> line.leap]
           new == AddEntry(p, line)
<1>1. /\ p \in Parsed /\ p.entries \in Seq(Span)
      /\ line \in Line /\ line.at \in -IntMax - 1 .. IntMax
      /\ \A j \in DOMAIN file : file[j].at \in Int /\ file[j].leap \in Int
  <2>1. \A j \in DOMAIN file : file[j] \in Line
    OBVIOUS
  <2> QED
    BY <2>1 DEF ReadSoFar, Parsed, FitsInt, Line
<1>2. PICK x \in DOMAIN file :
        /\ file[x].kind = "expires"
        /\ \A j \in DOMAIN file : file[j].kind = "expires" => j = x
        /\ \A j \in Starts(file) : x < j /\ file[j].at < file[x].at
  BY DEF WellFormed
<1>3. k + 1 \in Starts(file) /\ x <= k /\ x \in 1 .. k
  BY <1>2 DEF Starts
<1>4. /\ p.dated /\ p.expiration = file[x].at
      /\ p.expiration \in -IntMax - 1 .. IntMax
  BY <1>2, <1>3, ExpirationIs DEF ReadSoFar, FitsInt
<1>5. /\ ToInt(line.at) = line.at
      /\ ToInt(p.expiration) = p.expiration
  BY <1>1, <1>4, ToIntFits
<1>6. /\ new.ok = p.ok /\ new.dated = p.dated /\ new.expiration = p.expiration
      /\ new.entries = <<e>> \o (IF p.entries = <<>> THEN <<>> ELSE [p.entries EXCEPT ![1].to = e.from])
  BY <1>1, <1>5 DEF AddEntry, Parsed
<1> DEFINE n == Len(p.entries)
<1>7. /\ n \in Nat /\ DOMAIN p.entries = 1 .. n
      /\ \A i \in 1 .. n : p.entries[i] \in Span
  BY <1>1
<1>8. e \in Span /\ e.from \in Int
  BY <1>1, <1>4 DEF Span
<1>9. /\ new.entries \in Seq(Span) /\ Len(new.entries) = n + 1
      /\ new.entries[1] = e
      /\ \A i \in 1 .. n : /\ new.entries[i + 1].from = p.entries[i].from
                           /\ new.entries[i + 1].leap = p.entries[i].leap
                           /\ new.entries[i + 1].to = IF i = 1 THEN e.from ELSE p.entries[i].to
  <2> HIDE DEF e, new, line
  <2>1. CASE p.entries = <<>>
    <3>1. new.entries = <<e>> /\ n = 0
      BY <1>6, <2>1
    <3> QED
      BY <1>8, <3>1
  <2>2. CASE p.entries # <<>>
    <3> DEFINE old == [p.entries EXCEPT ![1].to = e.from]
    <3>1. n > 0 /\ 1 \in 1 .. n
      BY <1>1, <1>7, <2>2
    <3>2. [p.entries[1] EXCEPT !.to = e.from] \in Span
      BY <1>7, <1>8, <3>1 DEF Span
    <3>3. /\ old \in Seq(Span) /\ Len(old) = n
          /\ old[1] = [p.entries[1] EXCEPT !.to = e.from]
          /\ \A i \in 1 .. n : i # 1 => old[i] = p.entries[i]
      BY <1>1, <1>7, <3>1, <3>2
    <3>4. new.entries = <<e>> \o old
      BY <1>6, <2>2
    <3> HIDE DEF old
    <3>5. /\ new.entries \in Seq(Span) /\ Len(new.entries) = n + 1
          /\ new.entries[1] = e
          /\ \A i \in 1 .. n : new.entries[i + 1] = old[i]
      BY <1>7, <1>8, <3>3, <3>4
    <3>6. \A i \in 1 .. n : /\ old[i].from = p.entries[i].from
                            /\ old[i].leap = p.entries[i].leap
                            /\ old[i].to = IF i = 1 THEN e.from ELSE p.entries[i].to
      BY <1>7, <3>1, <3>3 DEF Span
    <3> QED
      BY <3>5, <3>6
  <2> QED
    BY <2>1, <2>2
<1>10. /\ DOMAIN new.entries = 1 .. n + 1
       /\ \A i \in 1 .. n + 1 : i = 1 \/ (i - 1 \in 1 .. n /\ i = (i - 1) + 1)
  BY <1>7, <1>9
<1>11. /\ e.from = line.at /\ e.leap = line.leap /\ e.to = p.expiration
       /\ StartsIn(file, k + 1) = StartsIn(file, k) \cup {k + 1}
  BY <1>3 DEF StartsIn, Starts
<1>12. \A j \in StartsIn(file, k) : file[j].at < line.at
  <2>1. \A j \in StartsIn(file, k) : j \in Starts(file) /\ j < k + 1
    BY DEF StartsIn, Starts
  <2> QED
    BY <1>3, <2>1 DEF WellFormed
<1> HIDE DEF n, e, new
<1>13. EntriesRead(new, file, k + 1)
  <2>1. ASSUME NEW i \in 1 .. n + 1
        PROVE  \E j \in StartsIn(file, k + 1) : Begins(new.entries[i], file[j])
    <3>1. CASE i = 1
      BY <1>9, <1>11, <3>1 DEF Begins
    <3>2. CASE i - 1 \in 1 .. n
      <4>1. PICK j \in StartsIn(file, k) : Begins(p.entries[i - 1], file[j])
        BY <1>7, <3>2 DEF ReadSoFar, EntriesRead
      <4> QED
        BY <1>9, <1>10, <1>11, <3>2, <4>1 DEF Begins
    <3> QED
      BY <1>10, <3>1, <3>2
  <2>2. ASSUME NEW j \in StartsIn(file, k + 1)
        PROVE  \E i \in 1 .. n + 1 : Begins(new.entries[i], file[j])
    <3>1. CASE j = k + 1
      <4>1. 1 \in 1 .. n + 1
        BY <1>7
      <4> QED
        BY <1>9, <1>11, <3>1, <4>1 DEF Begins
    <3>2. CASE j \in StartsIn(file, k)
      <4>1. PICK i \in 1 .. n : Begins(p.entries[i], file[j])
        BY <1>7, <3>2 DEF ReadSoFar, EntriesRead
      <4>2. i + 1 \in 1 .. n + 1
        BY <1>7
      <4> QED
        BY <1>9, <4>1, <4>2 DEF Begins
    <3> QED
      BY <1>11, <3>1, <3>2
  <2> QED
    BY <1>10, <2>1, <2>2 DEF EntriesRead
<1>14. \A i \in 1 .. n : p.entries[i].from < e.from
  <2> TAKE i \in 1 .. n
  <2>1. PICK j \in StartsIn(file, k) : Begins(p.entries[i], file[j])
    BY <1>7 DEF ReadSoFar, EntriesRead
  <2> QED
    BY <1>11, <1>12, <2>1 DEF Begins
<1>15. EntriesInOrder(new)
  <2>1. ASSUME NEW i \in 1 .. n + 1, NEW j \in 1 .. n + 1, i < j
        PROVE  new.entries[j].from < new.entries[i].from
    <3>1. j - 1 \in 1 .. n /\ new.entries[j].from = p.entries[j - 1].from
      BY <1>7, <1>9, <1>10, <2>1
    <3>2. CASE i = 1
      BY <1>9, <1>14, <3>1, <3>2
    <3>3. CASE i - 1 \in 1 .. n
      <4>1. i - 1 < j - 1 /\ new.entries[i].from = p.entries[i - 1].from
        BY <1>9, <1>10, <2>1, <3>3
      <4> QED
        BY <1>7, <3>1, <3>3, <4>1 DEF ReadSoFar, EntriesInOrder
    <3> QED
      BY <1>10, <3>2, <3>3
  <2> QED
    BY <1>10, <2>1 DEF EntriesInOrder
<1>16. EntriesAbut(new)
  <2>1. ASSUME NEW i \in 1 .. n + 1
        PROVE  new.entries[i].to = IF i = 1 THEN new.expiration ELSE new.entries[i - 1].from
    <3>1. CASE i = 1
      BY <1>6, <1>9, <1>11, <3>1
    <3>2. CASE i = 2
      BY <1>7, <1>9, <1>10, <3>2
    <3>3. CASE i > 2
      <4>1. /\ i - 1 \in 1 .. n /\ i - 1 # 1 /\ i - 2 \in 1 .. n
            /\ (i - 2) + 1 = i - 1 /\ (i - 1) + 1 = i /\ (i - 1) - 1 = i - 2
        BY <1>7, <3>3
      <4>2. new.entries[i].to = p.entries[i - 1].to
        BY <1>9, <4>1
      <4>3. new.entries[i - 1].from = p.entries[i - 2].from
        BY <1>9, <4>1
      <4>4. p.entries[i - 1].to = p.entries[i - 2].from
        BY <1>7, <4>1 DEF ReadSoFar, EntriesAbut
      <4> QED
        BY <3>3, <4>2, <4>3, <4>4
    <3> QED
      BY <1>7, <3>1, <3>2, <3>3
  <2> QED
    BY <1>10, <2>1 DEF EntriesAbut
<1>17. new \in Parsed
  <2>1. new = [p EXCEPT !.entries = new.entries]
    BY <1>1 DEF new, AddEntry, Parsed
  <2> QED
    BY <1>1, <1>9, <2>1 DEF Parsed
<1>18. new.dated <=> \E i \in 1 .. k + 1 : file[i].kind = "expires"
  BY <1>3, <1>2, <1>4, <1>6
<1> QED
  BY <1>2, <1>4, <1>6, <1>13, <1>15, <1>16, <1>17, <1>18, ExpirationIs DEF ReadSoFar, new

LEMMA LineRead ==
    ASSUME NEW file \in Seq(Line), WellFormed(file), FitsInt(file),
           NEW k \in Nat, k + 1 \in DOMAIN file,
           NEW p, ReadSoFar(p, file, k)
    PROVE  ReadSoFar(ReadLine(p, file[k + 1]), file, k + 1)
<1> DEFINE line == file[k + 1]
           new == ReadLine(p, line)
<1>1. /\ p \in Parsed /\ p.ok
      /\ line \in Line /\ line.kind # "bad"
      /\ 1 .. k + 1 = 1 .. k \cup {k + 1}
  BY DEF ReadSoFar, WellFormed
<1>2. CASE line.kind = "entry"
  <2>1. new = AddEntry(p, line)
    BY <1>1, <1>2 DEF ReadLine
  <2> QED
    BY <1>2, <2>1, EntryAdded
<1>3. ASSUME line.kind # "entry" PROVE StartsIn(file, k + 1) = StartsIn(file, k)
  BY <1>3 DEF StartsIn, Starts
<1>4. CASE line.kind = "expires"
  <2>1. PICK x \in DOMAIN file :
          /\ file[x].kind = "expires"
          /\ \A j \in DOMAIN file : file[j].kind = "expires" => j = x
          /\ \A j \in Starts(file) : x < j
    BY DEF WellFormed
  <2>2. x = k + 1
    BY <1>4, <2>1
  <2>3. ~p.dated /\ StartsIn(file, k) = {}
    BY <2>1, <2>2 DEF ReadSoFar, StartsIn, Starts
  <2>4. new = [p EXCEPT !.expiration = line.at, !.dated = TRUE]
    BY <1>1, <1>4, <2>3 DEF ReadLine
  <2>5. DOMAIN p.entries = {}
    BY <2>3 DEF ReadSoFar, EntriesRead
  <2>6. /\ new \in Parsed /\ new.ok /\ new.dated /\ new.entries = p.entries
        /\ new.expiration = line.at
    BY <1>1, <2>4 DEF Parsed, Line
  <2>7. new.expiration = Expiration(file)
    BY <2>1, <2>2, <2>6, ExpirationIs
  <2>8. EntriesRead(new, file, k + 1) /\ EntriesInOrder(new) /\ EntriesAbut(new)
    BY <1>3, <1>4, <2>3, <2>5, <2>6 DEF EntriesRead, EntriesInOrder, EntriesAbut
  <2> QED
    BY <1>1, <1>4, <2>6, <2>7, <2>8 DEF ReadSoFar
<1>5. CASE line.kind \notin {"entry", "expires"}
  <2>1. new = p
    BY <1>1, <1>5 DEF ReadLine
  <2> QED
    BY <1>1, <1>3, <1>5, <2>1 DEF ReadSoFar, EntriesRead
<1> QED
  BY <1>1, <1>2, <1>4, <1>5

\* parse_leaps() makes a list of any well-formed file.
LEMMA FileRead ==
    ASSUME NEW file \in Seq(Line), WellFormed(file), FitsInt(file)
    PROVE  /\ ReadSoFar(ParseLeaps(file), file, Len(file))
           /\ ParseLeaps(file).entries # <<>>
<1>1. PICK g :
        /\ g[0] = NoLeaps
        /\ \A k \in 1 .. Len(file) : g[k] = ReadLine(g[k - 1], file[k])
        /\ FoldLeft(ReadLine, NoLeaps, file) = g[Len(file)]
  BY LinesRead
<1> DEFINE n == Len(file)
           S == {k \in Nat : k <= n => ReadSoFar(g[k], file, k)}
<1>2. n \in Nat /\ DOMAIN file = 1 .. n
  OBVIOUS
<1> HIDE DEF n
<1>3. 0 \in S
  <2>1. StartsIn(file, 0) = {} /\ 1 .. 0 = {}
    BY <1>2 DEF StartsIn, Starts
  <2>2. NoLeaps \in Parsed /\ NoLeaps.ok /\ ~NoLeaps.dated /\ DOMAIN NoLeaps.entries = {}
    BY DEF NoLeaps, Parsed
  <2> QED
    BY <1>1, <2>1, <2>2 DEF ReadSoFar, EntriesRead, EntriesInOrder, EntriesAbut
<1>4. ASSUME NEW k \in Nat, k \in S PROVE k + 1 \in S
  <2> SUFFICES ASSUME k + 1 <= n PROVE ReadSoFar(g[k + 1], file, k + 1)
    OBVIOUS
  <2>1. k + 1 \in 1 .. n /\ (k + 1) - 1 = k
    BY <1>2
  <2>2. g[k + 1] = ReadLine(g[k], file[k + 1])
    BY <1>1, <2>1 DEF n
  <2>3. ReadSoFar(g[k], file, k)
    BY <1>2, <1>4
  <2> QED
    BY <1>2, <2>1, <2>2, <2>3, LineRead
<1>5. ReadSoFar(g[n], file, n)
  <2>1. Nat \subseteq S
    <3> HIDE DEF S
    <3> QED
      BY <1>3, <1>4, NatSet
  <2> QED
    BY <1>2, <2>1
<1>6. g[n].dated /\ g[n].entries # <<>>
  <2>1. PICK x \in 1 .. n : file[x].kind = "expires"
    BY <1>2 DEF WellFormed
  <2>2. PICK j : j \in Starts(file)
    BY DEF WellFormed
  <2>3. j \in StartsIn(file, n)
    BY <1>2, <2>2 DEF StartsIn, Starts
  <2>4. PICK i \in DOMAIN g[n].entries : Begins(g[n].entries[i], file[j])
    BY <1>5, <2>3 DEF ReadSoFar, EntriesRead
  <2> QED
    BY <1>5, <2>1, <2>4 DEF ReadSoFar
<1>7. ParseLeaps(file) = g[n]
  BY <1>1, <1>5, <1>6 DEF ParseLeaps, ReadSoFar, n
<1> QED
  BY <1>5, <1>6, <1>7 DEF n

----------------------------------------------------------------------------
(* What the search of such a list finds.                                   *)

ResultOf(l, t) ==
    IF Beyond(l, t) THEN Failed
    ELSE IF Holding(l, t) = {} THEN 0
    ELSE l.entries[First(Holding(l, t))].leap

Past(file, t) == {i \in Starts(file) : file[i].at <= t}

\* The last entry that has begun is the latest.
LEMMA LatestPast ==
    ASSUME NEW file \in Seq(Line), WellFormed(file), NEW t \in Int, Past(file, t) # {}
    PROVE  \E j \in Past(file, t) :
              /\ \A i \in Past(file, t) : file[i].at <= file[j].at
              /\ Published(file, t) = file[j].leap
<1> DEFINE past == Past(file, t)
           j == Max(past)
           Latest(x) == x \in past /\ \A i \in past : file[i].at <= file[x].at
           l == CHOOSE x \in past : \A i \in past : file[i].at <= file[x].at
<1>1. past \in SUBSET (1 .. Len(file)) /\ Len(file) \in Nat
  BY DEF Past, Starts
<1>2. j \in past /\ \A i \in past : i <= j
  BY <1>1, MaxExists
<1>3. \A i \in past : i \in Starts(file) /\ i \in 1 .. Len(file) /\ file[i].at \in Int
  <2>1. \A i \in DOMAIN file : file[i] \in Line
    OBVIOUS
  <2> QED
    BY <1>1, <2>1 DEF Past, Starts, Line
<1>4. \A i \in past : file[i].at <= file[j].at
  <2> HIDE DEF j
  <2> TAKE i \in past
  <2>1. i = j \/ i < j
    BY <1>2, <1>3
  <2> QED
    BY <1>2, <1>3, <2>1 DEF WellFormed
<1>5. Latest(l)
  BY <1>2, <1>4
<1>6. Published(file, t) = file[l].leap
  BY DEF Published, Past
<1> HIDE DEF l
<1> QED
  BY <1>5, <1>6

LEMMA SearchRight ==
    ASSUME NEW file \in Seq(Line), WellFormed(file), FitsInt(file),
           NEW t \in Int, t < Expiration(file)
    PROVE  ResultOf(ParseLeaps(file), t) = Published(file, t)
<1> DEFINE l == ParseLeaps(file)
           n == Len(l.entries)
<1>1. ReadSoFar(l, file, Len(file)) /\ l.entries # <<>>
  BY FileRead
<1> HIDE DEF l
<1>2. /\ l.entries \in Seq(Span) /\ n \in Nat /\ DOMAIN l.entries = 1 .. n /\ 1 \in 1 .. n
      /\ \A i \in 1 .. n : l.entries[i].from \in Int /\ l.entries[i].to \in Int
  <2>1. l.entries \in Seq(Span)
    BY <1>1 DEF ReadSoFar, Parsed
  <2>2. n \in Nat /\ DOMAIN l.entries = 1 .. n /\ n # 0
    BY <1>1, <2>1
  <2>3. \A i \in 1 .. n : l.entries[i] \in Span
    BY <2>1
  <2> QED
    BY <2>1, <2>2, <2>3 DEF Span
<1>3. StartsIn(file, Len(file)) = Starts(file)
  BY DEF StartsIn, Starts
<1>4. \A j \in Starts(file) : j \in DOMAIN file /\ file[j].at \in Int
  <2>1. \A j \in DOMAIN file : file[j] \in Line
    OBVIOUS
  <2> QED
    BY <2>1 DEF Starts, Line
<1>5. l.dated /\ l.expiration = Expiration(file) /\ l.expiration \in Int
  <2>1. l.dated
    BY <1>1 DEF ReadSoFar, WellFormed
  <2> QED
    BY <1>1, <2>1 DEF ReadSoFar, Parsed
<1>6. ~Beyond(l, t)
  <2>1. l.entries[1].to = l.expiration
    BY <1>1, <1>2 DEF ReadSoFar, EntriesAbut
  <2> QED
    BY <1>5, <2>1 DEF Beyond
<1> HIDE DEF n
<1>7. CASE Past(file, t) = {}
  <2>1. ASSUME NEW i \in 1 .. n PROVE t < l.entries[i].from
    <3>1. PICK j \in Starts(file) : Begins(l.entries[i], file[j])
      BY <1>1, <1>2, <1>3 DEF ReadSoFar, EntriesRead
    <3> QED
      BY <1>4, <1>7, <3>1 DEF Past, Begins
  <2>2. Holding(l, t) = {}
    BY <1>2, <2>1 DEF Holding
  <2>3. Published(file, t) = 0
    BY <1>7 DEF Published, Past
  <2> QED
    BY <1>6, <2>2, <2>3 DEF ResultOf, l
<1>8. CASE Past(file, t) # {}
  <2>1. PICK j \in Past(file, t) :
          /\ \A i \in Past(file, t) : file[i].at <= file[j].at
          /\ Published(file, t) = file[j].leap
    BY <1>8, LatestPast
  <2>2. j \in Starts(file) /\ file[j].at <= t
    BY DEF Past
  <2>3. PICK i \in 1 .. n : Begins(l.entries[i], file[j])
    BY <1>1, <1>2, <1>3, <2>2 DEF ReadSoFar, EntriesRead
  \* No entry begins between that one and t.
  <2>4. \A m \in 1 .. n : l.entries[m].from <= t => l.entries[m].from <= l.entries[i].from
    <3> TAKE m \in 1 .. n
    <3>1. PICK q \in Starts(file) : Begins(l.entries[m], file[q])
      BY <1>1, <1>2, <1>3 DEF ReadSoFar, EntriesRead
    <3> QED
      BY <2>1, <2>3, <3>1 DEF Past, Begins
  <2>5. l.entries[i].from <= t
    BY <2>2, <2>3 DEF Begins
  <2>6. t < l.entries[i].to
    <3>1. CASE i = 1
      BY <1>1, <1>2, <1>5, <3>1 DEF ReadSoFar, EntriesAbut
    <3>2. CASE i # 1
      <4>1. i - 1 \in 1 .. n /\ i - 1 < i
        BY <1>2, <3>2
      <4>2. l.entries[i].to = l.entries[i - 1].from
        BY <1>1, <1>2, <3>2 DEF ReadSoFar, EntriesAbut
      <4>3. l.entries[i].from < l.entries[i - 1].from
        BY <1>1, <1>2, <4>1 DEF ReadSoFar, EntriesInOrder
      <4> QED
        BY <1>2, <2>4, <4>1, <4>2, <4>3
    <3> QED
      BY <3>1, <3>2
  <2>7. ASSUME NEW m \in 1 .. n, l.entries[m].from <= t, t < l.entries[m].to PROVE m = i
    <3>1. CASE m < i
      <4>1. l.entries[i].from < l.entries[m].from
        BY <1>1, <1>2, <3>1 DEF ReadSoFar, EntriesInOrder
      <4> QED
        BY <1>2, <2>4, <2>7, <4>1
    <3>2. CASE i < m
      <4>1. m # 1 /\ m - 1 \in 1 .. n /\ (i = m - 1 \/ i < m - 1)
        BY <1>2, <3>2
      <4>2. l.entries[m].to = l.entries[m - 1].from
        BY <1>1, <1>2, <4>1 DEF ReadSoFar, EntriesAbut
      <4>3. l.entries[m - 1].from <= l.entries[i].from
        <5>1. l.entries[m - 1].from \in Int /\ l.entries[i].from \in Int
          BY <1>1, <1>2, <4>1 DEF ReadSoFar, Parsed, Span
        <5>2. CASE i = m - 1
          BY <5>1, <5>2
        <5>3. CASE i < m - 1
          <6>1. l.entries[m - 1].from < l.entries[i].from
            BY <1>1, <1>2, <4>1, <5>3 DEF ReadSoFar, EntriesInOrder
          <6> QED
            BY <5>1, <6>1
        <5> QED
          BY <4>1, <5>2, <5>3
      <4> QED
        BY <1>2, <2>5, <2>7, <4>1, <4>2, <4>3
    <3> QED
      BY <1>2, <3>1, <3>2
  <2>8. Holding(l, t) = {i}
    BY <1>2, <2>5, <2>6, <2>7 DEF Holding
  <2>9. First({i}) = i
    BY <1>2 DEF First
  <2> QED
    BY <1>6, <2>1, <2>3, <2>8, <2>9 DEF ResultOf, Begins, l
<1> QED
  BY <1>7, <1>8

----------------------------------------------------------------------------
(* The list in use. *)

\* The list in use is that of the file it was read from.
SourceInv ==
    /\ served \in File
    /\ asked \in [Proc -> Time]
    /\ \/ source = <<>>
       \/ source \in File /\ leaps = ParseLeaps(source)

LEMMA InitSourceInv == Init => SourceInv
<1> SUFFICES ASSUME Init PROVE SourceInv
  OBVIOUS
<1>1. (CHOOSE t \in Time : TRUE) \in Time
  BY ConstantAssumption
<1> QED
  BY <1>1 DEF Init, SourceInv

LEMMA NextSourceInv == SourceInv /\ [Next]_vars => SourceInv'
<1> SUFFICES ASSUME SourceInv, [Next]_vars PROVE SourceInv'
  OBVIOUS
<1> USE DEF SourceInv
<1>1. ASSUME NEW p \in Proc, NEW t \in Time, LookupLeap(p, t) PROVE SourceInv'
  BY <1>1 DEF LookupLeap, shared
<1>2. ASSUME NEW p \in Proc, FetchOk(p) PROVE SourceInv'
  BY <1>2 DEF FetchOk, SetList
<1>3. ASSUME NEW p \in Proc,
             \/ UseList(p) \/ StartFetch(p) \/ FetchDisabled(p) \/ FetchFails(p)
             \/ BeyondCoverage(p) \/ EntryFound(p) \/ ReadEntry(p) \/ NoEntry(p)
      PROVE  SourceInv'
  BY <1>3 DEF UseList, StartFetch, FetchDisabled, FetchFails, BeyondCoverage, EntryFound, ReadEntry,
              NoEntry, shared
<1>4. ASSUME NEW file \in File, SetLeapList(file) \/ Publish(file) PROVE SourceInv'
  BY <1>4 DEF SetLeapList, Publish, SetList, Silent
<1>5. ASSUME ClearLeapList \/ SetAutoFetch \/ Tick PROVE SourceInv'
  BY <1>5 DEF ClearLeapList, SetAutoFetch, Tick, SetList, Silent
<1>6. CASE UNCHANGED vars
  BY <1>6 DEF vars
<1> QED
  BY <1>1, <1>2, <1>3, <1>4, <1>5, <1>6 DEF Next, Lookup

\* A search of the list in use finds what the file it was read from says, for
\* any files with times that fit an int, whoever set or fetched them and when.
THEOREM AnswersPublished == ASSUME LinesFitInt PROVE Spec => []AnswerIsPublished
<1>1. SourceInv => AnswerIsPublished
  <2> SUFFICES ASSUME SourceInv, NEW p \in Proc,
                      WellFormed(source), asked[p] < Expiration(source)
               PROVE  Result(asked[p]) = Published(source, asked[p])
    BY DEF AnswerIsPublished
  <2>1. source # <<>>
    BY DEF WellFormed, Starts
  <2>2. source \in File /\ leaps = ParseLeaps(source) /\ asked[p] \in Int
    BY <2>1, ConstantAssumption DEF SourceInv
  <2>3. source \in Seq(Line) /\ FitsInt(source)
    BY <2>2, ConstantAssumption DEF LinesFitInt
  <2>4. Result(asked[p]) = ResultOf(ParseLeaps(source), asked[p])
    BY <2>2 DEF Result, ResultOf
  <2> QED
    BY <2>2, <2>3, <2>4, SearchRight
<1> QED
  BY <1>1, InitSourceInv, NextSourceInv, PTL DEF Spec

=============================================================================
