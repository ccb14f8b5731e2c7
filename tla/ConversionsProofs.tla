-------------------------- MODULE ConversionsProofs --------------------------
(***************************************************************************)
(* A direction is where the definition of its system puts it, for any      *)
(* dates, offsets of the pole and low-precision models, and however many   *)
(* conversions, by whatever functions, and calls for other dates come in   *)
(* between.  A word of rotations that all lead ahead grows by those of a   *)
(* chain and shrinks by those of its inverse, whatever the chain; and from *)
(* each system to the next, in whose order all functions go, there is one  *)
(* such chain, by the matrices of a frame as by the functions that compute *)
(* them anew.                                                              *)
(***************************************************************************)
EXTENDS Conversions, SequenceTheorems, WellFoundedInduction, TLAPS

\* No apparent place is asked in the ITRS, for which icrs_to_sys() and
\* novas_app_to_geom() give wobble() milliarcseconds where it takes arcseconds.
NoApparentItrs == AppSystems \subseteq Systems \ {"ITRS"}

-----------------------------------------------------------------------------
(* Folds, for the words of rotations. *)

LEMMA NatSet ==
    ASSUME NEW S, 0 \in S, \A n \in Nat : n \in S => n + 1 \in S
    PROVE  Nat \subseteq S
<1> DEFINE Out == Nat \ S
           R == {ss \in Nat \X Nat : ss[1] < ss[2]}
<1>1. IsWellFoundedOn(R, Nat)
  BY NatLessThanWellFounded, Zenon DEF OpToRel
<1>2. SUFFICES ASSUME Out # {} PROVE FALSE
  OBVIOUS
<1>3. Out \subseteq Nat
  OBVIOUS
<1> HIDE DEF Out, R
<1>4. PICK x \in Out : \A y \in Out : <<y, x>> \notin R
  BY <1>1, <1>2, <1>3, WFMin
<1> USE DEF Out, R
<1>5. x \in Nat /\ x # 0 /\ x - 1 \in Nat
  OBVIOUS
<1>6. x - 1 \in S
  <2>1. <<x - 1, x>> \in R
    BY <1>5
  <2> QED
    BY <1>4, <1>5, <2>1
<1> QED
  BY <1>5, <1>6

\* A set of some of the first numbers has a largest one.
LEMMA MaxExists ==
    ASSUME NEW n \in Nat, NEW s \in SUBSET (1 .. n), s # {}
    PROVE  /\ Max(s) \in s
           /\ \A i \in s : i <= Max(s)
<1> DEFINE S == {m \in Nat : \A t \in SUBSET (1 .. m) : t # {} => \E x \in t : \A y \in t : x >= y}
<1>1. 0 \in S
  <2>1. 1 .. 0 = {}
    OBVIOUS
  <2> QED
    BY <2>1
<1>2. ASSUME NEW m \in Nat, m \in S PROVE m + 1 \in S
  <2> SUFFICES ASSUME NEW t \in SUBSET (1 .. m + 1), t # {}
               PROVE  \E x \in t : \A y \in t : x >= y
    OBVIOUS
  <2>1. CASE m + 1 \in t
    BY <2>1
  <2>2. CASE m + 1 \notin t
    <3>1. t \in SUBSET (1 .. m)
      BY <2>2
    <3> QED
      BY <1>2, <3>1
  <2> QED
    BY <2>1, <2>2
<1>3. n \in S
  <2> HIDE DEF S
  <2> QED
    BY <1>1, <1>2, NatSet
<1>4. \E x \in s : \A y \in s : x >= y
  BY <1>3
<1>5. Max(s) \in s /\ \A y \in s : Max(s) >= y
  BY <1>4 DEF Max
<1> QED
  BY <1>5

LEMMA UpTo ==
    ASSUME NEW n \in Nat, NEW k \in 1 .. n
    PROVE  /\ (1 .. k) \in SUBSET (1 .. n)
           /\ (1 .. k) # {}
           /\ Max(1 .. k) = k
           /\ (1 .. k) \ {k} = 1 .. (k - 1)
<1>1. k \in Nat /\ k \in 1 .. k
  OBVIOUS
<1>2. (1 .. k) \in SUBSET (1 .. n) /\ (1 .. k) \in SUBSET (1 .. k)
  OBVIOUS
<1>3. (1 .. k) # {}
  BY <1>1
<1>4. Max(1 .. k) \in 1 .. k /\ \A i \in 1 .. k : i <= Max(1 .. k)
  BY <1>1, <1>2, <1>3, MaxExists
<1>5. Max(1 .. k) = k
  BY <1>1, <1>4
<1>6. (1 .. k) \ {k} = 1 .. (k - 1)
  BY <1>1
<1> QED
  BY <1>2, <1>3, <1>5, <1>6

\* The recursion of a fold over n elements, f(value, index) being its step.
FoldsBy(h, f, base, n) ==
    \A s \in SUBSET (1 .. n) : h[s] = IF s = {} THEN base ELSE f[<<h[s \ {Max(s)}], Max(s)>>]

\* It has a solution among the values.
LEMMA FoldExists ==
    ASSUME NEW n \in Nat, NEW W, NEW base \in W, NEW f \in [W \X (1 .. n) -> W]
    PROVE  \E h \in [SUBSET (1 .. n) -> W] : FoldsBy(h, f, base, n)
<1> DEFINE Folds(h, m) == \A s \in SUBSET (1 .. m) :
                             h[s] = IF s = {} THEN base ELSE f[<<h[s \ {Max(s)}], Max(s)>>]
           Solved(m) == m <= n => \E h \in [SUBSET (1 .. m) -> W] : Folds(h, m)
           S == {m \in Nat : Solved(m)}
<1>1. Solved(0)
  <2> DEFINE h0 == [s \in SUBSET (1 .. 0) |-> base]
  <2>1. h0 \in [SUBSET (1 .. 0) -> W] /\ Folds(h0, 0)
    OBVIOUS
  <2> QED
    BY <2>1
<1>2. ASSUME NEW m \in Nat, Solved(m) PROVE Solved(m + 1)
  <2> SUFFICES ASSUME m + 1 <= n PROVE \E h \in [SUBSET (1 .. m + 1) -> W] : Folds(h, m + 1)
    OBVIOUS
  <2>5. m <= n
    OBVIOUS
  <2>1. PICK h \in [SUBSET (1 .. m) -> W] : Folds(h, m)
    BY <1>2, <2>5, Zenon
  <2> DEFINE h1 == [s \in SUBSET (1 .. m + 1) |->
                      IF m + 1 \in s THEN f[<<h[s \ {m + 1}], m + 1>>] ELSE h[s]]
  <2>2. h1 \in [SUBSET (1 .. m + 1) -> W]
    <3>1. ASSUME NEW s \in SUBSET (1 .. m + 1), m + 1 \in s
          PROVE  f[<<h[s \ {m + 1}], m + 1>>] \in W
      <4>1. s \ {m + 1} \in SUBSET (1 .. m) /\ m + 1 \in 1 .. n
        OBVIOUS
      <4> QED
        BY <4>1
    <3>2. ASSUME NEW s \in SUBSET (1 .. m + 1), m + 1 \notin s PROVE h[s] \in W
      <4>1. s \in SUBSET (1 .. m)
        BY <3>2
      <4> QED
        BY <4>1
    <3> QED
      BY <3>1, <3>2
  <2>3. ASSUME NEW s \in SUBSET (1 .. m + 1)
        PROVE  h1[s] = IF s = {} THEN base ELSE f[<<h1[s \ {Max(s)}], Max(s)>>]
    <3>1. CASE m + 1 \in s
      <4>1. Max(s) = m + 1
        <5>1. m + 1 \in Nat /\ s # {}
          BY <3>1
        <5>2. Max(s) \in s /\ \A i \in s : i <= Max(s)
          BY <5>1, MaxExists
        <5>3. Max(s) \in 1 .. m + 1 /\ m + 1 <= Max(s)
          BY <3>1, <5>2
        <5> QED
          BY <5>3
      <4>2. s \ {m + 1} \in SUBSET (1 .. m + 1) /\ m + 1 \notin s \ {m + 1}
        OBVIOUS
      <4>3. h1[s \ {m + 1}] = h[s \ {m + 1}]
        BY <4>2
      <4> QED
        BY <3>1, <4>1, <4>3
    <3>2. CASE s = {}
      <4>1. h[{}] = base /\ h1[{}] = h[{}]
        BY <2>1
      <4> QED
        BY <3>2, <4>1
    <3>3. CASE m + 1 \notin s /\ s # {}
      <4>1. s \in SUBSET (1 .. m)
        BY <3>3
      <4>2. Max(s) \in s
        BY <3>3, <4>1, MaxExists
      <4>3. /\ s \ {Max(s)} \in SUBSET (1 .. m + 1)
            /\ h1[s \ {Max(s)}] = h[s \ {Max(s)}]
        BY <3>3
      <4>4. h1[s] = h[s]
        BY <3>3
      <4>5. h[s] = f[<<h[s \ {Max(s)}], Max(s)>>]
        BY <2>1, <3>3, <4>1
      <4> QED
        BY <3>3, <4>3, <4>4, <4>5
    <3> QED
      BY <3>1, <3>2, <3>3
  <2>4. Folds(h1, m + 1)
    BY <2>3, Zenon
  <2> QED
    BY <2>2, <2>4
<1>3. Nat \subseteq S
  <2> HIDE DEF Solved
  <2>1. 0 \in S /\ \A m \in Nat : m \in S => m + 1 \in S
    BY <1>1, <1>2
  <2> HIDE DEF S
  <2> QED
    BY <2>1, NatSet
<1>4. Solved(n)
  <2> HIDE DEF Solved
  <2> QED
    BY <1>3
<1>5. n <= n
  OBVIOUS
<1> QED
  BY <1>4, <1>5, Zenon DEF FoldsBy

-----------------------------------------------------------------------------
(* Rotations, ahead and back. *)

Names == {"frame_tie", "precession", "nutation", "equinox to CIO", "era", "wobble", "obliquity", "galactic",
          "horizon", "deflection", "aberration"}
Models == {"none", IAU2000A} \cup Providers
AnyTurn == [name : Names, t : Dates \cup {J2000Date}, by : Models, pole : Offsets, back : BOOLEAN]
Ahead == [name : Names, t : Dates \cup {J2000Date}, by : Models, pole : Offsets, back : {FALSE}]

LEMMA AheadTurns == Ahead \subseteq AnyTurn
  BY DEF Ahead, AnyTurn

LEMMA UndoTurn ==
    ASSUME NEW r \in AnyTurn
    PROVE  Undo(r) \in AnyTurn /\ Undo(Undo(r)) = r /\ (r \in Ahead => Undo(r) \notin Ahead)
  BY DEF Undo, Ahead, AnyTurn

LEMMA Turned ==
    ASSUME NEW w \in Seq(AnyTurn), NEW r \in AnyTurn
    PROVE  Turn(w, r) \in Seq(AnyTurn)
  <1>1. w # <<>> => Front(w) \in Seq(AnyTurn)
    BY DEF Front
  <1> QED
    BY <1>1 DEF Turn

LEMMA TurnOn ==
    ASSUME NEW w \in Seq(Ahead), NEW r \in Ahead
    PROVE  Turn(w, r) = Append(w, r)
  <1>1. w # <<>> => Last(w) \in Ahead
    BY DEF Last
  <1>2. Undo(r) \notin Ahead
    BY AheadTurns, UndoTurn
  <1> QED
    BY <1>1, <1>2 DEF Turn

LEMMA TurnOff ==
    ASSUME NEW w \in Seq(Ahead), NEW r \in Ahead
    PROVE  Turn(Append(w, r), Undo(r)) = w
  <1>1. Append(w, r) # <<>> /\ Last(Append(w, r)) = r
    BY DEF Last
  <1>2. Front(Append(w, r)) = w
    BY DEF Front
  <1>3. Undo(Undo(r)) = r
    BY AheadTurns, UndoTurn
  <1> QED
    BY <1>1, <1>2, <1>3 DEF Turn

\* The words that Forth() goes through.
LEMMA ForthWords ==
    ASSUME NEW w \in Seq(AnyTurn), NEW rs \in Seq(AnyTurn)
    PROVE  \E g : /\ g[0] = w
                  /\ \A k \in 1 .. Len(rs) : g[k] = Turn(g[k - 1], rs[k])
                  /\ Forth(w, rs) = g[Len(rs)]
<1> DEFINE n == Len(rs)
           Folds(h) == h = [s \in SUBSET (1 .. n) |->
                              IF s = {} THEN w ELSE Turn(h[s \ {Max(s)}], rs[Max(s)])]
           f == [x \in Seq(AnyTurn) \X (1 .. n) |-> Turn(x[1], rs[x[2]])]
<1>1. DOMAIN rs = 1 .. n /\ n \in Nat
  OBVIOUS
<1>2. f \in [Seq(AnyTurn) \X (1 .. n) -> Seq(AnyTurn)]
  <2>1. \A x \in Seq(AnyTurn) \X (1 .. n) : x[1] \in Seq(AnyTurn) /\ rs[x[2]] \in AnyTurn
    BY <1>1
  <2> QED
    BY <2>1, Turned
<1>3. \E h : Folds(h)
  <2> HIDE DEF n
  <2>1. PICK h \in [SUBSET (1 .. n) -> Seq(AnyTurn)] : FoldsBy(h, f, w, n)
    <3> HIDE DEF f
    <3>1. n \in Nat /\ w \in Seq(AnyTurn)
      BY <1>1
    <3> QED
      BY <1>2, <3>1, FoldExists, Zenon
  <2>2. ASSUME NEW s \in SUBSET (1 .. n)
        PROVE  h[s] = IF s = {} THEN w ELSE Turn(h[s \ {Max(s)}], rs[Max(s)])
    <3>1. CASE s = {}
      BY <2>1, <3>1 DEF FoldsBy
    <3>2. CASE s # {}
      <4>1. Max(s) \in s
        BY <1>1, <3>2, MaxExists
      <4>2. <<h[s \ {Max(s)}], Max(s)>> \in Seq(AnyTurn) \X (1 .. n)
        BY <4>1
      <4>3. f[<<h[s \ {Max(s)}], Max(s)>>] = Turn(h[s \ {Max(s)}], rs[Max(s)])
        BY <4>2
      <4> QED
        BY <2>1, <3>2, <4>3 DEF FoldsBy
    <3> QED
      BY <3>1, <3>2
  <2>3. Folds(h)
    BY <2>2
  <2> QED
    BY <2>3
<1> DEFINE iter == CHOOSE h : Folds(h)
           g == [k \in 0 .. n |-> iter[1 .. k]]
<1>4. Folds(iter)
  BY <1>3
<1>5. Forth(w, rs) = iter[1 .. n]
  BY <1>1 DEF Forth, FoldLeft, MapThenFoldSet
<1> HIDE DEF iter, n, f
<1>6. ASSUME NEW s \in SUBSET (1 .. n)
      PROVE  iter[s] = IF s = {} THEN w ELSE Turn(iter[s \ {Max(s)}], rs[Max(s)])
  BY <1>4
<1>7. g[0] = w
  <2>1. 1 .. 0 = {} /\ g[0] = iter[1 .. 0]
    BY <1>1
  <2> QED
    BY <1>6, <2>1
<1>8. ASSUME NEW k \in 1 .. n PROVE g[k] = Turn(g[k - 1], rs[k])
  <2>1. /\ 1 .. k \in SUBSET (1 .. n) /\ 1 .. k # {}
        /\ Max(1 .. k) = k
        /\ (1 .. k) \ {k} = 1 .. (k - 1)
    BY <1>1, UpTo
  <2>2. iter[1 .. k] = Turn(iter[1 .. (k - 1)], rs[k])
    BY <1>6, <2>1
  <2> QED
    BY <1>1, <2>2
<1>9. g[n] = iter[1 .. n]
  BY <1>1
<1> QED
  BY <1>5, <1>7, <1>8, <1>9 DEF n

LEMMA UndoneIs ==
    ASSUME NEW rs \in Seq(AnyTurn)
    PROVE  /\ Undone(rs) \in Seq(AnyTurn)
           /\ Len(Undone(rs)) = Len(rs)
           /\ \A i \in 1 .. Len(rs) : Undone(rs)[i] = Undo(rs[Len(rs) + 1 - i])
<1> DEFINE n == Len(rs)
<1>1. DOMAIN rs = 1 .. n /\ n \in Nat
  OBVIOUS
<1>2. \A i \in 1 .. n : n + 1 - i \in 1 .. n /\ (n - i) + 1 = n + 1 - i
  BY <1>1
<1>3. \A i \in 1 .. n : Undone(rs)[i] = Undo(rs[n + 1 - i])
  BY <1>1, <1>2 DEF Undone, Reverse
<1>4. \A i \in 1 .. n : Undone(rs)[i] \in AnyTurn
  BY <1>1, <1>2, <1>3, UndoTurn
<1>5. DOMAIN Undone(rs) = 1 .. n /\ Undone(rs) = [i \in 1 .. n |-> Undone(rs)[i]]
  BY <1>1 DEF Undone
<1>6. Undone(rs) \in Seq(AnyTurn)
  BY <1>1, <1>4, <1>5
<1> QED
  BY <1>1, <1>3, <1>5, <1>6

LEMMA ForthTyped ==
    ASSUME NEW w \in Seq(AnyTurn), NEW rs \in Seq(AnyTurn)
    PROVE  Forth(w, rs) \in Seq(AnyTurn)
<1> DEFINE n == Len(rs)
<1>1. PICK g : /\ g[0] = w
               /\ \A k \in 1 .. n : g[k] = Turn(g[k - 1], rs[k])
               /\ Forth(w, rs) = g[n]
  BY ForthWords, Zenon
<1> DEFINE S == {k \in Nat : k <= n => g[k] \in Seq(AnyTurn)}
<1>2. n \in Nat /\ \A k \in 1 .. n : rs[k] \in AnyTurn
  OBVIOUS
<1> HIDE DEF n
<1>3. 0 \in S
  BY <1>1
<1>4. ASSUME NEW k \in Nat, k \in S PROVE k + 1 \in S
  <2> SUFFICES ASSUME k + 1 <= n PROVE g[k + 1] \in Seq(AnyTurn)
    OBVIOUS
  <2>1. k + 1 \in 1 .. n /\ (k + 1) - 1 = k /\ g[k] \in Seq(AnyTurn)
    BY <1>2, <1>4
  <2> QED
    BY <1>1, <1>2, <2>1, Turned
<1>5. Nat \subseteq S
  <2> HIDE DEF S
  <2> QED
    BY <1>3, <1>4, NatSet
<1> QED
  BY <1>1, <1>2, <1>5 DEF n

\* The first rotations of a sequence, after a word.
LEMMA OneMore ==
    ASSUME NEW w \in Seq(Ahead), NEW rs \in Seq(Ahead), NEW k \in 1 .. Len(rs)
    PROVE  /\ w \o SubSeq(rs, 1, k - 1) \in Seq(Ahead)
           /\ rs[k] \in Ahead
           /\ Append(w \o SubSeq(rs, 1, k - 1), rs[k]) = w \o SubSeq(rs, 1, k)
<1>1. /\ SubSeq(rs, 1, k - 1) \in Seq(Ahead)
      /\ rs[k] \in Ahead
  OBVIOUS
<1>2. SubSeq(rs, 1, k) = Append(SubSeq(rs, 1, k - 1), rs[k])
  OBVIOUS
<1>3. w \o Append(SubSeq(rs, 1, k - 1), rs[k]) = Append(w \o SubSeq(rs, 1, k - 1), rs[k])
  BY <1>1
<1>4. w \o SubSeq(rs, 1, k - 1) \in Seq(Ahead)
  BY <1>1
<1> QED
  BY <1>1, <1>2, <1>3, <1>4

LEMMA AheadSeq == ASSUME NEW w \in Seq(Ahead) PROVE w \in Seq(AnyTurn)
  BY AheadTurns

\* Rotations that all lead ahead are added to a word.
LEMMA ForthAhead ==
    ASSUME NEW w \in Seq(Ahead), NEW rs \in Seq(Ahead)
    PROVE  Forth(w, rs) = w \o rs
<1> DEFINE n == Len(rs)
           Upto(k) == w \o SubSeq(rs, 1, k)
<1>1. PICK g : /\ g[0] = w
               /\ \A k \in 1 .. n : g[k] = Turn(g[k - 1], rs[k])
               /\ Forth(w, rs) = g[n]
  BY ForthWords, AheadSeq, Zenon
<1> DEFINE S == {k \in Nat : k <= n => g[k] = Upto(k)}
<1>2. n \in Nat /\ Upto(0) = w /\ Upto(n) = w \o rs
  OBVIOUS
<1>3. ASSUME NEW k \in 1 .. n
      PROVE  /\ Upto(k - 1) \in Seq(Ahead) /\ rs[k] \in Ahead
             /\ Append(Upto(k - 1), rs[k]) = Upto(k)
  BY OneMore
<1> HIDE DEF n, Upto
<1>4. 0 \in S
  BY <1>1, <1>2
<1>5. ASSUME NEW k \in Nat, k \in S PROVE k + 1 \in S
  <2> SUFFICES ASSUME k + 1 <= n PROVE g[k + 1] = Upto(k + 1)
    OBVIOUS
  <2>1. k + 1 \in 1 .. n /\ (k + 1) - 1 = k /\ g[k] = Upto(k)
    BY <1>2, <1>5
  <2>2. g[k + 1] = Turn(Upto(k), rs[k + 1])
    BY <1>1, <2>1
  <2>3. Upto(k) \in Seq(Ahead) /\ rs[k + 1] \in Ahead /\ Append(Upto(k), rs[k + 1]) = Upto(k + 1)
    BY <1>3, <2>1
  <2> QED
    BY <2>2, <2>3, TurnOn
<1>6. Nat \subseteq S
  <2> HIDE DEF S
  <2> QED
    BY <1>4, <1>5, NatSet
<1> QED
  BY <1>1, <1>2, <1>6

\* Undone, they go away.
LEMMA BackAhead ==
    ASSUME NEW w \in Seq(Ahead), NEW rs \in Seq(Ahead)
    PROVE  Back(w \o rs, rs) = w
<1> DEFINE n == Len(rs)
           Upto(k) == w \o SubSeq(rs, 1, k)
           us == Undone(rs)
<1>1. /\ us \in Seq(AnyTurn) /\ Len(us) = n
      /\ \A i \in 1 .. n : us[i] = Undo(rs[n + 1 - i])
  BY AheadSeq, UndoneIs
<1>2. w \o rs \in Seq(AnyTurn)
  BY AheadSeq
<1>3. PICK g : /\ g[0] = w \o rs
               /\ \A k \in 1 .. n : g[k] = Turn(g[k - 1], us[k])
               /\ Back(w \o rs, rs) = g[n]
  <2>1. \E g : /\ g[0] = w \o rs
               /\ \A k \in 1 .. Len(us) : g[k] = Turn(g[k - 1], us[k])
               /\ Forth(w \o rs, us) = g[Len(us)]
    <3> HIDE DEF us
    <3> QED
      BY <1>1, <1>2, ForthWords, Zenon
  <2> QED
    BY <1>1, <2>1, Zenon DEF Back
<1> DEFINE S == {k \in Nat : k <= n => g[k] = Upto(n - k)}
<1>4. n \in Nat /\ Upto(0) = w /\ Upto(n) = w \o rs
  OBVIOUS
<1>5. ASSUME NEW k \in 1 .. n
      PROVE  /\ Upto(k - 1) \in Seq(Ahead) /\ rs[k] \in Ahead
             /\ Append(Upto(k - 1), rs[k]) = Upto(k)
  BY OneMore
<1> HIDE DEF n, Upto, us
<1>6. 0 \in S
  <2>1. n - 0 = n
    BY <1>4
  <2> QED
    BY <1>3, <1>4, <2>1
<1>7. ASSUME NEW k \in Nat, k \in S PROVE k + 1 \in S
  <2> SUFFICES ASSUME k + 1 <= n PROVE g[k + 1] = Upto(n - (k + 1))
    OBVIOUS
  <2>1. /\ k + 1 \in 1 .. n /\ (k + 1) - 1 = k /\ g[k] = Upto(n - k)
        /\ n - k \in 1 .. n /\ n + 1 - (k + 1) = n - k /\ (n - k) - 1 = n - (k + 1)
    BY <1>4, <1>7
  <2>2. g[k + 1] = Turn(Upto(n - k), Undo(rs[n - k]))
    BY <1>1, <1>3, <2>1
  <2>3. /\ Upto(n - (k + 1)) \in Seq(Ahead) /\ rs[n - k] \in Ahead
        /\ Append(Upto(n - (k + 1)), rs[n - k]) = Upto(n - k)
    BY <1>5, <2>1
  <2> QED
    BY <2>2, <2>3, TurnOff
<1>8. Nat \subseteq S
  <2> HIDE DEF S
  <2> QED
    BY <1>6, <1>7, NatSet
<1>9. g[n] = Upto(n - n) /\ n - n = 0
  BY <1>4, <1>8
<1> QED
  BY <1>3, <1>4, <1>9

\* The words between the legs of a way.
LEMMA LegWords ==
    ASSUME NEW w \in Seq(AnyTurn), NEW rs \in Seq(Seq(AnyTurn))
    PROVE  \E g : /\ g[0] = w
                  /\ \A k \in 1 .. Len(rs) : g[k] = Forth(g[k - 1], rs[k])
                  /\ ForthAll(w, rs) = g[Len(rs)]
<1> DEFINE n == Len(rs)
           Folds(h) == h = [s \in SUBSET (1 .. n) |->
                              IF s = {} THEN w ELSE Forth(h[s \ {Max(s)}], rs[Max(s)])]
           f == [x \in Seq(AnyTurn) \X (1 .. n) |-> Forth(x[1], rs[x[2]])]
<1>1. DOMAIN rs = 1 .. n /\ n \in Nat
  OBVIOUS
<1>2. f \in [Seq(AnyTurn) \X (1 .. n) -> Seq(AnyTurn)]
  <2>1. \A x \in Seq(AnyTurn) \X (1 .. n) : x[1] \in Seq(AnyTurn) /\ rs[x[2]] \in Seq(AnyTurn)
    BY <1>1
  <2> QED
    BY <2>1, ForthTyped
<1>3. \E h : Folds(h)
  <2> HIDE DEF n
  <2>1. PICK h \in [SUBSET (1 .. n) -> Seq(AnyTurn)] : FoldsBy(h, f, w, n)
    <3> HIDE DEF f
    <3>1. n \in Nat /\ w \in Seq(AnyTurn)
      BY <1>1
    <3> QED
      BY <1>2, <3>1, FoldExists, Zenon
  <2>2. ASSUME NEW s \in SUBSET (1 .. n)
        PROVE  h[s] = IF s = {} THEN w ELSE Forth(h[s \ {Max(s)}], rs[Max(s)])
    <3>1. CASE s = {}
      BY <2>1, <3>1 DEF FoldsBy
    <3>2. CASE s # {}
      <4>1. Max(s) \in s
        BY <1>1, <3>2, MaxExists
      <4>2. <<h[s \ {Max(s)}], Max(s)>> \in Seq(AnyTurn) \X (1 .. n)
        BY <4>1
      <4>3. f[<<h[s \ {Max(s)}], Max(s)>>] = Forth(h[s \ {Max(s)}], rs[Max(s)])
        BY <4>2
      <4> QED
        BY <2>1, <3>2, <4>3 DEF FoldsBy
    <3> QED
      BY <3>1, <3>2
  <2>3. Folds(h)
    BY <2>2
  <2> QED
    BY <2>3
<1> DEFINE iter == CHOOSE h : Folds(h)
           g == [k \in 0 .. n |-> iter[1 .. k]]
<1>4. Folds(iter)
  BY <1>3
<1>5. ForthAll(w, rs) = iter[1 .. n]
  BY <1>1 DEF ForthAll, FoldLeft, MapThenFoldSet
<1> HIDE DEF iter, n, f
<1>6. ASSUME NEW s \in SUBSET (1 .. n)
      PROVE  iter[s] = IF s = {} THEN w ELSE Forth(iter[s \ {Max(s)}], rs[Max(s)])
  BY <1>4
<1>7. g[0] = w
  <2>1. 1 .. 0 = {} /\ g[0] = iter[1 .. 0]
    BY <1>1
  <2> QED
    BY <1>6, <2>1
<1>8. ASSUME NEW k \in 1 .. n PROVE g[k] = Forth(g[k - 1], rs[k])
  <2>1. /\ 1 .. k \in SUBSET (1 .. n) /\ 1 .. k # {}
        /\ Max(1 .. k) = k
        /\ (1 .. k) \ {k} = 1 .. (k - 1)
    BY <1>1, UpTo
  <2>2. iter[1 .. k] = Forth(iter[1 .. (k - 1)], rs[k])
    BY <1>6, <2>1
  <2> QED
    BY <1>1, <2>2
<1>9. g[n] = iter[1 .. n]
  BY <1>1
<1> QED
  BY <1>5, <1>7, <1>8, <1>9 DEF n

LEMMA ForthOne ==
    ASSUME NEW w \in Seq(AnyTurn), NEW r \in AnyTurn
    PROVE  Forth(w, <<r>>) = Turn(w, r) /\ Forth(w, Undone(<<r>>)) = Turn(w, Undo(r))
<1>1. <<r>> \in Seq(AnyTurn) /\ Len(<<r>>) = 1 /\ <<r>>[1] = r /\ 1 \in 1 .. 1
  OBVIOUS
<1>2. ASSUME NEW u \in AnyTurn PROVE Forth(w, <<u>>) = Turn(w, u)
  <2>1. <<u>> \in Seq(AnyTurn) /\ Len(<<u>>) = 1 /\ <<u>>[1] = u
    OBVIOUS
  <2>2. PICK g : /\ g[0] = w
                 /\ \A k \in 1 .. Len(<<u>>) : g[k] = Turn(g[k - 1], <<u>>[k])
                 /\ Forth(w, <<u>>) = g[Len(<<u>>)]
    BY <2>1, ForthWords, Zenon
  <2>3. 1 \in 1 .. Len(<<u>>) /\ 1 - 1 = 0
    BY <2>1
  <2>4. g[1] = Turn(g[0], u)
    BY <2>1, <2>2, <2>3
  <2> QED
    BY <2>1, <2>2, <2>4
<1>3. Undone(<<r>>) = <<Undo(r)>>
  <2>1. /\ Undone(<<r>>) \in Seq(AnyTurn) /\ Len(Undone(<<r>>)) = 1
        /\ \A i \in 1 .. 1 : Undone(<<r>>)[i] = Undo(<<r>>[1 + 1 - i])
    BY <1>1, UndoneIs
  <2>2. 1 \in 1 .. 1 /\ 1 + 1 - 1 = 1
    OBVIOUS
  <2>3. Undone(<<r>>)[1] = Undo(r)
    BY <1>1, <2>1, <2>2
  <2> QED
    BY <2>1, <2>3
<1> QED
  BY <1>2, <1>3, UndoTurn

LEMMA ForthNone ==
    ASSUME NEW w \in Seq(AnyTurn)
    PROVE  Forth(w, <<>>) = w /\ Forth(w, Undone(<<>>)) = w
<1>1. <<>> \in Seq(AnyTurn) /\ Len(<<>>) = 0
  OBVIOUS
<1>2. PICK g : /\ g[0] = w
               /\ \A k \in 1 .. Len(<<>>) : g[k] = Turn(g[k - 1], <<>>[k])
               /\ Forth(w, <<>>) = g[Len(<<>>)]
  BY <1>1, ForthWords, Zenon
<1>3. Undone(<<>>) = <<>>
  <2>1. Undone(<<>>) \in Seq(AnyTurn) /\ Len(Undone(<<>>)) = 0
    BY <1>1, UndoneIs
  <2> QED
    BY <2>1
<1> QED
  BY <1>1, <1>2, <1>3

LEMMA Appends ==
    ASSUME NEW w \in Seq(Ahead), NEW rs \in Seq(Ahead), NEW a \in Ahead, NEW b \in Ahead, NEW c \in Ahead
    PROVE  /\ w \o rs \in Seq(Ahead) /\ Append(w, a) \in Seq(Ahead)
           /\ w \o <<>> = w
           /\ w \o <<a>> = Append(w, a)
           /\ w \o <<a, b>> = Append(Append(w, a), b)
           /\ w \o <<a, b, c>> = Append(Append(Append(w, a), b), c)
           /\ w \o Append(rs, a) = Append(w \o rs, a)
  OBVIOUS

LEMMA Pair ==
    ASSUME NEW a \in Ahead, NEW b \in Ahead
    PROVE  Append(<<a>>, b) = <<a, b>>
<1> DEFINE x == Append(<<a>>, b)
<1>1. <<a>> \in Seq(Ahead) /\ Len(<<a>>) = 1 /\ <<a>>[1] = a
  OBVIOUS
<1>2. x \in Seq(Ahead) /\ Len(x) = 2 /\ x[1] = a /\ x[2] = b
  BY <1>1
<1>3. x = [i \in 1 .. 2 |-> x[i]]
  BY <1>2
<1> HIDE DEF x
<1>4. x = <<a, b>>
  BY <1>2, <1>3
<1> QED
  BY <1>4 DEF x

-----------------------------------------------------------------------------
(* The images of a direction. *)

Tilts == [by : Models, pole : Offsets]

\* The precession from J2000 to a date.
Prec(t) == IF t = J2000Date THEN <<>> ELSE <<Rotation("precession", t)>>

LEMMA NoTilt == [by |-> "none", pole |-> 0] \in Tilts
  BY ConversionAssumption DEF Tilts, Models

LEMMA RotationsAhead ==
    ASSUME NEW t \in Dates \cup {J2000Date}, NEW tilt \in Tilts, NEW name \in Names
    PROVE  Tilted(name, t, tilt) \in Ahead /\ Rotation(name, t) \in Ahead
<1>2. ASSUME NEW a \in Tilts PROVE Tilted(name, t, a) \in Ahead
  <2>1. a.by \in Models /\ a.pole \in Offsets
    BY DEF Tilts
  <2> QED
    BY <2>1 DEF Tilted, Ahead
<1> QED
  BY <1>2, NoTilt DEF Rotation

LEMMA AllAhead ==
    ASSUME NEW t \in Dates, NEW tilt \in Tilts
    PROVE  /\ Tie \in Ahead /\ Nutate(t, tilt) \in Ahead /\ ToCio(t, tilt) \in Ahead
           /\ Era(t) \in Ahead /\ Wobble(t) \in Ahead /\ Horizon \in Ahead /\ Galactic \in Ahead
           /\ MeanObliquity(t) \in Ahead /\ MeanObliquity(J2000Date) \in Ahead /\ TrueObliquity(t, tilt) \in Ahead
           /\ Prec(t) \in Seq(Ahead)
           /\ Rotation("deflection", t) \in Ahead /\ Rotation("aberration", t) \in Ahead
<1>1. /\ t \in Dates \cup {J2000Date} /\ J2000Date \in Dates \cup {J2000Date}
      /\ \A name \in Names : Tilted(name, t, tilt) \in Ahead /\ Rotation(name, t) \in Ahead
      /\ \A name \in Names : Rotation(name, J2000Date) \in Ahead
  BY RotationsAhead
<1>2. Prec(t) \in Seq(Ahead)
  <2>1. Rotation("precession", t) \in Ahead
    BY <1>1 DEF Names
  <2>2. <<Rotation("precession", t)>> \in Seq(Ahead) /\ <<>> \in Seq(Ahead)
    BY <2>1
  <2> QED
    BY <2>2 DEF Prec
<1> QED
  BY <1>1, <1>2 DEF Tie, Nutate, ToCio, Era, Wobble, Horizon, Galactic, MeanObliquity, TrueObliquity, Names

LEMMA Precessed ==
    ASSUME NEW t \in Dates \cup {J2000Date}, NEW u \in Dates \cup {J2000Date}, NEW w \in Seq(Ahead)
    PROVE  Precess(w \o Prec(t), t, u) = w \o Prec(u)
<1> DEFINE p == Rotation("precession", t)
           q == Rotation("precession", u)
<1>1. p \in Ahead /\ q \in Ahead
  BY NoTilt, RotationsAhead DEF Names
<1>2. /\ J2000Date = 0 /\ t \in Int /\ u \in Int /\ t - J2000Date = t /\ u - J2000Date = u
      /\ Near(t, J2000Date) <=> t = J2000Date
      /\ Near(u, J2000Date) <=> u = J2000Date
  BY ConversionAssumption DEF J2000Date, Near
<1>3. /\ w \o <<p>> = Append(w, p) /\ w \o <<q>> = Append(w, q) /\ w \o <<>> = w
  BY <1>1, Appends
<1>4. /\ Turn(w, q) = Append(w, q)
      /\ Turn(Append(w, p), Undo(p)) = w
  BY <1>1, TurnOn, TurnOff
<1> HIDE DEF p, q
<1>5. /\ t = J2000Date => Prec(t) = <<>>
      /\ t # J2000Date => Prec(t) = <<p>>
      /\ u = J2000Date => Prec(u) = <<>>
      /\ u # J2000Date => Prec(u) = <<q>>
  BY DEF Prec, p, q
<1>6. CASE t = u
  BY <1>6 DEF Precess
<1>7. CASE t # u /\ t = J2000Date
  BY <1>2, <1>3, <1>4, <1>5, <1>7 DEF Precess, q
<1>8. CASE t # u /\ u = J2000Date
  BY <1>2, <1>3, <1>4, <1>5, <1>8 DEF Precess, p
<1>9. CASE t # u /\ t # J2000Date /\ u # J2000Date
  BY <1>2, <1>3, <1>4, <1>5, <1>9 DEF Precess, p, q
<1> QED
  BY <1>6, <1>7, <1>8, <1>9

\* Where a word s is taken in each system.
Word(s, t, tilt, sys) == s \o Image(t, tilt)[sys]

\* Each system is one rotation further than another one.
LEMMA Ladder ==
    ASSUME NEW s \in Seq(Ahead), NEW t \in Dates, NEW tilt \in Tilts
    PROVE  /\ Word(s, t, tilt, "GCRS") = s
           /\ Word(s, t, tilt, "ICRS") = s
           /\ Word(s, t, tilt, "J2000") = Append(s, Tie)
           /\ Word(s, t, tilt, "MOD") = Word(s, t, tilt, "J2000") \o Prec(t)
           /\ Word(s, t, tilt, "TOD") = Append(Word(s, t, tilt, "MOD"), Nutate(t, tilt))
           /\ Word(s, t, tilt, "CIRS") = Append(Word(s, t, tilt, "TOD"), ToCio(t, tilt))
           /\ Word(s, t, tilt, "TIRS") = Append(Word(s, t, tilt, "CIRS"), Era(t))
           /\ Word(s, t, tilt, "ITRS") = Append(Word(s, t, tilt, "TIRS"), Wobble(t))
           /\ Word(s, t, tilt, "HOR") = Append(Word(s, t, tilt, "ITRS"), Horizon)
           /\ Word(s, t, tilt, "ECL_MEAN") = Append(Word(s, t, tilt, "MOD"), MeanObliquity(t))
           /\ Word(s, t, tilt, "ECL_TRUE") = Append(Word(s, t, tilt, "TOD"), TrueObliquity(t, tilt))
           /\ Word(s, t, tilt, "ECL_GCRS") = s \o <<Tie, MeanObliquity(J2000Date)>>
           /\ Word(s, t, tilt, "GAL") = Append(s, Galactic)
           /\ \A sys \in {"GCRS", "ICRS", "J2000", "MOD", "TOD", "CIRS", "TIRS", "ITRS", "HOR"} :
                 Word(s, t, tilt, sys) \in Seq(Ahead)
<1> DEFINE I == Image(t, tilt)
           tie == <<Tie>>
           mod == <<Tie>> \o Prec(t)
           tod == Append(mod, Nutate(t, tilt))
           cirs == Append(tod, ToCio(t, tilt))
           tirs == Append(cirs, Era(t))
           itrs == Append(tirs, Wobble(t))
<1>1. /\ Tie \in Ahead /\ Nutate(t, tilt) \in Ahead /\ ToCio(t, tilt) \in Ahead
      /\ Era(t) \in Ahead /\ Wobble(t) \in Ahead /\ Horizon \in Ahead /\ Galactic \in Ahead
      /\ MeanObliquity(t) \in Ahead /\ MeanObliquity(J2000Date) \in Ahead /\ TrueObliquity(t, tilt) \in Ahead
      /\ Prec(t) \in Seq(Ahead)
  BY AllAhead
<1>2. (IF t = J2000Date THEN <<Tie>> ELSE <<Tie, Rotation("precession", t)>>) = mod
  <2>1. CASE t = J2000Date
    BY <1>1, <2>1 DEF Prec
  <2>2. CASE t # J2000Date
    <3> DEFINE p == Rotation("precession", t)
    <3>1. Prec(t) = <<p>>
      BY <2>2 DEF Prec
    <3> HIDE DEF p
    <3>2. p \in Ahead /\ <<Tie>> \in Seq(Ahead)
      <4>1. p \in Ahead
        BY NoTilt, RotationsAhead DEF p, Names
      <4> HIDE DEF p
      <4> QED
        BY <1>1, <4>1
    <3>3. <<Tie>> \o <<p>> = Append(<<Tie>>, p)
      BY <3>2, Appends
    <3>4. Append(<<Tie>>, p) = <<Tie, p>>
      BY <1>1, <3>2, Pair
    <3> QED
      BY <2>2, <3>1, <3>3, <3>4 DEF p
  <2> QED
    BY <2>1, <2>2
<1>3. /\ tie \in Seq(Ahead) /\ mod \in Seq(Ahead) /\ tod \in Seq(Ahead) /\ cirs \in Seq(Ahead)
      /\ tirs \in Seq(Ahead) /\ itrs \in Seq(Ahead)
  BY <1>1
<1>4. cirs \o <<Era(t), Wobble(t)>> = itrs
  <2> HIDE DEF cirs
  <2> QED
    BY <1>1, <1>3, Appends
<1>5. /\ I["GCRS"] = <<>> /\ I["ICRS"] = <<>> /\ I["J2000"] = tie /\ I["MOD"] = mod /\ I["TOD"] = tod
      /\ I["CIRS"] = cirs /\ I["TIRS"] = tirs /\ I["ITRS"] = itrs /\ I["HOR"] = Append(itrs, Horizon)
      /\ I["ECL_MEAN"] = Append(mod, MeanObliquity(t)) /\ I["ECL_TRUE"] = Append(tod, TrueObliquity(t, tilt))
      /\ I["ECL_GCRS"] = <<Tie, MeanObliquity(J2000Date)>> /\ I["GAL"] = <<Galactic>>
  BY <1>2, <1>4, Zenon DEF Image
<1> HIDE DEF I
<1>6. /\ s \o <<>> = s /\ s \o tie = Append(s, Tie) /\ s \o <<Galactic>> = Append(s, Galactic)
      /\ s \o mod = (s \o tie) \o Prec(t)
  <2>1. s \o (tie \o Prec(t)) = (s \o tie) \o Prec(t)
    BY <1>1, <1>3, ConcatAssociative
  <2> QED
    BY <1>1, <2>1, Appends
<1> HIDE DEF tie, mod
<1>7. s \o tod = Append(s \o mod, Nutate(t, tilt))
  BY <1>1, <1>3, Appends
<1>8. s \o Append(tod, TrueObliquity(t, tilt)) = Append(s \o tod, TrueObliquity(t, tilt))
  <2> HIDE DEF tod
  <2> QED
    BY <1>1, <1>3, Appends
<1>9. s \o cirs = Append(s \o tod, ToCio(t, tilt))
  <2> HIDE DEF tod
  <2> QED
    BY <1>1, <1>3, Appends
<1>10. s \o tirs = Append(s \o cirs, Era(t))
  <2> HIDE DEF cirs
  <2> QED
    BY <1>1, <1>3, Appends
<1>11. s \o itrs = Append(s \o tirs, Wobble(t))
  <2> HIDE DEF tirs
  <2> QED
    BY <1>1, <1>3, Appends
<1>12. /\ s \o Append(itrs, Horizon) = Append(s \o itrs, Horizon)
       /\ s \o Append(mod, MeanObliquity(t)) = Append(s \o mod, MeanObliquity(t))
  <2> HIDE DEF itrs
  <2> QED
    BY <1>1, <1>3, Appends
<1> HIDE DEF tod, cirs, tirs, itrs
<1>13. /\ s \o tie \in Seq(Ahead) /\ s \o mod \in Seq(Ahead) /\ s \o tod \in Seq(Ahead) /\ s \o cirs \in Seq(Ahead)
       /\ s \o tirs \in Seq(Ahead) /\ s \o itrs \in Seq(Ahead) /\ Append(s \o itrs, Horizon) \in Seq(Ahead)
  BY <1>1, <1>3, Appends
<1> QED
  BY <1>5, <1>6, <1>7, <1>8, <1>9, <1>10, <1>11, <1>12, <1>13 DEF Word, I

\* Rotations that lead from a word to another.
Leg(w, rs, v) == w \in Seq(Ahead) /\ rs \in Seq(Ahead) /\ v = w \o rs

LEMMA LegTyped ==
    ASSUME NEW w, NEW rs, NEW v, Leg(w, rs, v)
    PROVE  /\ v \in Seq(Ahead)
           /\ Forth(w, rs) = v
           /\ Back(v, rs) = w
<1>1. w \in Seq(Ahead) /\ rs \in Seq(Ahead) /\ v = w \o rs
  BY DEF Leg
<1>2. w \o rs \in Seq(Ahead)
  BY <1>1
<1> QED
  BY <1>1, <1>2, ForthAhead, BackAhead

LEMMA LegThen ==
    ASSUME NEW w, NEW rs, NEW v, NEW qs, NEW u, Leg(w, rs, v), Leg(v, qs, u)
    PROVE  Leg(w, rs \o qs, u)
<1>1. /\ w \in Seq(Ahead) /\ rs \in Seq(Ahead) /\ v = w \o rs
      /\ qs \in Seq(Ahead) /\ u = v \o qs
  BY DEF Leg
<1>2. rs \o qs \in Seq(Ahead)
  BY <1>1
<1>3. (w \o rs) \o qs = w \o (rs \o qs)
  BY <1>1, ConcatAssociative
<1> QED
  BY <1>1, <1>2, <1>3 DEF Leg

\* By a single rotation.
Rung(w, r, v) == w \in Seq(Ahead) /\ r \in Ahead /\ v = Append(w, r)

LEMMA RungTyped ==
    ASSUME NEW w, NEW r, NEW v, Rung(w, r, v)
    PROVE  /\ v \in Seq(Ahead)
           /\ Turn(w, r) = v
           /\ Turn(v, Undo(r)) = w
           /\ Forth(w, <<r>>) = v
           /\ Back(v, <<r>>) = w
           /\ Leg(w, <<r>>, v)
<1>1. w \in Seq(Ahead) /\ r \in Ahead /\ v = Append(w, r)
  BY DEF Rung
<1>2. Turn(w, r) = v /\ Turn(v, Undo(r)) = w
  BY <1>1, TurnOn, TurnOff
<1>3. w \o <<r>> = v /\ v \in Seq(Ahead) /\ <<r>> \in Seq(Ahead)
  BY <1>1
<1>4. Leg(w, <<r>>, v)
  BY <1>1, <1>3 DEF Leg
<1> QED
  BY <1>2, <1>3, <1>4, LegTyped

LEMMA LegAppend ==
    ASSUME NEW w, NEW rs, NEW v, NEW r, NEW u, Leg(w, rs, v), Rung(v, r, u)
    PROVE  Leg(w, Append(rs, r), u)
<1>1. /\ w \in Seq(Ahead) /\ rs \in Seq(Ahead) /\ v = w \o rs
      /\ r \in Ahead /\ u = Append(v, r)
  BY DEF Leg, Rung
<1>2. Append(rs, r) \in Seq(Ahead) /\ w \o Append(rs, r) = Append(w \o rs, r)
  BY <1>1, Appends
<1> QED
  BY <1>1, <1>2 DEF Leg

LEMMA LegOfTwo ==
    ASSUME NEW w, NEW r, NEW v, NEW q, NEW u, Rung(w, r, v), Rung(v, q, u)
    PROVE  Leg(w, <<r, q>>, u)
<1>1. Leg(w, Append(<<r>>, q), u)
  BY RungTyped, LegAppend
<1>2. r \in Ahead /\ q \in Ahead
  BY DEF Rung
<1> QED
  BY <1>1, <1>2, Pair

\* Each system is a rotation ahead of another one.
LEMMA Rungs ==
    ASSUME NEW s \in Seq(Ahead), NEW t \in Dates, NEW tilt \in Tilts
    PROVE  LET W(sys) == Word(s, t, tilt, sys) IN
           /\ W("GCRS") = s /\ W("ICRS") = s
           /\ Rung(s, Tie, W("J2000"))
           /\ Leg(W("J2000"), Prec(t), W("MOD"))
           /\ Rung(W("MOD"), Nutate(t, tilt), W("TOD"))
           /\ Rung(W("TOD"), ToCio(t, tilt), W("CIRS"))
           /\ Rung(W("CIRS"), Era(t), W("TIRS"))
           /\ Rung(W("TIRS"), Wobble(t), W("ITRS"))
           /\ Rung(W("ITRS"), Horizon, W("HOR"))
           /\ Rung(W("MOD"), MeanObliquity(t), W("ECL_MEAN"))
           /\ Rung(W("TOD"), TrueObliquity(t, tilt), W("ECL_TRUE"))
           /\ Leg(s, <<Tie, MeanObliquity(J2000Date)>>, W("ECL_GCRS"))
           /\ Rung(s, Galactic, W("GAL"))
           /\ Precess(W("J2000"), J2000Date, t) = W("MOD")
           /\ Precess(W("MOD"), t, J2000Date) = W("J2000")
<1>1. /\ Tie \in Ahead /\ Nutate(t, tilt) \in Ahead /\ ToCio(t, tilt) \in Ahead
      /\ Era(t) \in Ahead /\ Wobble(t) \in Ahead /\ Horizon \in Ahead /\ Galactic \in Ahead
      /\ MeanObliquity(t) \in Ahead /\ MeanObliquity(J2000Date) \in Ahead /\ TrueObliquity(t, tilt) \in Ahead
      /\ Prec(t) \in Seq(Ahead)
  BY AllAhead
<1>2. <<Tie, MeanObliquity(J2000Date)>> \in Seq(Ahead)
  BY <1>1
<1> DEFINE j == Word(s, t, tilt, "J2000")
<1>3. /\ j \in Seq(Ahead)
      /\ Word(s, t, tilt, "MOD") = j \o Prec(t)
  BY Ladder
<1> HIDE DEF j
<1>4. j \o Prec(J2000Date) = j
  BY <1>3 DEF Prec
<1>5. /\ Precess(j \o Prec(J2000Date), J2000Date, t) = j \o Prec(t)
      /\ Precess(j \o Prec(t), t, J2000Date) = j \o Prec(J2000Date)
  BY <1>3, Precessed
<1>6. Precess(j, J2000Date, t) = Word(s, t, tilt, "MOD") /\ Precess(Word(s, t, tilt, "MOD"), t, J2000Date) = j
  BY <1>3, <1>4, <1>5
<1> QED
  BY <1>1, <1>2, <1>6, Ladder, Zenon DEF Rung, Leg, j

\* The matrices of a frame lead from one system to another.
LEMMA FrameLegs ==
    ASSUME NEW s \in Seq(Ahead), frame.t \in Dates, frame.tilt \in Tilts
    PROVE  LET W(sys) == Word(s, frame.t, frame.tilt, sys) IN
           /\ FPrec = Prec(frame.t)
           /\ Leg(s, ToMod, W("MOD"))
           /\ Leg(s, ToTod, W("TOD"))
           /\ Leg(s, ToGcrsToCirs, W("CIRS"))
           /\ Leg(W("J2000"), Append(FPrec, FNut), W("TOD"))
           /\ Leg(W("TOD"), Sidereal(frame.t, frame.tilt), W("TIRS"))
           /\ Leg(W("CIRS"), <<Era(frame.t), FWobble>>, W("ITRS"))
           /\ \A sys \in Systems : Leg(W(sys), FrameToItrs[sys], W("ITRS"))
<1> DEFINE t == frame.t
           tilt == frame.tilt
           j2000 == Word(s, t, tilt, "J2000")
           mod == Word(s, t, tilt, "MOD")
           tod == Word(s, t, tilt, "TOD")
           cirs == Word(s, t, tilt, "CIRS")
           tirs == Word(s, t, tilt, "TIRS")
           itrs == Word(s, t, tilt, "ITRS")
<1>1. t \in Dates /\ tilt \in Tilts
  OBVIOUS
<1>2. FPrec = Prec(t)
  <2>1. /\ Prec(t) \in Seq(Ahead) /\ <<>> \in Seq(Ahead)
        /\ J2000Date \in Dates \cup {J2000Date} /\ t \in Dates \cup {J2000Date}
    BY <1>1, AllAhead
  <2>2. Precess(<<>> \o Prec(J2000Date), J2000Date, t) = <<>> \o Prec(t)
    BY <2>1, Precessed
  <2>3. <<>> \o Prec(J2000Date) = <<>> /\ <<>> \o Prec(t) = Prec(t)
    BY <2>1 DEF Prec
  <2> QED
    BY <2>2, <2>3 DEF FPrec, F
<1>3. /\ Word(s, t, tilt, "GCRS") = s /\ Word(s, t, tilt, "ICRS") = s
      /\ Rung(s, Tie, j2000) /\ Leg(j2000, Prec(t), mod) /\ Rung(mod, Nutate(t, tilt), tod)
      /\ Rung(tod, ToCio(t, tilt), cirs) /\ Rung(cirs, Era(t), tirs) /\ Rung(tirs, Wobble(t), itrs)
  BY <1>1, Rungs, Zenon
<1> HIDE DEF j2000, mod, tod, cirs, tirs, itrs
<1>4. Leg(s, ToMod, mod)
  BY <1>2, <1>3, RungTyped, LegThen DEF ToMod
<1>5. Leg(s, ToTod, tod)
  BY <1>3, <1>4, LegAppend DEF ToTod, FNut, F
<1>6. Leg(s, ToGcrsToCirs, cirs)
  BY <1>3, <1>5, LegAppend DEF ToGcrsToCirs, F
<1>7. Leg(j2000, Append(FPrec, FNut), tod)
  BY <1>2, <1>3, LegAppend DEF FNut, F
<1>8. Leg(tod, Sidereal(t, tilt), tirs)
  BY <1>3, LegOfTwo DEF Sidereal
<1>9. Leg(cirs, <<Era(t), FWobble>>, itrs)
  BY <1>3, LegOfTwo DEF FWobble, F
<1>10. /\ Leg(tod, Append(Sidereal(t, tilt), FWobble), itrs)
       /\ Leg(tirs, <<FWobble>>, itrs)
       /\ Leg(mod, <<FNut>>, tod)
  BY <1>3, <1>8, LegAppend, RungTyped DEF FWobble, FNut, F
<1>11. Leg(itrs, <<>>, itrs)
  <2>1. itrs \in Seq(Ahead)
    BY <1>3, RungTyped
  <2> QED
    BY <2>1 DEF Leg
<1>12. /\ Leg(s, ToGcrsToCirs \o <<Era(t), FWobble>>, itrs)
       /\ Leg(j2000, Append(FPrec, FNut) \o Append(Sidereal(t, tilt), FWobble), itrs)
       /\ Leg(mod, <<FNut>> \o Append(Sidereal(t, tilt), FWobble), itrs)
  BY <1>6, <1>7, <1>9, <1>10, LegThen
<1>13. ASSUME NEW sys \in Systems PROVE Leg(Word(s, t, tilt, sys), FrameToItrs[sys], itrs)
  <2>1. sys \in {"GCRS", "ICRS", "J2000", "MOD", "TOD", "CIRS", "TIRS", "ITRS"}
    BY DEF Systems, Celestial
  <2>2. /\ FrameToItrs["GCRS"] = ToGcrsToCirs \o <<Era(t), FWobble>>
        /\ FrameToItrs["ICRS"] = ToGcrsToCirs \o <<Era(t), FWobble>>
        /\ FrameToItrs["J2000"] = Append(FPrec, FNut) \o Append(Sidereal(t, tilt), FWobble)
        /\ FrameToItrs["MOD"] = <<FNut>> \o Append(Sidereal(t, tilt), FWobble)
        /\ FrameToItrs["TOD"] = Append(Sidereal(t, tilt), FWobble)
        /\ FrameToItrs["CIRS"] = <<Era(t), FWobble>>
        /\ FrameToItrs["TIRS"] = <<FWobble>>
        /\ FrameToItrs["ITRS"] = <<>>
    BY Zenon DEF FrameToItrs, F
  <2> QED
    BY <1>3, <1>9, <1>10, <1>11, <1>12, <2>1, <2>2, Zenon DEF j2000, mod, tod, cirs, tirs, itrs
<1> QED
  BY <1>2, <1>4, <1>5, <1>6, <1>7, <1>8, <1>9, <1>13, Zenon DEF j2000, mod, tod, cirs, tirs, itrs

-----------------------------------------------------------------------------
(* novas_make_transform(). *)

\* The systems in the order of their indices, from -3 to 3.
SystemAt(i) == <<"TOD", "MOD", "J2000", "GCRS", "CIRS", "TIRS", "ITRS">>[i + 4]

LEMMA Steps ==
    ASSUME NEW s \in Seq(Ahead), frame.t \in Dates, frame.tilt \in Tilts, NEW i \in -2 .. 3
    PROVE  LET At(k) == Word(s, frame.t, frame.tilt, SystemAt(k)) IN
           /\ At(i) \in Seq(AnyTurn) /\ At(i - 1) \in Seq(AnyTurn)
           /\ Step(i) \in Seq(AnyTurn) /\ Undone(Step(i)) \in Seq(AnyTurn)
           /\ Forth(At(i - 1), Step(i)) = At(i)
           /\ Forth(At(i), Undone(Step(i))) = At(i - 1)
<1> DEFINE t == frame.t
           tilt == frame.tilt
           j2000 == Word(s, t, tilt, "J2000")
           mod == Word(s, t, tilt, "MOD")
           tod == Word(s, t, tilt, "TOD")
           cirs == Word(s, t, tilt, "CIRS")
           tirs == Word(s, t, tilt, "TIRS")
           itrs == Word(s, t, tilt, "ITRS")
           Between(w, rs, v) == /\ w \in Seq(AnyTurn) /\ v \in Seq(AnyTurn)
                                /\ rs \in Seq(AnyTurn) /\ Undone(rs) \in Seq(AnyTurn)
                                /\ Forth(w, rs) = v
                                /\ Forth(v, Undone(rs)) = w
<1>1. t \in Dates /\ tilt \in Tilts
  OBVIOUS
<1>2. /\ Word(s, t, tilt, "GCRS") = s
      /\ Rung(s, Tie, j2000) /\ Leg(j2000, Prec(t), mod) /\ Rung(mod, FNut, tod)
      /\ Rung(cirs, Era(t), tirs) /\ Rung(tirs, FWobble, itrs)
  BY <1>1, Rungs, Zenon DEF FNut, FWobble, F
<1>3. Leg(s, ToGcrsToCirs, cirs)
  BY <1>1, FrameLegs, Zenon
<1> HIDE DEF j2000, mod, tod, cirs, tirs, itrs
<1>4. ASSUME NEW w, NEW rs, NEW v, Leg(w, rs, v) PROVE Between(w, rs, v)
  <2>1. w \in Seq(AnyTurn) /\ rs \in Seq(AnyTurn) /\ v \in Seq(AnyTurn)
    BY <1>4, LegTyped, AheadSeq DEF Leg
  <2> QED
    BY <1>4, <2>1, LegTyped, UndoneIs DEF Back
<1>5. ASSUME NEW w, NEW r, NEW v, Rung(w, r, v) PROVE Between(v, <<Undo(r)>>, w)
  <2>1. w \in Seq(Ahead) /\ v \in Seq(Ahead) /\ r \in Ahead /\ Turn(w, r) = v /\ Turn(v, Undo(r)) = w
    BY <1>5, RungTyped DEF Rung
  <2>2. r \in AnyTurn /\ Undo(r) \in AnyTurn /\ Undo(Undo(r)) = r
    BY <2>1, AheadTurns, UndoTurn
  <2>3. w \in Seq(AnyTurn) /\ v \in Seq(AnyTurn) /\ <<Undo(r)>> \in Seq(AnyTurn)
    BY <2>1, <2>2, AheadSeq
  <2> QED
    BY <2>1, <2>2, <2>3, ForthOne, UndoneIs
<1>6. Precess(<<>>, t, J2000Date) \in Seq(AnyTurn) /\ Between(mod, Precess(<<>>, t, J2000Date), j2000)
  <2> DEFINE p == Rotation("precession", t)
             ps == Precess(<<>>, t, J2000Date)
  <2>1. CASE t = J2000Date
    <3>1. Prec(t) = <<>> /\ ps = <<>>
      BY <2>1 DEF Prec, Precess
    <3>2. mod = j2000 /\ mod \in Seq(AnyTurn) /\ <<>> \in Seq(AnyTurn)
      BY <1>2, <3>1, AheadSeq DEF Leg
    <3> QED
      BY <3>1, <3>2, ForthNone, UndoneIs
  <2>2. CASE t # J2000Date
    <3>1. p \in Ahead
      BY <1>1, NoTilt, RotationsAhead DEF Names
    <3>2. t - J2000Date = t /\ Near(J2000Date, J2000Date)
      <4>1. t \in Int /\ J2000Date = 0
        BY <1>1, ConversionAssumption DEF J2000Date
      <4> HIDE DEF t
      <4> QED
        BY <4>1 DEF Near
    <3>3. ps = Turn(<<>>, Undo(p))
      BY <2>2, <3>2 DEF Precess
    <3>4. ps = <<Undo(p)>>
      <4> HIDE DEF p
      <4> QED
        BY <3>3 DEF Turn
    <3>5. Prec(t) = <<p>>
      BY <2>2 DEF Prec
    <3> HIDE DEF p, ps
    <3>6. Rung(j2000, p, mod)
      <4>1. j2000 \in Seq(Ahead) /\ mod = j2000 \o <<p>>
        BY <1>2, <3>5 DEF Leg
      <4>2. j2000 \o <<p>> = Append(j2000, p)
        BY <3>1, <4>1, Appends
      <4> QED
        BY <3>1, <4>1, <4>2 DEF Rung
    <3>7. Between(mod, ps, j2000)
      BY <1>5, <3>4, <3>6
    <3> QED
      BY <3>7 DEF ps
  <2> QED
    BY <2>1, <2>2
<1>7. /\ Between(tod, <<Undo(FNut)>>, mod)
      /\ Between(j2000, <<Undo(Tie)>>, s)
      /\ Between(s, ToGcrsToCirs, cirs)
      /\ Between(cirs, <<Era(t)>>, tirs)
      /\ Between(tirs, <<FWobble>>, itrs)
  <2>1. Leg(cirs, <<Era(t)>>, tirs) /\ Leg(tirs, <<FWobble>>, itrs)
    BY <1>2, RungTyped
  <2> HIDE DEF Between
  <2> QED
    BY <1>2, <1>3, <1>4, <1>5, <2>1
<1> HIDE DEF Between
<1>8. /\ Step(-2) = <<Undo(FNut)>> /\ Step(-1) = Precess(<<>>, t, J2000Date) /\ Step(0) = <<Undo(Tie)>>
      /\ Step(1) = ToGcrsToCirs /\ Step(2) = <<Era(t)>> /\ Step(3) = <<FWobble>>
  BY DEF Step, F
<1>9. /\ SystemAt(-3) = "TOD" /\ SystemAt(-2) = "MOD" /\ SystemAt(-1) = "J2000" /\ SystemAt(0) = "GCRS"
      /\ SystemAt(1) = "CIRS" /\ SystemAt(2) = "TIRS" /\ SystemAt(3) = "ITRS"
  BY DEF SystemAt
<1>10. Between(Word(s, t, tilt, SystemAt(i - 1)), Step(i), Word(s, t, tilt, SystemAt(i)))
  <2>1. i \in {-2, -1, 0, 1, 2, 3}
    OBVIOUS
  <2>2. CASE i = -2
    <3>1. i - 1 = -3
      BY <2>2
    <3> QED
      BY <1>7, <1>8, <1>9, <2>2, <3>1 DEF tod, mod
  <2>3. CASE i = -1
    <3>1. i - 1 = -2
      BY <2>3
    <3> QED
      BY <1>6, <1>8, <1>9, <2>3, <3>1 DEF mod, j2000
  <2>4. CASE i = 0
    <3>1. i - 1 = -1
      BY <2>4
    <3> QED
      BY <1>2, <1>7, <1>8, <1>9, <2>4, <3>1 DEF j2000
  <2>5. CASE i = 1
    <3>1. i - 1 = 0
      BY <2>5
    <3> QED
      BY <1>2, <1>7, <1>8, <1>9, <2>5, <3>1 DEF cirs
  <2>6. CASE i = 2
    <3>1. i - 1 = 1
      BY <2>6
    <3> QED
      BY <1>7, <1>8, <1>9, <2>6, <3>1 DEF cirs, tirs
  <2>7. CASE i = 3
    <3>1. i - 1 = 2
      BY <2>7
    <3> QED
      BY <1>7, <1>8, <1>9, <2>7, <3>1 DEF tirs, itrs
  <2> QED
    BY <2>1, <2>2, <2>3, <2>4, <2>5, <2>6, <2>7
<1> QED
  BY <1>10, Zenon DEF Between

\* The words along the way, one leg after the other.
LEMMA Along ==
    ASSUME NEW n \in Nat, NEW at, NEW legs \in Seq(Seq(AnyTurn)), Len(legs) = n,
           at[0] \in Seq(AnyTurn),
           \A k \in 1 .. n : Forth(at[k - 1], legs[k]) = at[k]
    PROVE  ForthAll(at[0], legs) = at[n]
<1>1. PICK g : /\ g[0] = at[0]
               /\ \A k \in 1 .. Len(legs) : g[k] = Forth(g[k - 1], legs[k])
               /\ ForthAll(at[0], legs) = g[Len(legs)]
  BY LegWords, Zenon
<1> DEFINE S == {k \in Nat : k <= n => g[k] = at[k]}
<1>2. 0 \in S
  BY <1>1
<1>3. ASSUME NEW k \in Nat, k \in S PROVE k + 1 \in S
  <2> SUFFICES ASSUME k + 1 <= n PROVE g[k + 1] = at[k + 1]
    OBVIOUS
  <2>1. k + 1 \in 1 .. n /\ (k + 1) - 1 = k /\ g[k] = at[k]
    BY <1>3
  <2> QED
    BY <1>1, <2>1
<1>4. Nat \subseteq S
  <2> HIDE DEF S
  <2> QED
    BY <1>2, <1>3, NatSet
<1> QED
  BY <1>1, <1>4

LEMMA TransformRight ==
    ASSUME NEW s \in Seq(Ahead), frame.t \in Dates, frame.tilt \in Tilts,
           NEW from \in Systems, NEW to \in Systems
    PROVE  Transform(Word(s, frame.t, frame.tilt, from), from, to) = Word(s, frame.t, frame.tilt, to)
<1> DEFINE W(sys) == Word(s, frame.t, frame.tilt, sys)
           At(i) == W(SystemAt(i))
           a == Index[from]
           b == Index[to]
<1>1. ASSUME NEW sys \in Systems PROVE Index[sys] \in -3 .. 3 /\ At(Index[sys]) = W(sys)
  <2>1. sys \in {"GCRS", "ICRS", "J2000", "MOD", "TOD", "CIRS", "TIRS", "ITRS"}
    BY DEF Systems, Celestial
  <2>2. /\ Index["TOD"] = -3 /\ Index["MOD"] = -2 /\ Index["J2000"] = -1 /\ Index["GCRS"] = 0
        /\ Index["ICRS"] = 0 /\ Index["CIRS"] = 1 /\ Index["TIRS"] = 2 /\ Index["ITRS"] = 3
    BY DEF Index
  <2>3. /\ SystemAt(-3) = "TOD" /\ SystemAt(-2) = "MOD" /\ SystemAt(-1) = "J2000" /\ SystemAt(0) = "GCRS"
        /\ SystemAt(1) = "CIRS" /\ SystemAt(2) = "TIRS" /\ SystemAt(3) = "ITRS"
    BY DEF SystemAt
  <2>4. W("ICRS") = s /\ W("GCRS") = s
    BY Rungs, Zenon
  <2> HIDE DEF W
  <2>5. Index[sys] \in -3 .. 3
    BY <2>1, <2>2
  <2>6. At(Index[sys]) = W(sys)
    BY <2>1, <2>2, <2>3, <2>4
  <2> QED
    BY <2>5, <2>6
<1>2. ASSUME NEW i \in -2 .. 3
      PROVE  /\ At(i) \in Seq(AnyTurn) /\ At(i - 1) \in Seq(AnyTurn)
             /\ Step(i) \in Seq(AnyTurn) /\ Undone(Step(i)) \in Seq(AnyTurn)
             /\ Forth(At(i - 1), Step(i)) = At(i)
             /\ Forth(At(i), Undone(Step(i))) = At(i - 1)
  BY Steps, Zenon
<1>3. a \in -3 .. 3 /\ b \in -3 .. 3 /\ At(a) = W(from) /\ At(b) = W(to)
  BY <1>1, Zenon
<1>4. At(a) \in Seq(AnyTurn)
  <2>1. CASE a \in -2 .. 3
    BY <1>2, <2>1
  <2>2. CASE a = -3
    <3>1. -2 \in -2 .. 3 /\ -2 - 1 = a
      BY <2>2
    <3> QED
      BY <1>2, <3>1
  <2> QED
    BY <1>3, <2>1, <2>2
<1> HIDE DEF At, W, a, b
<1>5. CASE a <= b
  <2> DEFINE n == b - a
             at == [k \in 0 .. n |-> At(a + k)]
             legs == [i \in 1 .. n |-> Step(a + i)]
  <2>1. n \in Nat /\ a + n = b /\ a + 0 = a
    BY <1>3, <1>5
  <2>2. ASSUME NEW k \in 1 .. n
        PROVE  /\ legs[k] \in Seq(AnyTurn)
               /\ Forth(at[k - 1], legs[k]) = at[k]
    <3>1. /\ a + k \in -2 .. 3 /\ (a + k) - 1 = a + (k - 1)
          /\ k \in 0 .. n /\ k - 1 \in 0 .. n
      BY <1>3, <1>5
    <3> QED
      BY <1>2, <3>1
  <2>3. legs \in Seq(Seq(AnyTurn)) /\ Len(legs) = n
    <3>1. n \in Nat /\ legs \in [1 .. n -> Seq(AnyTurn)]
      BY <2>1, <2>2
    <3> HIDE DEF n, legs
    <3>2. DOMAIN legs = 1 .. n
      BY <3>1
    <3> QED
      BY <3>1, <3>2
  <2>4. at[0] = At(a) /\ at[n] = At(b)
    BY <2>1
  <2>5. Transform(At(a), from, to) = ForthAll(At(a), legs)
    BY <1>5 DEF Transform, a, b
  <2> HIDE DEF n, at, legs
  <2>6. ForthAll(at[0], legs) = at[n]
    BY <1>4, <2>1, <2>2, <2>3, <2>4, Along
  <2> QED
    BY <1>3, <2>4, <2>5, <2>6 DEF W
<1>6. CASE a > b
  <2> DEFINE n == a - b
             at == [k \in 0 .. n |-> At(a - k)]
             legs == [i \in 1 .. n |-> Undone(Step(a + 1 - i))]
  <2>1. n \in Nat /\ a - n = b /\ a - 0 = a
    BY <1>3, <1>6
  <2>2. ASSUME NEW k \in 1 .. n
        PROVE  /\ legs[k] \in Seq(AnyTurn)
               /\ Forth(at[k - 1], legs[k]) = at[k]
    <3>1. /\ a + 1 - k \in -2 .. 3 /\ a - (k - 1) = a + 1 - k /\ (a + 1 - k) - 1 = a - k
          /\ k \in 0 .. n /\ k - 1 \in 0 .. n
      BY <1>3, <1>6
    <3> QED
      BY <1>2, <3>1
  <2>3. legs \in Seq(Seq(AnyTurn)) /\ Len(legs) = n
    <3>1. n \in Nat /\ legs \in [1 .. n -> Seq(AnyTurn)]
      BY <2>1, <2>2
    <3> HIDE DEF n, legs
    <3>2. DOMAIN legs = 1 .. n
      BY <3>1
    <3> QED
      BY <3>1, <3>2
  <2>4. at[0] = At(a) /\ at[n] = At(b)
    BY <2>1
  <2>5. Transform(At(a), from, to) = ForthAll(At(a), legs)
    <3>1. ~(a <= b)
      BY <1>3, <1>6
    <3> QED
      BY <3>1 DEF Transform, a, b
  <2> HIDE DEF n, at, legs
  <2>6. ForthAll(at[0], legs) = at[n]
    BY <1>4, <2>1, <2>2, <2>3, <2>4, Along
  <2> QED
    BY <1>3, <2>4, <2>5, <2>6 DEF W
<1> QED
  BY <1>3, <1>5, <1>6

-----------------------------------------------------------------------------
(* The inductive invariant. *)

\* The model that gives the nutation, and what it and an offset tilt.
By(acc) == IF acc = Full THEN IAU2000A ELSE lp
TiltOf(acc, p) == [by |-> By(acc), pole |-> p]

\* What light goes through before it is seen.
Seen(app, t) == IF app THEN <<Rotation("deflection", t), Rotation("aberration", t)>> ELSE <<>>

\* Where the direction has to be in a system.
PlaceIn(sys) == Word(Seen(pos.app, pos.t), pos.t, TiltOf(pos.acc, pos.pole), sys)

\* Whatever is remembered was computed by the model for its accuracy, with some
\* offset of the pole; a frame has none.
RememberedRight ==
    /\ pole \in Offsets
    /\ lp \in Providers
    /\ nut.t # NoTime => nut.by = By(nut.acc)
    /\ gast.t # NoTime => \E p \in Offsets : gast.tilt = TiltOf(gast.acc, p)
    /\ frame.t # NoTime => frame.tilt = TiltOf(frame.acc, 0)

\* The direction is where it should be.
DirectionRight ==
    /\ pos.t \in Dates \cup {NoTime}
    /\ pos.pole \in Offsets
    /\ pos.app \in BOOLEAN
    /\ pos = [sys |-> pos.sys, word |-> pos.word, t |-> pos.t, acc |-> pos.acc,
              pole |-> pos.pole, app |-> pos.app, stale |-> pos.stale]
    /\ Begun => pos.word = PlaceIn(pos.sys)

ConvInv == RememberedRight /\ DirectionRight

LEMMA DateIsNoNone == ASSUME NEW t \in Dates PROVE t # NoTime
  BY ConversionAssumption

LEMMA TiltTyped ==
    ASSUME RememberedRight, NEW acc, NEW p \in Offsets
    PROVE  TiltOf(acc, p) \in Tilts
  BY DEF RememberedRight, TiltOf, By, Tilts, Models

LEMMA BegunTyped ==
    ASSUME ConvInv, Begun
    PROVE  /\ pos.t \in Dates
           /\ TiltOf(pos.acc, pos.pole) \in Tilts
           /\ Seen(pos.app, pos.t) \in Seq(Ahead)
           /\ Seen(TRUE, pos.t) = <<Rotation("deflection", pos.t), Rotation("aberration", pos.t)>>
           /\ Seen(FALSE, pos.t) = <<>>
           /\ <<Rotation("deflection", pos.t), Rotation("aberration", pos.t)>> \in Seq(Ahead)
<1>1. pos.t \in Dates /\ pos.app \in BOOLEAN
  BY DEF ConvInv, DirectionRight, Begun
<1>2. TiltOf(pos.acc, pos.pole) \in Tilts
  BY TiltTyped DEF ConvInv, DirectionRight
<1> DEFINE d == Rotation("deflection", pos.t)
           a == Rotation("aberration", pos.t)
<1>3. d \in Ahead /\ a \in Ahead
  BY <1>1, <1>2, AllAhead
<1> HIDE DEF d, a
<1>4. <<d, a>> \in Seq(Ahead) /\ <<>> \in Seq(Ahead)
  BY <1>3
<1>5. Seen(TRUE, pos.t) = <<d, a>> /\ Seen(FALSE, pos.t) = <<>>
  BY DEF Seen, d, a
<1>6. Seen(pos.app, pos.t) \in Seq(Ahead)
  <2>1. pos.app = TRUE \/ pos.app = FALSE
    BY <1>1
  <2> QED
    BY <1>4, <1>5, <2>1
<1> QED
  BY <1>1, <1>2, <1>4, <1>5, <1>6 DEF d, a

LEMMA AnglesRight ==
    ASSUME RememberedRight, NEW t \in Dates, NEW acc
    PROVE  Angles(t, acc).t = t /\ Angles(t, acc).acc = acc /\ Angles(t, acc).by = By(acc)
  BY DateIsNoNone DEF Angles, RememberedRight, By

LEMMA GastRight ==
    ASSUME RememberedRight, NEW t \in Dates, NEW acc
    PROVE  /\ Gast(t, acc).t = t /\ Gast(t, acc).acc = acc
           /\ \E p \in Offsets : Gast(t, acc).tilt = TiltOf(acc, p)
<1>1. CASE Remembered(t, acc)
  <2>1. Gast(t, acc) = gast /\ gast.t = t /\ gast.acc = acc /\ gast.t # NoTime
    BY <1>1, DateIsNoNone DEF Gast, Remembered
  <2> QED
    BY <2>1 DEF RememberedRight
<1>2. CASE ~Remembered(t, acc)
  <2>1. Gast(t, acc) = [t |-> t, acc |-> acc, tilt |-> Tilt(t, acc)]
    BY <1>2 DEF Gast
  <2>2. Tilt(t, acc) = TiltOf(acc, pole) /\ pole \in Offsets
    BY AnglesRight DEF Tilt, TiltOf, RememberedRight
  <2> QED
    BY <2>1, <2>2
<1> QED
  BY <1>1, <1>2

\* A sidereal time that is not outdated has the pole in force.
LEMMA GastFresh ==
    ASSUME RememberedRight, NEW t \in Dates, NEW acc, Gast(t, acc).tilt.pole = pole
    PROVE  Gast(t, acc).tilt = TiltOf(acc, pole)
<1>1. PICK p \in Offsets : Gast(t, acc).tilt = TiltOf(acc, p)
  BY GastRight
<1>2. TiltOf(acc, p).pole = p
  BY DEF TiltOf
<1> QED
  BY <1>1, <1>2

\* What the calls remember, they compute right.
LEMMA RemembersRight ==
    ASSUME RememberedRight, lp' = lp, pole' \in Offsets,
           \/ UNCHANGED nut
           \/ \E t \in Dates : \E acc : nut' = Angles(t, acc),
           \/ UNCHANGED gast
           \/ \E t \in Dates : \E acc : gast' = Gast(t, acc),
           \/ UNCHANGED frame
           \/ \E acc : frame'.acc = acc /\ frame'.tilt = TiltOf(acc, 0)
    PROVE  RememberedRight'
<1>1. ASSUME NEW acc PROVE By(acc)' = By(acc)
  BY DEF By
<1>2. nut'.t # NoTime => nut'.by = (IF nut'.acc = Full THEN IAU2000A ELSE lp)
  <2>1. CASE UNCHANGED nut
    BY <2>1 DEF RememberedRight, By
  <2>2. ASSUME NEW t \in Dates, NEW acc, nut' = Angles(t, acc) PROVE nut'.by = By(nut'.acc)
    BY <2>2, AnglesRight
  <2> QED
    BY <2>1, <2>2 DEF By
<1>3. gast'.t # NoTime => \E p \in Offsets :
         gast'.tilt = [by |-> IF gast'.acc = Full THEN IAU2000A ELSE lp, pole |-> p]
  <2>1. CASE UNCHANGED gast
    BY <2>1 DEF RememberedRight, By, TiltOf
  <2>2. ASSUME NEW t \in Dates, NEW acc, gast' = Gast(t, acc)
        PROVE  \E p \in Offsets : gast'.tilt = TiltOf(gast'.acc, p)
    BY <2>2, GastRight
  <2> QED
    BY <2>1, <2>2 DEF By, TiltOf
<1>4. frame'.t # NoTime => frame'.tilt = [by |-> IF frame'.acc = Full THEN IAU2000A ELSE lp, pole |-> 0]
  <2>1. CASE UNCHANGED frame
    BY <2>1 DEF RememberedRight, By, TiltOf
  <2>2. ASSUME NEW acc, frame'.acc = acc, frame'.tilt = TiltOf(acc, 0) PROVE frame'.tilt = TiltOf(frame'.acc, 0)
    BY <2>2
  <2> QED
    BY <2>1, <2>2 DEF By, TiltOf
<1>5. lp' \in Providers
  BY DEF RememberedRight
<1> QED
  BY <1>2, <1>3, <1>4, <1>5 DEF RememberedRight, By, TiltOf

\* A direction that is moved to where it should be is there.
LEMMA Arrives ==
    ASSUME ConvInv, Begun, lp' = lp, NEW sys, NEW word, NEW stale,
           pos' = [pos EXCEPT !.sys = sys, !.word = word, !.stale = stale],
           ~stale => word = PlaceIn(sys)
    PROVE  DirectionRight'
<1>1. pos' = [sys |-> sys, word |-> word, t |-> pos.t, acc |-> pos.acc,
              pole |-> pos.pole, app |-> pos.app, stale |-> stale]
  BY DEF ConvInv, DirectionRight
<1>2. /\ pos'.sys = sys /\ pos'.word = word /\ pos'.t = pos.t /\ pos'.acc = pos.acc
      /\ pos'.pole = pos.pole /\ pos'.app = pos.app /\ pos'.stale = stale
  BY <1>1
<1>3. PlaceIn(sys)' = PlaceIn(sys)
  BY <1>2 DEF PlaceIn, TiltOf, By
<1> QED
  BY <1>1, <1>2, <1>3 DEF ConvInv, DirectionRight, Begun

LEMMA MovedArrives ==
    ASSUME ConvInv, Begun, lp' = lp, NEW sys, NEW word, Moved(sys, word), word = PlaceIn(sys)
    PROVE  DirectionRight'
<1>1. pos' = [pos EXCEPT !.sys = sys, !.word = word, !.stale = pos.stale]
  BY DEF Moved, ConvInv, DirectionRight
<1> QED
  BY <1>1, Arrives

LEMMA PlaceRungs ==
    ASSUME ConvInv, Begun
    PROVE  LET t == pos.t
               tilt == TiltOf(pos.acc, pos.pole) IN
           /\ PlaceIn("GCRS") = Seen(pos.app, pos.t) /\ PlaceIn("ICRS") = PlaceIn("GCRS")
           /\ PlaceIn("GCRS") \in Seq(Ahead)
           /\ Rung(PlaceIn("GCRS"), Tie, PlaceIn("J2000"))
           /\ Rung(PlaceIn("MOD"), Nutate(t, tilt), PlaceIn("TOD"))
           /\ Rung(PlaceIn("TOD"), ToCio(t, tilt), PlaceIn("CIRS"))
           /\ Rung(PlaceIn("CIRS"), Era(t), PlaceIn("TIRS"))
           /\ Rung(PlaceIn("TIRS"), Wobble(t), PlaceIn("ITRS"))
           /\ Rung(PlaceIn("ITRS"), Horizon, PlaceIn("HOR"))
           /\ Rung(PlaceIn("MOD"), MeanObliquity(t), PlaceIn("ECL_MEAN"))
           /\ Rung(PlaceIn("TOD"), TrueObliquity(t, tilt), PlaceIn("ECL_TRUE"))
           /\ Leg(PlaceIn("GCRS"), <<Tie, MeanObliquity(J2000Date)>>, PlaceIn("ECL_GCRS"))
           /\ Rung(PlaceIn("GCRS"), Galactic, PlaceIn("GAL"))
           /\ Precess(PlaceIn("J2000"), J2000Date, t) = PlaceIn("MOD")
           /\ Precess(PlaceIn("MOD"), t, J2000Date) = PlaceIn("J2000")
<1> DEFINE t == pos.t
           tilt == TiltOf(pos.acc, pos.pole)
           s == Seen(pos.app, pos.t)
<1>1. t \in Dates /\ tilt \in Tilts /\ s \in Seq(Ahead)
  BY BegunTyped
<1>2. ASSUME NEW sys PROVE PlaceIn(sys) = Word(s, t, tilt, sys)
  BY DEF PlaceIn
<1> HIDE DEF t, tilt, s
<1>3. /\ Word(s, t, tilt, "GCRS") = s /\ Word(s, t, tilt, "ICRS") = s
      /\ Rung(s, Tie, Word(s, t, tilt, "J2000"))
      /\ Rung(Word(s, t, tilt, "MOD"), Nutate(t, tilt), Word(s, t, tilt, "TOD"))
      /\ Rung(Word(s, t, tilt, "TOD"), ToCio(t, tilt), Word(s, t, tilt, "CIRS"))
      /\ Rung(Word(s, t, tilt, "CIRS"), Era(t), Word(s, t, tilt, "TIRS"))
      /\ Rung(Word(s, t, tilt, "TIRS"), Wobble(t), Word(s, t, tilt, "ITRS"))
      /\ Rung(Word(s, t, tilt, "ITRS"), Horizon, Word(s, t, tilt, "HOR"))
      /\ Rung(Word(s, t, tilt, "MOD"), MeanObliquity(t), Word(s, t, tilt, "ECL_MEAN"))
      /\ Rung(Word(s, t, tilt, "TOD"), TrueObliquity(t, tilt), Word(s, t, tilt, "ECL_TRUE"))
      /\ Leg(s, <<Tie, MeanObliquity(J2000Date)>>, Word(s, t, tilt, "ECL_GCRS"))
      /\ Rung(s, Galactic, Word(s, t, tilt, "GAL"))
      /\ Precess(Word(s, t, tilt, "J2000"), J2000Date, t) = Word(s, t, tilt, "MOD")
      /\ Precess(Word(s, t, tilt, "MOD"), t, J2000Date) = Word(s, t, tilt, "J2000")
  BY <1>1, Rungs, Zenon
<1> QED
  BY <1>1, <1>2, <1>3, Zenon DEF t, tilt, s

\* In transform.c, where the tilt is that of the date and the pole of the process.
LEMMA LegacyTilt ==
    ASSUME ConvInv, Legacy
    PROVE  E = TiltOf(pos.acc, pos.pole) /\ T = pos.t /\ Begun /\ pos.pole = pole
<1>1. pos.t \in Dates /\ Begun /\ pos.pole = pole
  BY BegunTyped DEF Legacy
<1> QED
  BY <1>1, AnglesRight DEF E, T, Tilt, TiltOf, ConvInv

LEMMA LegacyWords ==
    ASSUME ConvInv, Legacy
    PROVE  /\ GcrsToTod(PlaceIn("GCRS")) = PlaceIn("TOD")
           /\ GcrsToCirs(PlaceIn("GCRS")) = PlaceIn("CIRS")
           /\ TodToGcrs(PlaceIn("TOD")) = PlaceIn("GCRS")
           /\ CirsToGcrs(PlaceIn("CIRS")) = PlaceIn("GCRS")
           /\ J2000ToTod(PlaceIn("J2000")) = PlaceIn("TOD")
           /\ TodToJ2000(PlaceIn("TOD")) = PlaceIn("J2000")
           /\ TodToCirs(PlaceIn("TOD")) = PlaceIn("CIRS")
           /\ CirsToTod(PlaceIn("CIRS")) = PlaceIn("TOD")
           /\ \A sys \in Celestial : IcrsToSys(PlaceIn("GCRS"))[sys] = PlaceIn(sys)
           /\ \A sys \in Celestial : SysToIcrs(PlaceIn(sys))[sys] = PlaceIn("GCRS")
<1> DEFINE gcrs == PlaceIn("GCRS")
           j2000 == PlaceIn("J2000")
           mod == PlaceIn("MOD")
           tod == PlaceIn("TOD")
           cirs == PlaceIn("CIRS")
<1>1. /\ Rung(gcrs, Tie, j2000) /\ Rung(mod, Nutate(T, E), tod) /\ Rung(tod, ToCio(T, E), cirs)
      /\ Precess(j2000, J2000Date, T) = mod /\ Precess(mod, T, J2000Date) = j2000
      /\ PlaceIn("ICRS") = gcrs
  BY LegacyTilt, PlaceRungs, Zenon
<1> HIDE DEF gcrs, j2000, mod, tod, cirs
<1>2. /\ Turn(gcrs, Tie) = j2000 /\ Turn(j2000, Undo(Tie)) = gcrs
      /\ Turn(mod, Nutate(T, E)) = tod /\ Turn(tod, Undo(Nutate(T, E))) = mod
      /\ Turn(tod, ToCio(T, E)) = cirs /\ Turn(cirs, Undo(ToCio(T, E))) = tod
  BY <1>1, RungTyped
<1>3. /\ GcrsToJ2000(gcrs) = j2000 /\ J2000ToGcrs(j2000) = gcrs
      /\ GcrsToMod(gcrs) = mod /\ ModToGcrs(mod) = gcrs
      /\ J2000ToTod(j2000) = tod /\ TodToJ2000(tod) = j2000
      /\ TodToCirs(tod) = cirs /\ CirsToTod(cirs) = tod
  BY <1>1, <1>2 DEF GcrsToJ2000, J2000ToGcrs, GcrsToMod, ModToGcrs, J2000ToTod, TodToJ2000, TodToCirs, CirsToTod
<1>4. GcrsToTod(gcrs) = tod /\ TodToGcrs(tod) = gcrs
  BY <1>2, <1>3 DEF GcrsToTod, TodToGcrs
<1>5. GcrsToCirs(gcrs) = cirs /\ CirsToGcrs(cirs) = gcrs
  BY <1>3, <1>4 DEF GcrsToCirs, CirsToGcrs
<1>6. ASSUME NEW sys \in Celestial
      PROVE  IcrsToSys(gcrs)[sys] = PlaceIn(sys) /\ SysToIcrs(PlaceIn(sys))[sys] = gcrs
  <2>1. sys \in {"GCRS", "ICRS", "J2000", "MOD", "TOD", "CIRS"}
    BY DEF Celestial
  <2>2. /\ IcrsToSys(gcrs)["GCRS"] = gcrs /\ IcrsToSys(gcrs)["ICRS"] = gcrs
        /\ IcrsToSys(gcrs)["J2000"] = GcrsToJ2000(gcrs) /\ IcrsToSys(gcrs)["MOD"] = GcrsToMod(gcrs)
        /\ IcrsToSys(gcrs)["TOD"] = GcrsToTod(gcrs) /\ IcrsToSys(gcrs)["CIRS"] = GcrsToCirs(gcrs)
    BY DEF IcrsToSys
  <2>3. /\ SysToIcrs(gcrs)["GCRS"] = gcrs /\ SysToIcrs(gcrs)["ICRS"] = gcrs
        /\ SysToIcrs(j2000)["J2000"] = J2000ToGcrs(j2000) /\ SysToIcrs(mod)["MOD"] = ModToGcrs(mod)
        /\ SysToIcrs(tod)["TOD"] = TodToGcrs(tod) /\ SysToIcrs(cirs)["CIRS"] = CirsToGcrs(cirs)
    BY DEF SysToIcrs
  <2> QED
    BY <1>1, <1>3, <1>4, <1>5, <2>1, <2>2, <2>3, Zenon DEF gcrs, j2000, mod, tod, cirs
<1> QED
  BY <1>3, <1>4, <1>5, <1>6, Zenon DEF gcrs, j2000, mod, tod, cirs

\* The rotations from TOD to ITRS and back, by the sidereal time.
LEMMA SpunWords ==
    ASSUME ConvInv, Legacy, Gast(pos.t, pos.acc).tilt.pole = pole
    PROVE  LET g == Gast(pos.t, pos.acc) IN
           /\ Leg(PlaceIn("TOD"), Spun(g), PlaceIn("ITRS"))
           /\ Forth(PlaceIn("TOD"), Append(Spun(g), Horizon)) = PlaceIn("HOR")
<1> DEFINE g == Gast(pos.t, pos.acc)
           tilt == TiltOf(pos.acc, pos.pole)
<1>1. pos.t \in Dates /\ pos.pole = pole /\ T = pos.t /\ Begun
  BY LegacyTilt, BegunTyped
<1>2. g.tilt = tilt
  BY <1>1, GastFresh DEF ConvInv
<1> HIDE DEF g, tilt
<1>3. /\ Rung(PlaceIn("TOD"), ToCio(T, tilt), PlaceIn("CIRS"))
      /\ Rung(PlaceIn("CIRS"), Era(T), PlaceIn("TIRS"))
      /\ Rung(PlaceIn("TIRS"), Wobble(T), PlaceIn("ITRS"))
      /\ Rung(PlaceIn("ITRS"), Horizon, PlaceIn("HOR"))
  BY <1>1, PlaceRungs, Zenon DEF tilt
<1>4. Leg(PlaceIn("TOD"), Sidereal(T, g.tilt), PlaceIn("TIRS"))
  BY <1>2, <1>3, LegOfTwo DEF Sidereal
<1>5. Leg(PlaceIn("TOD"), Spun(g), PlaceIn("ITRS"))
  BY <1>3, <1>4, LegAppend DEF Spun
<1>6. Leg(PlaceIn("TOD"), Append(Spun(g), Horizon), PlaceIn("HOR"))
  BY <1>3, <1>5, LegAppend
<1> QED
  BY <1>5, <1>6, LegTyped DEF g

\* And from CIRS, by the Earth rotation angle.
LEMMA EraWords ==
    ASSUME ConvInv, Begun
    PROVE  /\ Forth(PlaceIn("CIRS"), <<Era(T), Wobble(T)>>) = PlaceIn("ITRS")
           /\ Back(PlaceIn("ITRS"), <<Era(T), Wobble(T)>>) = PlaceIn("CIRS")
<1>1. /\ Rung(PlaceIn("CIRS"), Era(T), PlaceIn("TIRS"))
      /\ Rung(PlaceIn("TIRS"), Wobble(T), PlaceIn("ITRS"))
  BY PlaceRungs, Zenon DEF T
<1> QED
  BY <1>1, LegOfTwo, LegTyped

\* In frames.c, where the tilt is that of the frame.
LEMMA FrameWords ==
    ASSUME ConvInv, InFrame
    PROVE  /\ Begun /\ frame.t = pos.t /\ pos.t \in Dates
           /\ PlaceIn("GCRS") = Seen(pos.app, pos.t)
           /\ Leg(PlaceIn("GCRS"), ToMod, PlaceIn("MOD"))
           /\ Leg(PlaceIn("GCRS"), ToTod, PlaceIn("TOD"))
           /\ Leg(PlaceIn("GCRS"), ToGcrsToCirs, PlaceIn("CIRS"))
           /\ Leg(PlaceIn("J2000"), Append(FPrec, FNut), PlaceIn("TOD"))
           /\ Leg(PlaceIn("TOD"), Sidereal(F.t, F.tilt), PlaceIn("TIRS"))
           /\ Rung(PlaceIn("GCRS"), Tie, PlaceIn("J2000"))
           /\ Rung(PlaceIn("MOD"), FNut, PlaceIn("TOD"))
           /\ Rung(PlaceIn("CIRS"), Era(F.t), PlaceIn("TIRS"))
           /\ Rung(PlaceIn("TIRS"), FWobble, PlaceIn("ITRS"))
           /\ Rung(PlaceIn("ITRS"), Horizon, PlaceIn("HOR"))
           /\ \A sys \in Systems : Leg(PlaceIn(sys), FrameToItrs[sys], PlaceIn("ITRS"))
           /\ \A sys, to \in Systems : Transform(PlaceIn(sys), sys, to) = PlaceIn(to)
<1> DEFINE s == Seen(pos.app, pos.t)
<1>1. /\ Begun /\ frame.t = pos.t /\ frame.acc = pos.acc /\ pos.pole = 0
      /\ pos.t \in Dates /\ s \in Seq(Ahead) /\ TiltOf(pos.acc, pos.pole) \in Tilts
  BY BegunTyped DEF InFrame
<1>2. frame.tilt = TiltOf(pos.acc, pos.pole)
  BY <1>1, DateIsNoNone DEF ConvInv, RememberedRight
<1>3. frame.t \in Dates /\ frame.tilt \in Tilts
  BY <1>1, <1>2
<1>4. ASSUME NEW sys PROVE PlaceIn(sys) = Word(s, frame.t, frame.tilt, sys)
  BY <1>1, <1>2 DEF PlaceIn
<1>5. /\ PlaceIn("GCRS") = s
      /\ Rung(PlaceIn("GCRS"), Tie, PlaceIn("J2000"))
      /\ Rung(PlaceIn("MOD"), Nutate(pos.t, TiltOf(pos.acc, pos.pole)), PlaceIn("TOD"))
      /\ Rung(PlaceIn("CIRS"), Era(pos.t), PlaceIn("TIRS"))
      /\ Rung(PlaceIn("TIRS"), Wobble(pos.t), PlaceIn("ITRS"))
      /\ Rung(PlaceIn("ITRS"), Horizon, PlaceIn("HOR"))
  BY <1>1, PlaceRungs, Zenon
<1>6. /\ Rung(PlaceIn("MOD"), FNut, PlaceIn("TOD"))
      /\ Rung(PlaceIn("CIRS"), Era(F.t), PlaceIn("TIRS"))
      /\ Rung(PlaceIn("TIRS"), FWobble, PlaceIn("ITRS"))
  BY <1>1, <1>2, <1>5 DEF FNut, FWobble, F
<1> HIDE DEF s
<1>7. /\ Leg(s, ToMod, PlaceIn("MOD"))
      /\ Leg(s, ToTod, PlaceIn("TOD"))
      /\ Leg(s, ToGcrsToCirs, PlaceIn("CIRS"))
      /\ Leg(PlaceIn("J2000"), Append(FPrec, FNut), PlaceIn("TOD"))
      /\ Leg(PlaceIn("TOD"), Sidereal(frame.t, frame.tilt), PlaceIn("TIRS"))
      /\ \A sys \in Systems : Leg(PlaceIn(sys), FrameToItrs[sys], PlaceIn("ITRS"))
  <2>1. /\ Leg(s, ToMod, Word(s, frame.t, frame.tilt, "MOD"))
        /\ Leg(s, ToTod, Word(s, frame.t, frame.tilt, "TOD"))
        /\ Leg(s, ToGcrsToCirs, Word(s, frame.t, frame.tilt, "CIRS"))
        /\ Leg(Word(s, frame.t, frame.tilt, "J2000"), Append(FPrec, FNut), Word(s, frame.t, frame.tilt, "TOD"))
        /\ Leg(Word(s, frame.t, frame.tilt, "TOD"), Sidereal(frame.t, frame.tilt),
               Word(s, frame.t, frame.tilt, "TIRS"))
        /\ \A sys \in Systems :
              Leg(Word(s, frame.t, frame.tilt, sys), FrameToItrs[sys], Word(s, frame.t, frame.tilt, "ITRS"))
    BY <1>1, <1>3, FrameLegs, Zenon
  <2> QED
    BY <1>4, <2>1, Zenon
<1>8. ASSUME NEW sys \in Systems, NEW to \in Systems PROVE Transform(PlaceIn(sys), sys, to) = PlaceIn(to)
  BY <1>1, <1>3, <1>4, TransformRight, Zenon
<1> QED
  BY <1>1, <1>5, <1>6, <1>7, <1>8, Zenon DEF s, F

-----------------------------------------------------------------------------
(* Every call keeps the invariant. *)

\* As long as nothing was computed, nothing is remembered.
LEMMA InitConv == ConvInit => ConvInv
  BY ConversionAssumption DEF ConvInit, ConvInv, RememberedRight, DirectionRight, Never, Begun

LEMMA PosStays == ASSUME DirectionRight, UNCHANGED <<pos, lp>> PROVE DirectionRight'
<1>1. PlaceIn(pos.sys)' = PlaceIn(pos.sys)
  BY DEF PlaceIn, TiltOf, By
<1> QED
  BY <1>1 DEF DirectionRight, Begun

LEMMA BeginStep == ConvInv /\ Begin => ConvInv'
<1> SUFFICES ASSUME ConvInv, Begin PROVE ConvInv'
  OBVIOUS
<1>1. /\ pole' = pole /\ lp' = lp /\ nut' = nut /\ gast' = gast /\ frame' = frame
      /\ pole \in Offsets /\ 0 \in Offsets
  BY ConversionAssumption DEF Begin, ConvInv, RememberedRight
<1>2. RememberedRight'
  BY <1>1, RemembersRight DEF ConvInv
<1>3. PICK t \in Dates, acc \in Accuracies, p \in {0, pole} :
         pos' = [sys |-> "GCRS", word |-> <<>>, t |-> t, acc |-> acc,
                 pole |-> p, app |-> FALSE, stale |-> FALSE]
  BY DEF Begin
<1>4. /\ pos'.sys = "GCRS" /\ pos'.word = <<>> /\ pos'.t = t /\ pos'.acc = acc
      /\ pos'.pole = p /\ pos'.app = FALSE /\ pos'.stale = FALSE /\ p \in Offsets
  BY <1>1, <1>3
<1>5. PlaceIn("GCRS")' = <<>>
  <2>1. PlaceIn("GCRS")' = Word(<<>>, t, TiltOf(acc, p), "GCRS")
    BY <1>1, <1>4 DEF PlaceIn, Seen, TiltOf, By
  <2>2. TiltOf(acc, p) \in Tilts /\ <<>> \in Seq(Ahead)
    BY <1>4, TiltTyped DEF ConvInv
  <2> QED
    BY <2>1, <2>2, Rungs, Zenon
<1>6. DirectionRight'
  BY <1>3, <1>4, <1>5 DEF DirectionRight
<1> QED
  BY <1>2, <1>6 DEF ConvInv

LEMMA PoleStep == ConvInv /\ CelPole => ConvInv'
<1> SUFFICES ASSUME ConvInv, CelPole PROVE ConvInv'
  OBVIOUS
<1>1. pole' \in Offsets /\ UNCHANGED <<lp, nut, gast, frame, pos>>
  BY DEF CelPole
<1>2. RememberedRight'
  BY <1>1, RemembersRight DEF ConvInv
<1>3. DirectionRight'
  BY <1>1, PosStays DEF ConvInv
<1> QED
  BY <1>2, <1>3 DEF ConvInv

LEMMA SiderealStep == ConvInv /\ SiderealTime => ConvInv'
<1> SUFFICES ASSUME ConvInv, SiderealTime PROVE ConvInv'
  OBVIOUS
<1>1. PICK t \in Dates, acc \in Accuracies :
         /\ nut' = IF Remembered(t, acc) THEN nut ELSE Angles(t, acc)
         /\ gast' = Gast(t, acc)
  BY DEF SiderealTime
<1>2. pole' \in Offsets /\ UNCHANGED <<lp, frame, pos>>
  BY DEF SiderealTime, ConvInv, RememberedRight
<1>3. RememberedRight'
  BY <1>1, <1>2, RemembersRight DEF ConvInv
<1>4. DirectionRight'
  BY <1>2, PosStays DEF ConvInv
<1> QED
  BY <1>3, <1>4 DEF ConvInv

\* What the conversions leave alone or use.
LEMMA ConvertRemembers ==
    ASSUME ConvInv, Begun, Remaining,
           AnglesUsed \/ TiltUsed \/ UNCHANGED nut,
           GastUsed \/ UNCHANGED gast
    PROVE  RememberedRight' /\ lp' = lp
<1>1. pos.t \in Dates /\ pole' \in Offsets /\ UNCHANGED <<lp, frame>>
  BY BegunTyped DEF Remaining, ConvInv, RememberedRight
<1>2. nut' = nut \/ \E t \in Dates : \E acc : nut' = Angles(t, acc)
  BY <1>1 DEF AnglesUsed, TiltUsed
<1>3. gast' = gast \/ \E t \in Dates : \E acc : gast' = Gast(t, acc)
  BY <1>1 DEF GastUsed
<1> QED
  BY <1>1, <1>2, <1>3, RemembersRight DEF ConvInv

LEMMA IcrsStep == ConvInv /\ ConvertIcrs => ConvInv'
<1> SUFFICES ASSUME ConvInv, ConvertIcrs PROVE ConvInv'
  OBVIOUS
<1>1. Legacy /\ Begun /\ pos.word = PlaceIn(pos.sys)
  BY LegacyTilt DEF ConvertIcrs, ConvInv, DirectionRight
<1>2. RememberedRight' /\ lp' = lp
  BY <1>1, ConvertRemembers DEF ConvertIcrs
<1>3. PlaceIn("ICRS") = PlaceIn("GCRS")
  BY <1>1, PlaceRungs, Zenon
<1>4. ASSUME pos.sys \in {"GCRS", "ICRS"}, NEW sys \in Celestial, Moved(sys, IcrsToSys(pos.word)[sys])
      PROVE  DirectionRight'
  <2>1. pos.word = PlaceIn("GCRS")
    BY <1>1, <1>3, <1>4
  <2>2. IcrsToSys(pos.word)[sys] = PlaceIn(sys)
    BY <1>1, <2>1, LegacyWords
  <2> QED
    BY <1>1, <1>2, <1>4, <2>2, MovedArrives
<1>5. ASSUME pos.sys \in Celestial, Moved("ICRS", SysToIcrs(pos.word)[pos.sys])
      PROVE  DirectionRight'
  <2>1. SysToIcrs(pos.word)[pos.sys] = PlaceIn("ICRS")
    BY <1>1, <1>3, <1>5, LegacyWords
  <2> QED
    BY <1>1, <1>2, <1>5, <2>1, MovedArrives
<1> QED
  BY <1>2, <1>4, <1>5 DEF ConvertIcrs, ConvInv

LEMMA TodStep == ConvInv /\ ConvertTod => ConvInv'
<1> SUFFICES ASSUME ConvInv, ConvertTod PROVE ConvInv'
  OBVIOUS
<1>1. Legacy /\ Begun /\ pos.word = PlaceIn(pos.sys)
  BY LegacyTilt DEF ConvertTod, ConvInv, DirectionRight
<1>2. RememberedRight' /\ lp' = lp
  BY <1>1, ConvertRemembers DEF ConvertTod
<1>3. PICK sys, word : Moved(sys, word) /\ word = PlaceIn(sys)
  BY <1>1, LegacyWords DEF ConvertTod
<1> QED
  BY <1>1, <1>2, <1>3, MovedArrives DEF ConvInv

LEMMA DateStep == ConvInv /\ ConvertDate => ConvInv'
<1> SUFFICES ASSUME ConvInv, ConvertDate PROVE ConvInv'
  OBVIOUS
<1>1. Begun /\ pos.sys = "MOD" /\ ~pos.app /\ pos.word = PlaceIn(pos.sys)
  BY DEF ConvertDate, ConvInv, DirectionRight
<1>2. RememberedRight' /\ lp' = lp
  BY <1>1, ConvertRemembers DEF ConvertDate
<1>3. PICK t \in Dates : pos' = [pos EXCEPT !.t = t, !.word = Precess(@, pos.t, t)]
  BY DEF ConvertDate
<1> DEFINE tilt == TiltOf(pos.acc, pos.pole)
           tied == Word(<<>>, t, tilt, "J2000")
<1>4. /\ pos.t \in Dates /\ tilt \in Tilts /\ <<>> \in Seq(Ahead)
      /\ pos.app = FALSE
  BY <1>1, BegunTyped DEF ConvInv, DirectionRight
<1>5. pos' = [sys |-> "MOD", word |-> Precess(pos.word, pos.t, t), t |-> t, acc |-> pos.acc,
              pole |-> pos.pole, app |-> FALSE, stale |-> pos.stale]
  BY <1>1, <1>3, <1>4 DEF ConvInv, DirectionRight
<1>6. pos.word = Word(<<>>, pos.t, tilt, "MOD")
  BY <1>1, <1>4 DEF PlaceIn, Seen
<1>7. PlaceIn("MOD")' = Word(<<>>, t, tilt, "MOD")
  BY <1>2, <1>5 DEF PlaceIn, Seen, TiltOf, By
<1> HIDE DEF tilt
<1>8. /\ tied = Append(<<>>, Tie) /\ tied \in Seq(Ahead)
      /\ Word(<<>>, pos.t, tilt, "J2000") = Append(<<>>, Tie)
      /\ Word(<<>>, t, tilt, "MOD") = tied \o Prec(t)
      /\ Word(<<>>, pos.t, tilt, "MOD") = Word(<<>>, pos.t, tilt, "J2000") \o Prec(pos.t)
  <2>1. ASSUME NEW u \in Dates
        PROVE  /\ Word(<<>>, u, tilt, "J2000") = Append(<<>>, Tie)
               /\ Word(<<>>, u, tilt, "J2000") \in Seq(Ahead)
               /\ Word(<<>>, u, tilt, "MOD") = Word(<<>>, u, tilt, "J2000") \o Prec(u)
    BY <1>4, Ladder
  <2> QED
    BY <1>4, <2>1
<1> HIDE DEF tied
<1>9. Precess(tied \o Prec(pos.t), pos.t, t) = tied \o Prec(t)
  BY <1>4, <1>8, Precessed
<1>10. pos'.word = PlaceIn("MOD")'
  BY <1>5, <1>6, <1>7, <1>8, <1>9
<1>11. DirectionRight'
  BY <1>5, <1>10 DEF DirectionRight, ConvInv
<1> QED
  BY <1>2, <1>11 DEF ConvInv

LEMMA EraStep == ConvInv /\ ConvertEra => ConvInv'
<1> SUFFICES ASSUME ConvInv, ConvertEra PROVE ConvInv'
  OBVIOUS
<1> DEFINE spun == <<Era(T), Wobble(T)>>
<1>1. Legacy /\ Begun /\ pos.word = PlaceIn(pos.sys)
  BY LegacyTilt DEF ConvertEra, ConvInv, DirectionRight
<1>2. RememberedRight' /\ lp' = lp
  BY <1>1, ConvertRemembers DEF ConvertEra
<1>3. /\ Forth(PlaceIn("CIRS"), spun) = PlaceIn("ITRS")
      /\ Back(PlaceIn("ITRS"), spun) = PlaceIn("CIRS")
  BY <1>1, EraWords
<1>4. \/ pos.sys = "CIRS" /\ Moved("ITRS", Forth(pos.word, spun))
      \/ pos.sys = "GCRS" /\ Moved("ITRS", Forth(GcrsToCirs(pos.word), spun))
      \/ pos.sys = "ITRS" /\ Moved("CIRS", Back(pos.word, spun))
      \/ pos.sys = "ITRS" /\ Moved("GCRS", CirsToGcrs(Back(pos.word, spun)))
  BY DEF ConvertEra
<1> HIDE DEF spun
<1>5. PICK sys, word : Moved(sys, word) /\ word = PlaceIn(sys)
  BY <1>1, <1>3, <1>4, LegacyWords
<1> QED
  BY <1>1, <1>2, <1>5, MovedArrives DEF ConvInv

LEMMA GstStep == ConvInv /\ (ConvertGst \/ EquToHor) => ConvInv'
<1> SUFFICES ASSUME ConvInv, ConvertGst \/ EquToHor PROVE ConvInv'
  OBVIOUS
<1> DEFINE g == Gast(pos.t, pos.acc)
<1>1. Legacy /\ Begun /\ pos.word = PlaceIn(pos.sys)
  BY LegacyTilt DEF ConvertGst, EquToHor, ConvInv, DirectionRight
<1>2. RememberedRight' /\ lp' = lp
  BY <1>1, ConvertRemembers DEF ConvertGst, EquToHor
<1>3. \/ pos.sys = "TOD" /\ MovedBy(g, "ITRS", Forth(pos.word, Spun(g)))
      \/ pos.sys = "GCRS" /\ MovedBy(g, "ITRS", Forth(GcrsToTod(pos.word), Spun(g)))
      \/ pos.sys = "ITRS" /\ MovedBy(g, "TOD", Back(pos.word, Spun(g)))
      \/ pos.sys = "ITRS" /\ MovedBy(g, "GCRS", TodToGcrs(Back(pos.word, Spun(g))))
      \/ pos.sys = "TOD" /\ MovedBy(g, "HOR", Forth(pos.word, Append(Spun(g), Horizon)))
  BY DEF ConvertGst, EquToHor
<1>4. g.tilt.pole = pole =>
         /\ Forth(PlaceIn("TOD"), Spun(g)) = PlaceIn("ITRS")
         /\ Back(PlaceIn("ITRS"), Spun(g)) = PlaceIn("TOD")
         /\ Forth(PlaceIn("TOD"), Append(Spun(g), Horizon)) = PlaceIn("HOR")
  BY <1>1, SpunWords, LegTyped, Zenon
<1>5. GcrsToTod(PlaceIn("GCRS")) = PlaceIn("TOD") /\ TodToGcrs(PlaceIn("TOD")) = PlaceIn("GCRS")
  BY <1>1, LegacyWords
<1> HIDE DEF g
<1>6. PICK sys, word : MovedBy(g, sys, word) /\ (g.tilt.pole = pole => word = PlaceIn(sys))
  BY <1>1, <1>3, <1>4, <1>5
<1>7. pos' = [pos EXCEPT !.sys = sys, !.word = word, !.stale = g.tilt.pole # pole]
  BY <1>6 DEF MovedBy
<1>8. DirectionRight'
  BY <1>1, <1>2, <1>6, <1>7, Arrives
<1> QED
  BY <1>2, <1>8 DEF ConvInv

LEMMA HorizonStep == ConvInv /\ ConvertHorizon => ConvInv'
<1> SUFFICES ASSUME ConvInv, ConvertHorizon PROVE ConvInv'
  OBVIOUS
<1>1. Begun /\ pos.word = PlaceIn(pos.sys)
  BY DEF ConvertHorizon, ConvInv, DirectionRight
<1>2. RememberedRight' /\ lp' = lp
  BY <1>1, ConvertRemembers DEF ConvertHorizon
<1>3. Turn(PlaceIn("ITRS"), Horizon) = PlaceIn("HOR") /\ Turn(PlaceIn("HOR"), Undo(Horizon)) = PlaceIn("ITRS")
  <2>1. Rung(PlaceIn("ITRS"), Horizon, PlaceIn("HOR"))
    BY <1>1, PlaceRungs, Zenon
  <2> QED
    BY <2>1, RungTyped
<1>4. PICK sys, word : Moved(sys, word) /\ word = PlaceIn(sys)
  BY <1>1, <1>3 DEF ConvertHorizon
<1> QED
  BY <1>1, <1>2, <1>4, MovedArrives DEF ConvInv

LEMMA EclipticStep == ConvInv /\ ConvertEcliptic => ConvInv'
<1> SUFFICES ASSUME ConvInv, ConvertEcliptic PROVE ConvInv'
  OBVIOUS
<1> DEFINE mean == MeanObliquity(T)
           true == TrueObliquity(T, E)
           tied == <<Tie, MeanObliquity(J2000Date)>>
<1>1. Legacy /\ Begun /\ pos.word = PlaceIn(pos.sys) /\ T = pos.t /\ E = TiltOf(pos.acc, pos.pole)
  BY LegacyTilt DEF ConvertEcliptic, ConvInv, DirectionRight
<1>2. RememberedRight' /\ lp' = lp
  BY <1>1, ConvertRemembers DEF ConvertEcliptic
<1>3. /\ Rung(PlaceIn("MOD"), mean, PlaceIn("ECL_MEAN"))
      /\ Rung(PlaceIn("TOD"), true, PlaceIn("ECL_TRUE"))
      /\ Leg(PlaceIn("GCRS"), tied, PlaceIn("ECL_GCRS"))
  BY <1>1, PlaceRungs, Zenon
<1>4. \/ pos.sys = "MOD" /\ Moved("ECL_MEAN", Turn(pos.word, mean))
      \/ pos.sys = "TOD" /\ Moved("ECL_TRUE", Turn(pos.word, true))
      \/ pos.sys = "ECL_MEAN" /\ Moved("MOD", Turn(pos.word, Undo(mean)))
      \/ pos.sys = "ECL_TRUE" /\ Moved("TOD", Turn(pos.word, Undo(true)))
      \/ pos.sys = "GCRS" /\ Moved("ECL_GCRS", Forth(pos.word, tied))
      \/ pos.sys = "ECL_GCRS" /\ Moved("GCRS", Back(pos.word, tied))
  BY DEF ConvertEcliptic
<1> HIDE DEF mean, true, tied
<1>5. /\ Turn(PlaceIn("MOD"), mean) = PlaceIn("ECL_MEAN") /\ Turn(PlaceIn("ECL_MEAN"), Undo(mean)) = PlaceIn("MOD")
      /\ Turn(PlaceIn("TOD"), true) = PlaceIn("ECL_TRUE") /\ Turn(PlaceIn("ECL_TRUE"), Undo(true)) = PlaceIn("TOD")
      /\ Forth(PlaceIn("GCRS"), tied) = PlaceIn("ECL_GCRS") /\ Back(PlaceIn("ECL_GCRS"), tied) = PlaceIn("GCRS")
  BY <1>3, RungTyped, LegTyped
<1>6. PICK sys, word : Moved(sys, word) /\ word = PlaceIn(sys)
  BY <1>1, <1>4, <1>5
<1> QED
  BY <1>1, <1>2, <1>6, MovedArrives DEF ConvInv

LEMMA GalacticStep == ConvInv /\ ConvertGalactic => ConvInv'
<1> SUFFICES ASSUME ConvInv, ConvertGalactic PROVE ConvInv'
  OBVIOUS
<1>1. Begun /\ pos.word = PlaceIn(pos.sys)
  BY DEF ConvertGalactic, ConvInv, DirectionRight
<1>2. RememberedRight' /\ lp' = lp
  BY <1>1, ConvertRemembers DEF ConvertGalactic
<1>3. Turn(PlaceIn("ICRS"), Galactic) = PlaceIn("GAL") /\ Turn(PlaceIn("GAL"), Undo(Galactic)) = PlaceIn("ICRS")
  <2>1. Rung(PlaceIn("GCRS"), Galactic, PlaceIn("GAL")) /\ PlaceIn("ICRS") = PlaceIn("GCRS")
    BY <1>1, PlaceRungs, Zenon
  <2>2. Turn(PlaceIn("GCRS"), Galactic) = PlaceIn("GAL") /\ Turn(PlaceIn("GAL"), Undo(Galactic)) = PlaceIn("GCRS")
    BY <2>1, RungTyped
  <2> QED
    BY <2>1, <2>2
<1>4. PICK sys, word : Moved(sys, word) /\ word = PlaceIn(sys)
  BY <1>1, <1>3 DEF ConvertGalactic
<1> QED
  BY <1>1, <1>2, <1>4, MovedArrives DEF ConvInv

LEMMA UseFrameStep == ConvInv /\ UseFrame => ConvInv'
<1> SUFFICES ASSUME ConvInv, UseFrame PROVE ConvInv'
  OBVIOUS
<1>1. /\ Begun /\ pole' \in Offsets /\ UNCHANGED <<lp, gast, pos>>
      /\ nut' = Angles(pos.t, pos.acc)
      /\ frame' = [t |-> pos.t, acc |-> pos.acc, tilt |-> [by |-> Angles(pos.t, pos.acc).by, pole |-> 0]]
  BY DEF UseFrame, AnglesUsed, ConvInv, RememberedRight
<1>2. pos.t \in Dates
  BY <1>1, BegunTyped
<1>3. frame'.acc = pos.acc /\ frame'.tilt = TiltOf(pos.acc, 0)
  BY <1>1, <1>2, AnglesRight DEF ConvInv, TiltOf
<1>4. RememberedRight'
  BY <1>1, <1>2, <1>3, RemembersRight DEF ConvInv
<1>5. DirectionRight'
  BY <1>1, PosStays DEF ConvInv
<1> QED
  BY <1>4, <1>5 DEF ConvInv

\* A direction that is seen, or is no longer, goes on from there.
LEMMA Sees ==
    ASSUME ConvInv, Begun, lp' = lp, NEW sys, NEW word, NEW app \in BOOLEAN,
           pos' = [pos EXCEPT !.sys = sys, !.app = app, !.word = word],
           word = Word(Seen(app, pos.t), pos.t, TiltOf(pos.acc, pos.pole), sys)
    PROVE  DirectionRight'
<1>1. pos' = [sys |-> sys, word |-> word, t |-> pos.t, acc |-> pos.acc,
              pole |-> pos.pole, app |-> app, stale |-> pos.stale]
  BY DEF ConvInv, DirectionRight
<1>2. /\ pos'.sys = sys /\ pos'.word = word /\ pos'.t = pos.t /\ pos'.acc = pos.acc
      /\ pos'.pole = pos.pole /\ pos'.app = app /\ pos'.stale = pos.stale
  BY <1>1
<1>3. PlaceIn(sys)' = word
  BY <1>2 DEF PlaceIn, TiltOf, By
<1> QED
  BY <1>1, <1>2, <1>3 DEF ConvInv, DirectionRight

LEMMA GeomStep == ASSUME NoApparentItrs PROVE ConvInv /\ GeomToApp => ConvInv'
<1> SUFFICES ASSUME ConvInv, GeomToApp PROVE ConvInv'
  OBVIOUS
<1> DEFINE s == <<Bend, Aberrate>>
           tilt == frame.tilt
           W(sys) == Word(s, frame.t, tilt, sys)
<1>1. /\ InFrame /\ Begun /\ frame.t = pos.t /\ frame.acc = pos.acc /\ pos.pole = 0
      /\ pos.app = FALSE /\ pos.sys \in {"GCRS", "ICRS"}
  BY DEF GeomToApp, InFrame, ConvInv, DirectionRight
<1>2. /\ pos.t \in Dates /\ s = Seen(TRUE, pos.t) /\ s \in Seq(Ahead) /\ Seen(FALSE, pos.t) = <<>>
      /\ tilt = TiltOf(pos.acc, pos.pole) /\ tilt \in Tilts
  BY <1>1, BegunTyped, DateIsNoNone DEF Bend, Aberrate, F, ConvInv, RememberedRight
<1>3. pos.word = <<>>
  <2>1. PlaceIn("GCRS") = <<>> /\ PlaceIn("ICRS") = <<>>
    BY <1>1, <1>2, PlaceRungs, Zenon
  <2> QED
    BY <1>1, <2>1 DEF ConvInv, DirectionRight
<1>4. PICK sys \in AppSystems :
         pos' = [pos EXCEPT !.sys = sys, !.app = TRUE, !.word = FrameIcrsToSys(Forth(@, s))[sys]]
  BY DEF GeomToApp
<1>5. Forth(<<>>, s) = s
  <2>1. <<>> \in Seq(Ahead) /\ <<>> \o s = s
    BY <1>2
  <2> QED
    BY <1>2, <2>1, ForthAhead
<1>6. sys \in {"GCRS", "ICRS", "J2000", "MOD", "TOD", "CIRS", "TIRS"}
  BY DEF NoApparentItrs, Systems, Celestial
<1>7. /\ W("GCRS") = s /\ W("ICRS") = s
      /\ Rung(s, Tie, W("J2000")) /\ Rung(W("CIRS"), Era(F.t), W("TIRS"))
  BY <1>1, <1>2, Rungs, Zenon DEF F
<1>8. Leg(s, ToMod, W("MOD")) /\ Leg(s, ToTod, W("TOD")) /\ Leg(s, ToGcrsToCirs, W("CIRS"))
  BY <1>1, <1>2, FrameLegs, Zenon
<1> HIDE DEF s, W
<1>9. /\ Turn(s, Tie) = W("J2000") /\ Forth(s, ToMod) = W("MOD") /\ Forth(s, ToTod) = W("TOD")
      /\ Forth(s, ToGcrsToCirs) = W("CIRS") /\ Turn(W("CIRS"), Era(F.t)) = W("TIRS")
  BY <1>7, <1>8, RungTyped, LegTyped
<1>10. FrameIcrsToSys(s)[sys] = W(sys)
  BY <1>6, <1>7, <1>9 DEF FrameIcrsToSys
<1>11. pos' = [pos EXCEPT !.sys = sys, !.app = TRUE, !.word = FrameIcrsToSys(s)[sys]]
  BY <1>3, <1>4, <1>5
<1>12. FrameIcrsToSys(s)[sys] = Word(Seen(TRUE, pos.t), pos.t, TiltOf(pos.acc, pos.pole), sys)
  BY <1>1, <1>2, <1>10 DEF W
<1>13. RememberedRight' /\ lp' = lp
  BY <1>1, ConvertRemembers DEF GeomToApp
<1>14. DirectionRight'
  BY <1>1, <1>11, <1>12, <1>13, Sees
<1> QED
  BY <1>13, <1>14 DEF ConvInv

LEMMA AppStep == ASSUME NoApparentItrs PROVE ConvInv /\ AppToGeom => ConvInv'
<1> SUFFICES ASSUME ConvInv, AppToGeom PROVE ConvInv'
  OBVIOUS
<1> DEFINE s == <<Bend, Aberrate>>
<1>1. /\ InFrame /\ Begun /\ frame.t = pos.t
      /\ pos.app = TRUE /\ pos.sys \in AppSystems /\ pos.word = PlaceIn(pos.sys)
  BY DEF AppToGeom, InFrame, ConvInv, DirectionRight
<1>2. s = Seen(TRUE, pos.t) /\ s \in Seq(Ahead) /\ Seen(FALSE, pos.t) = <<>>
      /\ pos.t \in Dates /\ TiltOf(pos.acc, pos.pole) \in Tilts
  BY <1>1, BegunTyped DEF Bend, Aberrate, F
<1>3. pos' = [pos EXCEPT !.sys = "ICRS", !.app = FALSE, !.word = Back(FrameSysToIcrs(pos.word)[pos.sys], s)]
  BY DEF AppToGeom, ConvInv, DirectionRight
<1>4. /\ PlaceIn("GCRS") = s /\ PlaceIn("ICRS") = s
      /\ Rung(s, Tie, PlaceIn("J2000")) /\ Rung(PlaceIn("CIRS"), Era(F.t), PlaceIn("TIRS"))
      /\ Leg(s, ToMod, PlaceIn("MOD")) /\ Leg(s, ToTod, PlaceIn("TOD")) /\ Leg(s, ToGcrsToCirs, PlaceIn("CIRS"))
  <2>1. /\ PlaceIn("GCRS") = Seen(pos.app, pos.t)
        /\ Rung(PlaceIn("GCRS"), Tie, PlaceIn("J2000")) /\ Rung(PlaceIn("CIRS"), Era(F.t), PlaceIn("TIRS"))
        /\ Leg(PlaceIn("GCRS"), ToMod, PlaceIn("MOD")) /\ Leg(PlaceIn("GCRS"), ToTod, PlaceIn("TOD"))
        /\ Leg(PlaceIn("GCRS"), ToGcrsToCirs, PlaceIn("CIRS"))
    BY <1>1, FrameWords, Zenon
  <2>2. PlaceIn("ICRS") = PlaceIn("GCRS")
    BY <1>1, PlaceRungs, Zenon
  <2> QED
    BY <1>1, <1>2, <2>1, <2>2
<1>5. pos.sys \in {"GCRS", "ICRS", "J2000", "MOD", "TOD", "CIRS", "TIRS"}
  BY <1>1 DEF NoApparentItrs, Systems, Celestial
<1> HIDE DEF s
<1>6. /\ Turn(PlaceIn("J2000"), Undo(Tie)) = s /\ Back(PlaceIn("MOD"), ToMod) = s
      /\ Back(PlaceIn("TOD"), ToTod) = s /\ Back(PlaceIn("CIRS"), ToGcrsToCirs) = s
      /\ Turn(PlaceIn("TIRS"), Undo(Era(F.t))) = PlaceIn("CIRS")
  BY <1>4, RungTyped, LegTyped
<1>7. FrameSysToIcrs(pos.word)[pos.sys] = s
  <2>1. /\ FrameSysToIcrs(s)["GCRS"] = s /\ FrameSysToIcrs(s)["ICRS"] = s
        /\ FrameSysToIcrs(PlaceIn("J2000"))["J2000"] = Turn(PlaceIn("J2000"), Undo(Tie))
        /\ FrameSysToIcrs(PlaceIn("MOD"))["MOD"] = Back(PlaceIn("MOD"), ToMod)
        /\ FrameSysToIcrs(PlaceIn("TOD"))["TOD"] = Back(PlaceIn("TOD"), ToTod)
        /\ FrameSysToIcrs(PlaceIn("CIRS"))["CIRS"] = Back(PlaceIn("CIRS"), ToGcrsToCirs)
        /\ FrameSysToIcrs(PlaceIn("TIRS"))["TIRS"] = Back(Turn(PlaceIn("TIRS"), Undo(Era(F.t))), ToGcrsToCirs)
    BY DEF FrameSysToIcrs
  <2> QED
    BY <1>1, <1>4, <1>5, <1>6, <2>1
<1>8. Back(s, s) = <<>>
  <2>1. <<>> \in Seq(Ahead) /\ <<>> \o s = s
    BY <1>2
  <2> QED
    BY <1>2, <2>1, BackAhead
<1>9. Word(<<>>, pos.t, TiltOf(pos.acc, pos.pole), "ICRS") = <<>>
  <2>1. <<>> \in Seq(Ahead)
    OBVIOUS
  <2> QED
    BY <1>2, <2>1, Rungs, Zenon
<1>10. RememberedRight' /\ lp' = lp
  BY <1>1, ConvertRemembers DEF AppToGeom
<1>11. DirectionRight'
  BY <1>1, <1>2, <1>3, <1>7, <1>8, <1>9, <1>10, Sees
<1> QED
  BY <1>10, <1>11 DEF ConvInv

LEMMA ToHorStep == ConvInv /\ AppToHor => ConvInv'
<1> SUFFICES ASSUME ConvInv, AppToHor PROVE ConvInv'
  OBVIOUS
<1>1. InFrame /\ Begun /\ pos.word = PlaceIn(pos.sys) /\ pos.sys \in Systems
  BY DEF AppToHor, InFrame, ConvInv, DirectionRight
<1>2. RememberedRight' /\ lp' = lp
  BY <1>1, ConvertRemembers DEF AppToHor
<1>3. /\ Leg(PlaceIn(pos.sys), FrameToItrs[pos.sys], PlaceIn("ITRS"))
      /\ Rung(PlaceIn("ITRS"), Horizon, PlaceIn("HOR"))
  BY <1>1, FrameWords, Zenon
<1>4. Forth(pos.word, Append(FrameToItrs[pos.sys], Horizon)) = PlaceIn("HOR")
  <2> DEFINE way == Append(FrameToItrs[pos.sys], Horizon)
  <2>1. Leg(PlaceIn(pos.sys), way, PlaceIn("HOR"))
    BY <1>3, LegAppend
  <2> HIDE DEF way
  <2>2. Forth(PlaceIn(pos.sys), way) = PlaceIn("HOR")
    BY <2>1, LegTyped
  <2> QED
    BY <1>1, <2>2 DEF way
<1>5. Moved("HOR", Forth(pos.word, Append(FrameToItrs[pos.sys], Horizon)))
  BY DEF AppToHor
<1> QED
  BY <1>1, <1>2, <1>4, <1>5, MovedArrives DEF ConvInv

LEMMA FromHorStep == ConvInv /\ HorToApp => ConvInv'
<1> SUFFICES ASSUME ConvInv, HorToApp PROVE ConvInv'
  OBVIOUS
<1>1. InFrame /\ Begun /\ pos.word = PlaceIn("HOR")
  BY DEF HorToApp, InFrame, ConvInv, DirectionRight
<1>2. RememberedRight' /\ lp' = lp
  BY <1>1, ConvertRemembers DEF HorToApp
<1> DEFINE itrs == Turn(pos.word, Undo(Horizon))
           tirs == Turn(itrs, Undo(FWobble))
           spun(sys) == IF Index[sys] < 0 THEN Sidereal(F.t, F.tilt) ELSE <<Era(F.t)>>
           rest == [TOD |-> <<>>, MOD |-> <<FNut>>, J2000 |-> Append(FPrec, FNut), CIRS |-> <<>>,
                    ICRS |-> ToGcrsToCirs, GCRS |-> ToGcrsToCirs]
           word(sys) == IF sys = "ITRS" THEN itrs
                        ELSE IF sys = "TIRS" THEN tirs
                        ELSE Back(Back(tirs, spun(sys)), rest[sys])
<1>3. PICK sys \in Systems : Moved(sys, word(sys))
  BY Zenon DEF HorToApp
<1>4. /\ Rung(PlaceIn("ITRS"), Horizon, PlaceIn("HOR")) /\ Rung(PlaceIn("TIRS"), FWobble, PlaceIn("ITRS"))
      /\ Rung(PlaceIn("CIRS"), Era(F.t), PlaceIn("TIRS")) /\ Rung(PlaceIn("MOD"), FNut, PlaceIn("TOD"))
      /\ Leg(PlaceIn("TOD"), Sidereal(F.t, F.tilt), PlaceIn("TIRS"))
      /\ Leg(PlaceIn("J2000"), Append(FPrec, FNut), PlaceIn("TOD"))
      /\ Leg(PlaceIn("GCRS"), ToGcrsToCirs, PlaceIn("CIRS"))
  BY <1>1, FrameWords, Zenon
<1>5. PlaceIn("ICRS") = PlaceIn("GCRS")
  BY <1>1, PlaceRungs, Zenon
<1>6. itrs = PlaceIn("ITRS") /\ tirs = PlaceIn("TIRS")
  <2>1. /\ Turn(PlaceIn("HOR"), Undo(Horizon)) = PlaceIn("ITRS")
        /\ Turn(PlaceIn("ITRS"), Undo(FWobble)) = PlaceIn("TIRS")
    BY <1>4, RungTyped
  <2> QED
    BY <1>1, <2>1
<1>7. /\ Back(PlaceIn("TIRS"), Sidereal(F.t, F.tilt)) = PlaceIn("TOD")
      /\ Back(PlaceIn("TIRS"), <<Era(F.t)>>) = PlaceIn("CIRS")
      /\ Back(PlaceIn("TOD"), <<>>) = PlaceIn("TOD") /\ Back(PlaceIn("CIRS"), <<>>) = PlaceIn("CIRS")
      /\ Back(PlaceIn("TOD"), <<FNut>>) = PlaceIn("MOD")
      /\ Back(PlaceIn("TOD"), Append(FPrec, FNut)) = PlaceIn("J2000")
      /\ Back(PlaceIn("CIRS"), ToGcrsToCirs) = PlaceIn("GCRS")
  <2>1. PlaceIn("TOD") \in Seq(AnyTurn) /\ PlaceIn("CIRS") \in Seq(AnyTurn)
    BY <1>4, RungTyped, LegTyped, AheadSeq
  <2>2. Back(PlaceIn("TOD"), <<>>) = PlaceIn("TOD") /\ Back(PlaceIn("CIRS"), <<>>) = PlaceIn("CIRS")
    BY <2>1, ForthNone DEF Back
  <2>3. Back(PlaceIn("TIRS"), <<Era(F.t)>>) = PlaceIn("CIRS") /\ Back(PlaceIn("TOD"), <<FNut>>) = PlaceIn("MOD")
    BY <1>4, RungTyped
  <2>4. /\ Back(PlaceIn("TIRS"), Sidereal(F.t, F.tilt)) = PlaceIn("TOD")
        /\ Back(PlaceIn("TOD"), Append(FPrec, FNut)) = PlaceIn("J2000")
        /\ Back(PlaceIn("CIRS"), ToGcrsToCirs) = PlaceIn("GCRS")
    BY <1>4, LegTyped
  <2> QED
    BY <2>2, <2>3, <2>4
<1>8. /\ rest["TOD"] = <<>> /\ rest["MOD"] = <<FNut>> /\ rest["J2000"] = Append(FPrec, FNut)
      /\ rest["CIRS"] = <<>> /\ rest["ICRS"] = ToGcrsToCirs /\ rest["GCRS"] = ToGcrsToCirs
  BY Zenon
<1>9. /\ spun("TOD") = Sidereal(F.t, F.tilt) /\ spun("MOD") = Sidereal(F.t, F.tilt)
      /\ spun("J2000") = Sidereal(F.t, F.tilt)
      /\ spun("CIRS") = <<Era(F.t)>> /\ spun("ICRS") = <<Era(F.t)>> /\ spun("GCRS") = <<Era(F.t)>>
  <2>1. /\ Index["TOD"] < 0 /\ Index["MOD"] < 0 /\ Index["J2000"] < 0
        /\ ~(Index["CIRS"] < 0) /\ ~(Index["ICRS"] < 0) /\ ~(Index["GCRS"] < 0)
    BY DEF Index
  <2> QED
    BY <2>1, Zenon
<1> HIDE DEF itrs, tirs, spun, rest
<1>10. word(sys) = PlaceIn(sys)
  <2>1. sys \in {"GCRS", "ICRS", "J2000", "MOD", "TOD", "CIRS", "TIRS", "ITRS"}
    BY <1>3 DEF Systems, Celestial
  <2> QED
    BY <1>5, <1>6, <1>7, <1>8, <1>9, <2>1
<1> HIDE DEF word
<1> QED
  BY <1>1, <1>2, <1>3, <1>10, MovedArrives DEF ConvInv

LEMMA TransformStep == ConvInv /\ TransformTo => ConvInv'
<1> SUFFICES ASSUME ConvInv, TransformTo PROVE ConvInv'
  OBVIOUS
<1>1. InFrame /\ Begun /\ pos.word = PlaceIn(pos.sys) /\ pos.sys \in Systems
  BY DEF TransformTo, InFrame, ConvInv, DirectionRight
<1>2. RememberedRight' /\ lp' = lp
  BY <1>1, ConvertRemembers DEF TransformTo
<1>3. PICK sys \in Systems : Moved(sys, Transform(pos.word, pos.sys, sys))
  BY DEF TransformTo
<1>4. Transform(pos.word, pos.sys, sys) = PlaceIn(sys)
  BY <1>1, FrameWords, Zenon
<1> QED
  BY <1>1, <1>2, <1>3, <1>4, MovedArrives DEF ConvInv

LEMMA ConvStep == ASSUME NoApparentItrs PROVE ConvInv /\ [ConvNext]_convVars => ConvInv'
<1>1. CASE UNCHANGED convVars
  BY <1>1 DEF convVars, ConvInv, RememberedRight, DirectionRight, Begun, PlaceIn, TiltOf, By
<1> QED
  BY <1>1, BeginStep, PoleStep, SiderealStep, IcrsStep, TodStep, DateStep, EraStep, GstStep, HorizonStep,
     EclipticStep, GalacticStep, UseFrameStep, GeomStep, AppStep, ToHorStep, FromHorStep, TransformStep
     DEF ConvNext

\* Where it should be is what the definitions of the systems say.
LEMMA PlaceIsImage == ImageOfPos = PlaceIn(pos.sys)
  BY DEF ImageOfPos, PlaceIn, Word, Seen, TiltOf, By

\* What transform.c, system.c and frames.c make of a direction of the sky is where
\* the definition of the system they took it to puts it.
THEOREM CelestialRight == ASSUME NoApparentItrs PROVE ConvSpec => []CelestialImage
<1>1. ConvInv => CelestialImage
  BY PlaceIsImage DEF ConvInv, DirectionRight, CelestialImage
<1> QED
  BY <1>1, InitConv, ConvStep, PTL DEF ConvSpec

\* So it is on the rotating Earth, by whichever of the sidereal time and the Earth
\* rotation angle cel2ter(), equ2hor() and the functions of frames go, as long as
\* novas_gast() remembers no sidereal time from before cel_pole().
THEOREM EarthRight == ASSUME NoApparentItrs PROVE ConvSpec => []EarthImage
<1>1. ConvInv => EarthImage
  BY PlaceIsImage DEF ConvInv, DirectionRight, EarthImage
<1> QED
  BY <1>1, InitConv, ConvStep, PTL DEF ConvSpec

=============================================================================
