--------------------------- MODULE IersEopProofs ---------------------------
(***************************************************************************)
(* Proofs about IersEop, for any number of threads and of configuration    *)
(* changes, any dates and URLs, and any contents of the files.             *)
(***************************************************************************)
EXTENDS IersEop, TLAPS

(* What the types of the steps rest on: a thread that waits for a reply has *)
(* named a URL in its request, and one that has come to check the dates of  *)
(* its rows has four of them.                                               *)
RequestNamed == \A p \in Proc : pc[p] \in Transferring \cup {"parse"} => arg[p].req.url \in Url

HasRows(p) == pc[p] = "check" \/ (pc[p] = "sync" /\ arg[p].ok)

RowsFilled == \A p \in Proc : HasRows(p) => \A i \in Step : tl[p].rows[i] \in Row

TypeInv == TypeOK /\ RequestNamed /\ RowsFilled

\* The offset in a reply from its start that holds rows, and the row found at
\* any offset of it, are what the state variables may hold.
LEMMA RowAtType == ASSUME NEW u \in Url, NEW off \in Int
                   PROVE  RowAt(u, off) \in Row \cup {NoRow}
BY ServedAssumption, ConstantAssumption DEF RowAt, Row

LEMMA GetEopUrlType == ASSUME TypeOK, NEW s \in Series PROVE GetEopUrl(s) \in Url
BY ConstantAssumption DEF TypeOK, GetEopUrl

LEMMA SeriesOfType == \A f \in File : SeriesOf(f) \in Series
BY DEF File, Series, SeriesOf

LEMMA NoArgType == NoArg \in Arg
BY DEF NoArg, Arg, File, Request

LEMMA OffsetType == ASSUME NEW f \in File, NEW h \in Int, NEW jd \in Int
                    PROVE  Offset(f, h, jd) \in Int
BY ConstantAssumption DEF Offset

\* Every reply a thread may see is to a request that names a URL.
LEMMA RepliesType ==
    ASSUME TypeOK, RequestNamed, NEW p \in Proc, pc[p] \in Transferring, NEW r \in Replies(p)
    PROVE  r \in Request /\ r.url \in Url
<1>1. PICK q \in {p} \cup Others(p, arg[p].file) : r = arg[q].req
  BY DEF Replies
<1>2. q \in Proc /\ pc[q] \in Transferring
  BY <1>1 DEF Others
<1> QED
  BY <1>1, <1>2 DEF TypeOK, RequestNamed, Arg

LEMMA HeadSeenType ==
    ASSUME NEW f \in File, NEW r \in Request, r.url \in Url
    PROVE  HeadSeen(f, r) \in Int
BY ServedAssumption, ConstantAssumption DEF HeadSeen, FirstOffset, StartLine, Request

\* Between them the actions of Next are these.
LEMMA Steps ==
    ASSUME [Next]_vars
    PROVE  \/ \E p \in Proc : \E jd \in Jd : FetchHit(p, jd) \/ FetchTooEarly(p, jd) \/ FetchMiss(p, jd)
           \/ \E p \in Proc : FetchStep(p) \/ ConfigStep(p)
           \/ \E p \in Proc : \E s \in DOMAIN CustomUrl :
                \E u \in CustomUrl[s] \cup {NoUrl} : \E y \in Year : SetEopUrl(p, s, u, y)
           \/ \E p \in Proc : SetLeapUrl(p) \/ ResetEop(p)
           \/ UNCHANGED vars
BY DEF Next, Call

LEMMA InitTypeInv == Init => TypeInv
<1> SUFFICES ASSUME Init PROVE TypeInv
  OBVIOUS
<1>1. TypeOK
  BY NoArgType, ConstantAssumption
  DEF Init, TypeOK, Bracket, Step, Pc, Locked, Series, File, Url, DefaultYear
<1>2. RequestNamed /\ RowsFilled
  BY <1>1 DEF Init, RequestNamed, RowsFilled, HasRows, Transferring
<1> QED
  BY <1>1, <1>2 DEF TypeInv

LEMMA NextTypeInv == TypeInv /\ [Next]_vars => TypeInv'
<1> SUFFICES ASSUME TypeInv, [Next]_vars PROVE TypeInv'
  OBVIOUS
<1> USE DEF TypeInv
<1>1. ASSUME NEW p \in Proc, NEW jd \in Jd, FetchHit(p, jd)
      PROVE  TypeInv'
  <2>1. TypeOK'
    BY <1>1, ConstantAssumption DEF FetchHit, TypeOK, Arg
  <2>2. RequestNamed' /\ RowsFilled'
    BY <1>1 DEF FetchHit, TypeOK, Arg, RequestNamed, RowsFilled, HasRows
  <2> QED
    BY <2>1, <2>2
<1>2. ASSUME NEW p \in Proc, NEW jd \in Jd, FetchTooEarly(p, jd)
      PROVE  TypeInv'
  <2>1. TypeOK'
    BY <1>2, ConstantAssumption DEF FetchTooEarly, TypeOK, Arg, Bracket, Step
  <2>2. RequestNamed'
    BY <1>2 DEF FetchTooEarly, TypeOK, Arg, RequestNamed
  <2>3. RowsFilled'
    BY <1>2 DEF FetchTooEarly, TypeOK, Arg, Bracket, RowsFilled, HasRows
  <2> QED
    BY <2>1, <2>2, <2>3
<1>3. ASSUME NEW p \in Proc, NEW jd \in Jd, FetchMiss(p, jd)
      PROVE  TypeInv'
  <2>1. TypeOK'
    BY <1>3, NoArgType, ConstantAssumption DEF FetchMiss, TypeOK, Arg, Pc
  <2>2. RequestNamed' /\ RowsFilled'
    BY <1>3 DEF FetchMiss, TypeOK, RequestNamed, RowsFilled, HasRows, Transferring
  <2> QED
    BY <2>1, <2>2
<1>4. ASSUME NEW p \in Proc, LockEop(p)
      PROVE  TypeInv'
  <2>1. TypeOK'
    BY <1>4, ConstantAssumption DEF LockEop, TypeOK, Pc, Locked
  <2>2. RequestNamed'
    BY <1>4, ConstantAssumption DEF LockEop, TypeOK, RequestNamed, Pc, Locked, Transferring
  <2>3. RowsFilled'
    BY <1>4 DEF LockEop, TypeOK, RowsFilled, HasRows, Pc, Locked
  <2> QED
    BY <2>1, <2>2, <2>3
<1>5. ASSUME NEW p \in Proc, HeadKnown(p)
      PROVE  TypeInv'
  <2>1. TypeOK'
    BY <1>5, OffsetType, ConstantAssumption DEF HeadKnown, TypeOK, UnlockWithOffset, Arg, Request, Pc, Locked
  <2>2. RequestNamed'
    BY <1>5, OffsetType, ConstantAssumption DEF HeadKnown, TypeOK, RequestNamed, UnlockWithOffset, Arg, Request, Pc, Locked, Transferring
  <2>3. RowsFilled'
    BY <1>5 DEF HeadKnown, TypeOK, RowsFilled, HasRows, UnlockWithOffset, Arg, Request, Pc, Locked
  <2> QED
    BY <2>1, <2>2, <2>3
<1>6. ASSUME NEW p \in Proc, HeadUnknown(p)
      PROVE  TypeInv'
  <2> DEFINE req == [url |-> GetEopUrl(SeriesOf(arg[p].file)), off |-> 0]
  <2>1. /\ arg[p] \in Arg /\ arg[p].file \in File
        /\ req \in Request /\ req.url \in Url
    BY GetEopUrlType, SeriesOfType DEF TypeOK, Arg, Request
  <2>2. /\ pc' = [pc EXCEPT ![p] = "checkout"]
        /\ curl' = [curl EXCEPT ![arg[p].file] = TRUE]
        /\ arg' = [arg EXCEPT ![p].req = req]
        /\ UNCHANGED <<urls, itrf, urlVersion, head, lock, out, tl, spoiled, since>>
    BY <1>6 DEF HeadUnknown
  <2> HIDE DEF req
  <2>3. TypeOK'
    BY <2>1, <2>2 DEF TypeOK, Arg, Pc, Locked
  <2>4. RequestNamed'
    BY <2>1, <2>2 DEF TypeOK, RequestNamed, Arg, Transferring
  <2>5. RowsFilled'
    BY <2>1, <2>2 DEF TypeOK, RowsFilled, HasRows, Arg
  <2> QED
    BY <2>3, <2>4, <2>5
<1>7. ASSUME NEW p \in Proc, CheckoutOk(p)
      PROVE  TypeInv'
  <2>1. PICK r \in Replies(p) :
          /\ head' = [head EXCEPT ![arg[p].file] = HeadSeen(arg[p].file, r)]
          /\ UnlockWithOffset(p, HeadSeen(arg[p].file, r))
    BY <1>7 DEF CheckoutOk
  <2>2. arg[p] \in Arg /\ arg[p].file \in File /\ arg[p].jd \in Int
    BY DEF TypeOK, Arg
  <2>3. HeadSeen(arg[p].file, r) \in Int
    BY <1>7, <2>2, RepliesType, HeadSeenType DEF CheckoutOk, Transferring
  <2>4. Offset(arg[p].file, HeadSeen(arg[p].file, r), arg[p].jd) \in Int
    BY <2>2, <2>3, OffsetType
  <2>5. TypeOK'
    BY <1>7, <2>1, <2>2, <2>3, <2>4 DEF CheckoutOk, UnlockWithOffset, TypeOK, Arg, Request, Pc
  <2>6. RequestNamed'
    BY <1>7, <2>1 DEF CheckoutOk, UnlockWithOffset, TypeOK, RequestNamed, Arg, Transferring
  <2>7. RowsFilled'
    BY <1>7, <2>1 DEF CheckoutOk, UnlockWithOffset, TypeOK, RowsFilled, HasRows, Arg
  <2> QED
    BY <2>5, <2>6, <2>7
<1>8. ASSUME NEW p \in Proc, CheckoutFails(p)
      PROVE  TypeInv'
  <2>1. TypeOK'
    BY <1>8, ConstantAssumption DEF CheckoutFails, TypeOK, Arg, Pc
  <2>2. RequestNamed'
    BY <1>8, ConstantAssumption DEF CheckoutFails, TypeOK, RequestNamed, Arg, Pc, Transferring
  <2>3. RowsFilled'
    BY <1>8 DEF CheckoutFails, TypeOK, RowsFilled, HasRows, Arg, Pc
  <2> QED
    BY <2>1, <2>2, <2>3
<1>9. ASSUME NEW p \in Proc, StartTransfer(p)
      PROVE  TypeInv'
  <2>1. TypeOK'
    BY <1>9, GetEopUrlType, SeriesOfType, ConstantAssumption DEF StartTransfer, TypeOK, Arg, Request, Pc
  <2>2. RequestNamed'
    BY <1>9, GetEopUrlType, SeriesOfType, ConstantAssumption DEF StartTransfer, TypeOK, RequestNamed, Arg, Request, Pc, Transferring
  <2>3. RowsFilled'
    BY <1>9 DEF StartTransfer, TypeOK, RowsFilled, HasRows, Arg, Request, Pc
  <2> QED
    BY <2>1, <2>2, <2>3
<1>10. ASSUME NEW p \in Proc, TransferOk(p)
      PROVE  TypeInv'
  <2>1. TypeOK'
    BY <1>10, RepliesType, ConstantAssumption DEF TransferOk, TypeOK, Arg, Pc, Transferring
  <2>2. RequestNamed'
    BY <1>10, RepliesType, ConstantAssumption DEF TransferOk, TypeOK, RequestNamed, Arg, Pc, Transferring
  <2>3. RowsFilled'
    BY <1>10 DEF TransferOk, TypeOK, RowsFilled, HasRows, Arg, Pc, Transferring
  <2> QED
    BY <2>1, <2>2, <2>3
<1>11. ASSUME NEW p \in Proc, TransferFails(p)
      PROVE  TypeInv'
  <2>1. TypeOK'
    BY <1>11, ConstantAssumption DEF TransferFails, TypeOK, Arg, Pc
  <2>2. RequestNamed'
    BY <1>11, ConstantAssumption DEF TransferFails, TypeOK, RequestNamed, Arg, Pc, Transferring
  <2>3. RowsFilled'
    BY <1>11 DEF TransferFails, TypeOK, RowsFilled, HasRows, Arg, Pc
  <2> QED
    BY <2>1, <2>2, <2>3
<1>12. ASSUME NEW p \in Proc, FetchMisaligned(p)
      PROVE  TypeInv'
  <2>1. TypeOK'
    BY <1>12, NoArgType DEF FetchMisaligned, TypeOK, Return, Arg, Pc
  <2>2. RequestNamed'
    BY <1>12, NoArgType DEF FetchMisaligned, TypeOK, RequestNamed, Return, Arg, Pc, Transferring
  <2>3. RowsFilled'
    BY <1>12 DEF FetchMisaligned, TypeOK, RowsFilled, HasRows, Return, Arg, Pc
  <2> QED
    BY <2>1, <2>2, <2>3
<1>13. ASSUME NEW p \in Proc, ValidateOk(p)
      PROVE  TypeInv'
  <2>1. TypeOK'
    BY <1>13, RepliesType, HeadSeenType, NoArgType, ConstantAssumption DEF ValidateOk, TypeOK, Return, Arg, Pc, Transferring
  <2>2. RequestNamed'
    BY <1>13, RepliesType, HeadSeenType, NoArgType, ConstantAssumption DEF ValidateOk, TypeOK, RequestNamed, Return, Arg, Pc, Transferring
  <2>3. RowsFilled'
    BY <1>13 DEF ValidateOk, TypeOK, RowsFilled, HasRows, Return, Arg, Pc, Transferring
  <2> QED
    BY <2>1, <2>2, <2>3
<1>14. ASSUME NEW p \in Proc, ValidateFails(p)
      PROVE  TypeInv'
  <2>1. TypeOK'
    BY <1>14, NoArgType, ConstantAssumption DEF ValidateFails, TypeOK, Return, Arg, Pc
  <2>2. RequestNamed'
    BY <1>14, NoArgType, ConstantAssumption DEF ValidateFails, TypeOK, RequestNamed, Return, Arg, Pc, Transferring
  <2>3. RowsFilled'
    BY <1>14 DEF ValidateFails, TypeOK, RowsFilled, HasRows, Return, Arg, Pc
  <2> QED
    BY <2>1, <2>2, <2>3
<1>15. ASSUME NEW p \in Proc, ParseRows(p)
       PROVE  TypeInv'
  <2> DEFINE row(i) == RowAt(arg[p].req.url, arg[p].req.off + i * LineLen)
  <2>1. arg[p].req.url \in Url /\ arg[p].req.off \in Int
    BY <1>15 DEF ParseRows, TypeOK, RequestNamed, Arg, Request
  <2>2. \A i \in Step : row(i) \in Row \cup {NoRow}
    <3>1. \A i \in Step : arg[p].req.off + i * LineLen \in Int
      BY <2>1, ConstantAssumption DEF Step
    <3> QED
      BY <2>1, <3>1, RowAtType
  <2>3. PICK n \in 0 .. 4 :
          /\ \A i \in Step : i < n => row(i) # NoRow
          /\ tl' = [tl EXCEPT ![p].rows =
                       [i \in Step |-> IF i < n THEN row(i)
                                       ELSE IF i = n THEN NoRow ELSE tl[p].rows[i]]]
          /\ arg' = [arg EXCEPT ![p].ok = (n = 4)]
    BY <1>15 DEF ParseRows
  <2> HIDE DEF row
  <2>4. [i \in Step |-> IF i < n THEN row(i) ELSE IF i = n THEN NoRow ELSE tl[p].rows[i]]
          \in [Step -> Row \cup {NoRow}]
    BY <2>2 DEF TypeOK, Bracket
  <2>5. TypeOK'
    <3>1. tl' \in [Proc -> Bracket]
      BY <2>3, <2>4 DEF TypeOK, Bracket
    <3>2. arg' \in [Proc -> Arg]
      <4> DEFINE complete == n = 4
      <4>1. complete \in BOOLEAN /\ arg' = [arg EXCEPT ![p].ok = complete]
        BY <2>3
      <4> HIDE DEF complete
      <4> QED
        BY <4>1 DEF TypeOK, Arg
    <3> QED
      BY <1>15, <3>1, <3>2 DEF ParseRows, TypeOK, Pc
  <2>6. RequestNamed'
    BY <1>15, <2>3 DEF ParseRows, TypeOK, RequestNamed, Arg, Transferring
  <2>7. RowsFilled'
    <3> SUFFICES ASSUME NEW q \in Proc, HasRows(q)', NEW i \in Step
                 PROVE  tl'[q].rows[i] \in Row
      BY DEF RowsFilled
    <3>1. CASE q = p
      <4>1. n = 4
        BY <1>15, <2>3, <3>1 DEF ParseRows, HasRows, TypeOK, Arg
      <4>2. tl'[p].rows[i] = row(i) /\ row(i) # NoRow
        BY <2>3, <4>1 DEF TypeOK, Bracket, Step
      <4> QED
        BY <2>2, <3>1, <4>2
    <3>2. CASE q # p
      BY <1>15, <2>3, <3>2 DEF ParseRows, HasRows, TypeOK, RowsFilled
    <3> QED
      BY <3>1, <3>2
  <2> QED
    BY <2>5, <2>6, <2>7
<1>16. ASSUME NEW p \in Proc, Sync(p)
       PROVE  TypeInv'
  <2>1. head' \in [File -> Int]
    BY <1>16, ConstantAssumption DEF Sync, SyncHeads, TypeOK, File
  <2>2. TypeOK'
    <3>1. CASE arg[p].ok
      BY <1>16, <2>1, <3>1 DEF Sync, TypeOK, Pc
    <3>2. CASE ~arg[p].ok
      <4>1. arg[p].jd \in Int
        BY DEF TypeOK, Arg
      <4>2. [NoArg EXCEPT !.jd = arg[p].jd] \in Arg
        BY <4>1, NoArgType DEF Arg
      <4> QED
        BY <1>16, <2>1, <3>2, <4>2 DEF Sync, Return, TypeOK, Pc
    <3> QED
      BY <3>1, <3>2
  <2>3. RequestNamed'
    BY <1>16 DEF Sync, Return, TypeOK, RequestNamed, Arg, Transferring
  <2>4. RowsFilled'
    BY <1>16 DEF Sync, Return, TypeOK, RowsFilled, HasRows, Arg
  <2> QED
    BY <2>2, <2>3, <2>4
<1>17. ASSUME NEW p \in Proc, FetchAligned(p)
       PROVE  TypeInv'
  <2>1. tl[p].rows[1].jd \in Int /\ tl[p].rows[2].jd \in Int
    BY <1>17 DEF FetchAligned, RowsFilled, HasRows, Step, Row
  <2>2. tl' \in [Proc -> Bracket]
    <3> DEFINE new == [tl[p] EXCEPT !.from = tl[p].rows[1].jd, !.to = tl[p].rows[2].jd,
                                    !.version = urlVersion]
    <3>1. tl' = [tl EXCEPT ![p] = new]
      BY <1>17 DEF FetchAligned, TypeOK
    <3>2. tl[p] \in Bracket /\ urlVersion \in Int
      BY DEF TypeOK
    <3>3. new \in Bracket
      BY <2>1, <3>2 DEF Bracket
    <3> QED
      BY <3>1, <3>3 DEF TypeOK
  <2>3. TypeOK'
    BY <1>17, <2>2, NoArgType DEF FetchAligned, Return, TypeOK, Arg, Pc
  <2>4. RequestNamed'
    BY <1>17 DEF FetchAligned, Return, TypeOK, RequestNamed, Transferring
  <2>5. RowsFilled'
    BY <1>17 DEF FetchAligned, Return, TypeOK, RowsFilled, HasRows, Bracket
  <2> QED
    BY <2>3, <2>4, <2>5
<1>18. ASSUME NEW p \in Proc, NEW s \in DOMAIN CustomUrl, NEW u \in CustomUrl[s] \cup {NoUrl},
              NEW y \in Year, SetEopUrl(p, s, u, y)
       PROVE  TypeInv'
  <2> DEFINE named == IF u = NoUrl THEN DefaultUrl[s] ELSE u
  <2>1. /\ s \in Series /\ s \in File
        /\ u \in Url \cup {NoUrl} /\ named \in Url
    BY ConstantAssumption DEF Series, File, Url
  <2>2. HeadsAfterCleanup({f \in File : SeriesOf(f) = s}) \in [File -> Int]
    BY DEF HeadsAfterCleanup, TypeOK
  <2>3. since' \in [Series -> SUBSET Url]
    BY <1>18, <2>1, GetEopUrlType DEF SetEopUrl
  <2>4. arg' = [arg EXCEPT ![p] = [NoArg EXCEPT !.file = s, !.req.url = named]]
    BY <1>18 DEF SetEopUrl
  <2>5. [NoArg EXCEPT !.file = s, !.req.url = named] \in Arg
    BY <2>1, NoArgType DEF Arg, Request
  <2>6. TypeOK'
    BY <1>18, <2>1, <2>2, <2>3, <2>4, <2>5, ConstantAssumption
    DEF SetEopUrl, NextVersion, TypeOK, Pc, Locked, DefaultYear
  <2>7. RequestNamed'
    BY <1>18, <2>1, <2>4, NoArgType DEF SetEopUrl, TypeOK, RequestNamed, Arg, Request, Transferring
  <2>8. RowsFilled'
    BY <1>18, <2>4 DEF SetEopUrl, TypeOK, RowsFilled, HasRows
  <2> QED
    BY <2>6, <2>7, <2>8
<1>19. ASSUME NEW p \in Proc, SetLeapUrl(p)
       PROVE  TypeInv'
  <2>1. TypeOK'
    BY <1>19, GetEopUrlType DEF SetLeapUrl, NextVersion, TypeOK
  <2>2. RequestNamed' /\ RowsFilled'
    BY <1>19 DEF SetLeapUrl, RequestNamed, RowsFilled, HasRows
  <2> QED
    BY <2>1, <2>2
<1>20. ASSUME NEW p \in Proc, ResetEop(p)
       PROVE  TypeInv'
  <2>1. TypeOK'
    BY <1>20, ConstantAssumption DEF ResetEop, HeadsAfterCleanup, TypeOK
  <2>2. RequestNamed' /\ RowsFilled'
    BY <1>20 DEF ResetEop, RequestNamed, RowsFilled, HasRows
  <2> QED
    BY <2>1, <2>2
<1>21. CASE UNCHANGED vars
  <2>1. TypeOK'
    BY <1>21 DEF vars, TypeOK
  <2>2. RequestNamed' /\ RowsFilled'
    BY <1>21 DEF vars, RequestNamed, RowsFilled, HasRows
  <2> QED
    BY <2>1, <2>2
<1> QED
  BY Steps, <1>1, <1>2, <1>3, <1>4, <1>5, <1>6, <1>7, <1>8, <1>9, <1>10, <1>11, <1>12, <1>13,
     <1>14, <1>15, <1>16, <1>17, <1>18, <1>19, <1>20, <1>21 DEF FetchStep, ConfigStep

\* The variables keep their types, whatever the constants.
THEOREM TypeCorrect == Spec => []TypeOK
<1>1. TypeInv => TypeOK
  BY DEF TypeInv
<1> QED
  BY <1>1, InitTypeInv, NextTypeInv, PTL DEF Spec

(* eop_mutex. *)

LEMMA InitLockDiscipline == Init => LockDiscipline
BY ConstantAssumption DEF Init, LockDiscipline, Locked

LEMMA NextLockDiscipline == TypeOK /\ LockDiscipline /\ [Next]_vars => LockDiscipline'
<1> SUFFICES ASSUME TypeOK, LockDiscipline, [Next]_vars PROVE LockDiscipline'
  OBVIOUS
<1> USE ConstantAssumption DEF TypeOK, LockDiscipline, Locked
\* The steps that take the mutex find it free.
<1>1. ASSUME NEW p \in Proc, LockEop(p)
      PROVE  LockDiscipline'
  BY <1>1 DEF LockEop
<1>2. ASSUME NEW p \in Proc, NEW s \in DOMAIN CustomUrl, NEW u \in CustomUrl[s] \cup {NoUrl},
             NEW y \in Year, SetEopUrl(p, s, u, y)
      PROVE  LockDiscipline'
  BY <1>2 DEF SetEopUrl
\* The steps that release it are taken by its owner.
<1>3. ASSUME NEW p \in Proc,
             HeadKnown(p) \/ CheckoutOk(p) \/ CheckoutFails(p) \/ ValidateOk(p) \/ ValidateFails(p)
      PROVE  LockDiscipline'
  <2>1. /\ pc[p] \in Locked /\ lock' = NoProc
        /\ \E label \in {"fetch", "sync", "idle"} : pc' = [pc EXCEPT ![p] = label]
    BY <1>3 DEF HeadKnown, CheckoutOk, CheckoutFails, ValidateOk, ValidateFails,
                UnlockWithOffset, Return
  <2> QED
    BY <2>1
\* The others leave it alone.
<1>4. ASSUME NEW p \in Proc, HeadUnknown(p)
      PROVE  LockDiscipline'
  BY <1>4 DEF HeadUnknown
<1>5. ASSUME NEW p \in Proc,
             \/ StartTransfer(p) \/ TransferOk(p) \/ TransferFails(p)
             \/ ParseRows(p) \/ Sync(p) \/ FetchAligned(p) \/ FetchMisaligned(p)
             \/ \E jd \in Jd : FetchMiss(p, jd)
      PROVE  LockDiscipline'
  <2>1. /\ lock' = lock /\ pc[p] \notin Locked
        /\ \E label \in {"idle", "lock", "perform", "parse", "sync", "check"} :
              pc' = [pc EXCEPT ![p] = label]
    BY <1>5 DEF StartTransfer, TransferOk, TransferFails, ParseRows, Sync, FetchAligned,
                FetchMisaligned, FetchMiss, Return
  <2> QED
    BY <2>1
<1>6. ASSUME \/ UNCHANGED vars
             \/ \E p \in Proc : \/ SetLeapUrl(p) \/ ResetEop(p)
                                \/ \E jd \in Jd : FetchHit(p, jd) \/ FetchTooEarly(p, jd)
      PROVE  LockDiscipline'
  <2>1. UNCHANGED <<pc, lock>>
    BY <1>6 DEF vars, SetLeapUrl, ResetEop, FetchHit, FetchTooEarly
  <2> QED
    BY <2>1
<1> QED
  BY Steps, <1>1, <1>2, <1>3, <1>4, <1>5, <1>6 DEF FetchStep, ConfigStep

\* eop_mutex is held exactly in the critical sections, for any number of threads.
THEOREM LockDisciplined == Spec => []LockDiscipline
BY TypeCorrect, InitLockDiscipline, NextLockDiscipline, PTL DEF Spec

----------------------------------------------------------------------------
(* What novas_fetch_eop() interpolates. *)

LEMMA RowAtOffset ==
    ASSUME NEW u \in Url, NEW off \in Int, RowAt(u, off) # NoRow
    PROVE  /\ RowAt(u, off) = [url |-> u, jd |-> RowAt(u, off).jd]
           /\ RowAt(u, off).jd \in Int
           /\ off = Served[u].header + (RowAt(u, off).jd - Served[u].first) * LineLen
<1> DEFINE k == (off - Served[u].header) \div LineLen
<1>1. /\ Served[u].header \in Int /\ Served[u].first \in Int /\ LineLen \in Nat \ {0}
  BY ServedAssumption, ConstantAssumption
<1>2. k \in Int
  BY <1>1
<1>3. Served[u].header + k * LineLen = off /\ RowAt(u, off) = [url |-> u, jd |-> Served[u].first + k]
  BY DEF RowAt
<1> HIDE DEF k
<1>4. RowAt(u, off).jd - Served[u].first = k
  BY <1>1, <1>2, <1>3
<1> QED
  BY <1>1, <1>2, <1>3, <1>4

\* Requests for consecutive rows are answered by consecutive rows.
LEMMA RowsConsecutive ==
    ASSUME NEW u \in Url, NEW off \in Int, NEW i \in Step,
           RowAt(u, off) # NoRow, RowAt(u, off + i * LineLen) # NoRow
    PROVE  RowAt(u, off + i * LineLen) = [url |-> u, jd |-> RowAt(u, off).jd + i]
<1> DEFINE a == RowAt(u, off)
           b == RowAt(u, off + i * LineLen)
           h == Served[u].header
           d == Served[u].first
<1>1. /\ h \in Int /\ d \in Int /\ LineLen \in Int /\ LineLen # 0 /\ i \in Int
      /\ off + i * LineLen \in Int
  BY ServedAssumption, ConstantAssumption DEF Step
<1>2. a.jd \in Int /\ off = h + (a.jd - d) * LineLen
  BY RowAtOffset
<1>3. b.jd \in Int /\ off + i * LineLen = h + (b.jd - d) * LineLen /\ b = [url |-> u, jd |-> b.jd]
  BY <1>1, RowAtOffset
<1>4. \A x, y \in Int : /\ off = h + (x - d) * LineLen
                         /\ off + i * LineLen = h + (y - d) * LineLen
                        => y = x + i
  <2> HIDE DEF h, d
  <2> SUFFICES ASSUME NEW x \in Int, NEW y \in Int, off = h + (x - d) * LineLen,
                      off + i * LineLen = h + (y - d) * LineLen
               PROVE  y = x + i
    OBVIOUS
  <2> DEFINE k == x - d
             m == y - d
  <2>1. k \in Int /\ m \in Int /\ off = h + k * LineLen /\ off + i * LineLen = h + m * LineLen
    BY <1>1
  <2> HIDE DEF k, m
  <2>2. m * LineLen = k * LineLen + i * LineLen
    BY <1>1, <2>1
  <2>3. (m - k - i) * LineLen = 0 /\ m - k - i \in Int
    BY <1>1, <2>1, <2>2
  <2>4. \A n \in Int : n * LineLen = 0 => n = 0
    BY <1>1
  <2>5. m = k + i
    BY <1>1, <2>1, <2>3, <2>4
  <2> QED
    BY <1>1, <2>5 DEF k, m
<1>5. b.jd = a.jd + i
  <2> HIDE DEF a, b, h, d
  <2> QED
    BY <1>2, <1>3, <1>4, Zenon
<1> QED
  BY <1>3, <1>5

Consecutive(p) ==
    LET rows == tl[p].rows IN
    /\ \A i \in Step : rows[i] # NoRow
    /\ \A i \in Step : rows[i] = [url |-> rows[1].url, jd |-> rows[1].jd + i - 1]

(* The strengthening: the rows of a fetch that has read all four are        *)
(* consecutive before their dates are checked, and as long as no later call *)
(* writes to the rows, the bracket is the dates of the two in the middle.   *)
FetchedRows == \A p \in Proc : HasRows(p) => Consecutive(p)

BracketRows ==
    \A p \in Proc : ~spoiled[p] /\ tl[p].from <= tl[p].to =>
        /\ Consecutive(p)
        /\ tl[p].from = tl[p].rows[1].jd
        /\ tl[p].to = tl[p].rows[2].jd

AnswerInv == FetchedRows /\ BracketRows /\ AnswerFromBracket

LEMMA InitAnswerInv == Init => AnswerInv
BY DEF Init, AnswerInv, FetchedRows, BracketRows, AnswerFromBracket, HasRows

\* A step that leaves the rows, and what was answered from them, alone.
KeepsAnswers ==
    /\ UNCHANGED <<tl, spoiled>>
    /\ \A q \in Proc : HasRows(q)' => HasRows(q)
    /\ \A q \in Proc : out'[q] = "ok" => out[q] = "ok" /\ arg'[q].jd = arg[q].jd

LEMMA KeptAnswers == AnswerInv /\ KeepsAnswers => AnswerInv'
BY DEF AnswerInv, KeepsAnswers, FetchedRows, BracketRows, AnswerFromBracket, Consecutive, RowsBracket

LEMMA KeepingSteps ==
    ASSUME TypeOK, NEW p \in Proc,
           \/ LockEop(p) \/ HeadKnown(p) \/ HeadUnknown(p) \/ CheckoutOk(p) \/ CheckoutFails(p)
           \/ StartTransfer(p) \/ TransferOk(p) \/ TransferFails(p) \/ Sync(p) \/ FetchMisaligned(p)
           \/ ValidateOk(p) \/ ValidateFails(p) \/ SetLeapUrl(p) \/ ResetEop(p)
           \/ \E jd \in Jd : FetchMiss(p, jd)
           \/ \E s \in DOMAIN CustomUrl : \E u \in CustomUrl[s] \cup {NoUrl} : \E y \in Year :
                SetEopUrl(p, s, u, y)
    PROVE  KeepsAnswers
<1> USE DEF TypeOK, KeepsAnswers, HasRows, Arg
<1>1. CASE LockEop(p) \/ HeadKnown(p) \/ HeadUnknown(p)
  BY <1>1 DEF LockEop, HeadKnown, HeadUnknown, UnlockWithOffset
<1>2. CASE CheckoutOk(p) \/ CheckoutFails(p)
  <2>1. /\ \E label \in {"fetch", "sync"} : pc' = [pc EXCEPT ![p] = label]
        /\ pc[p] = "checkout" /\ UNCHANGED <<out, tl, spoiled>>
        /\ \/ arg' = [arg EXCEPT ![p].ok = FALSE]
           \/ /\ \E x : arg' = [arg EXCEPT ![p].req.off = x]
              /\ pc' = [pc EXCEPT ![p] = "fetch"]
    BY <1>2 DEF CheckoutOk, CheckoutFails, UnlockWithOffset
  <2> QED
    BY <2>1
<1>3. CASE StartTransfer(p) \/ TransferOk(p) \/ TransferFails(p)
  <2>1. CASE StartTransfer(p)
    BY <2>1 DEF StartTransfer
  <2>2. CASE TransferOk(p)
    <3>1. PICK r \in Replies(p) : arg' = [arg EXCEPT ![p].req = r]
      BY <2>2 DEF TransferOk
    <3> QED
      BY <2>2, <3>1 DEF TransferOk
  <2>3. CASE TransferFails(p)
    BY <2>3 DEF TransferFails
  <2> QED
    BY <1>3, <2>1, <2>2, <2>3
<1>4. CASE Sync(p)
  BY <1>4 DEF Sync, Return
<1>5. CASE FetchMisaligned(p)
  BY <1>5 DEF FetchMisaligned, Return
<1>6. CASE ValidateOk(p) \/ ValidateFails(p)
  BY <1>6 DEF ValidateOk, ValidateFails, Return
<1>7. CASE SetLeapUrl(p) \/ ResetEop(p)
  BY <1>7 DEF SetLeapUrl, ResetEop
<1>8. CASE \E jd \in Jd : FetchMiss(p, jd)
  BY <1>8 DEF FetchMiss
<1>9. CASE \E s \in DOMAIN CustomUrl : \E u \in CustomUrl[s] \cup {NoUrl} : \E y \in Year :
             SetEopUrl(p, s, u, y)
  <2>1. /\ pc' = [pc EXCEPT ![p] = "validate"] /\ out' = [out EXCEPT ![p] = "none"]
        /\ \E x : arg' = [arg EXCEPT ![p] = x]
        /\ UNCHANGED <<tl, spoiled>>
    BY <1>9 DEF SetEopUrl
  <2> QED
    BY <2>1
<1> QED
  BY <1>1, <1>2, <1>3, <1>4, <1>5, <1>6, <1>7, <1>8, <1>9

LEMMA NextAnswerInv == TypeInv /\ AnswerInv /\ [Next]_vars => AnswerInv'
<1> SUFFICES ASSUME TypeInv, AnswerInv, [Next]_vars PROVE AnswerInv'
  OBVIOUS
<1> USE DEF TypeInv
<1>1. ASSUME NEW p \in Proc, NEW jd \in Jd, FetchHit(p, jd)
      PROVE  AnswerInv'
  <2>1. FetchedRows' /\ BracketRows'
    BY <1>1 DEF FetchHit, AnswerInv, FetchedRows, BracketRows, HasRows, Consecutive, TypeOK, Arg
  <2>2. AnswerFromBracket'
    <3> SUFFICES ASSUME NEW q \in Proc, out'[q] = "ok", ~spoiled'[q]
                 PROVE  RowsBracket(q, arg[q].jd)'
      BY DEF AnswerFromBracket
    <3>1. CASE q = p
      <4>1. /\ tl[p].from <= jd /\ jd <= tl[p].to /\ ~spoiled[p]
            /\ arg'[p].jd = jd /\ tl' = tl
        BY <1>1, <3>1 DEF FetchHit, InBracket, TypeOK, Arg
      <4>2. tl[p].from <= tl[p].to
        BY <4>1, ConstantAssumption DEF TypeOK, Bracket
      <4>3. /\ Consecutive(p)
            /\ tl[p].from = tl[p].rows[1].jd
            /\ tl[p].to = tl[p].rows[2].jd
        BY <4>1, <4>2 DEF AnswerInv, BracketRows
      <4> QED
        BY <3>1, <4>1, <4>3 DEF RowsBracket, Consecutive
    <3>2. CASE q # p
      BY <1>1, <3>2 DEF FetchHit, AnswerInv, AnswerFromBracket, RowsBracket, TypeOK
    <3> QED
      BY <3>1, <3>2
  <2> QED
    BY <2>1, <2>2 DEF AnswerInv
<1>2. ASSUME NEW p \in Proc, NEW jd \in Jd, FetchTooEarly(p, jd)
      PROVE  AnswerInv'
  <2>1. /\ spoiled' = [spoiled EXCEPT ![p] = TRUE]
        /\ \A q \in Proc \ {p} : tl'[q] = tl[q] /\ arg'[q] = arg[q] /\ out'[q] = out[q]
        /\ pc' = pc /\ pc[p] = "idle"
    BY <1>2 DEF FetchTooEarly, TypeOK
  <2> QED
    BY <2>1 DEF AnswerInv, FetchedRows, BracketRows, AnswerFromBracket, HasRows, Consecutive,
                RowsBracket, TypeOK
<1>3. ASSUME NEW p \in Proc, ParseRows(p)
      PROVE  AnswerInv'
  <2> DEFINE u == arg[p].req.url
             off == arg[p].req.off
             row(i) == RowAt(u, off + i * LineLen)
  <2>1. PICK n \in 0 .. 4 :
          /\ \A i \in Step : i < n => row(i) # NoRow
          /\ tl' = [tl EXCEPT ![p].rows =
                       [i \in Step |-> IF i < n THEN row(i)
                                       ELSE IF i = n THEN NoRow ELSE tl[p].rows[i]]]
          /\ arg' = [arg EXCEPT ![p].ok = (n = 4)]
    BY <1>3 DEF ParseRows
  <2>2. u \in Url /\ off \in Int
    BY <1>3 DEF ParseRows, TypeOK, RequestNamed, Arg, Request
  <2>3. /\ spoiled' = [spoiled EXCEPT ![p] = TRUE]
        /\ \A q \in Proc \ {p} : /\ tl'[q] = tl[q] /\ arg'[q] = arg[q]
                                 /\ out'[q] = out[q] /\ pc'[q] = pc[q]
    BY <1>3, <2>1 DEF ParseRows, TypeOK
  <2>4. ASSUME HasRows(p)' PROVE Consecutive(p)'
    <3>1. n = 4
      BY <1>3, <2>1, <2>4 DEF ParseRows, HasRows, TypeOK, Arg
    <3>2. \A i \in Step : tl'[p].rows[i] = row(i) /\ row(i) # NoRow
      BY <2>1, <3>1 DEF TypeOK, Bracket, Step
    <3>3. 0 \in Step /\ 1 \in Step /\ row(0) = RowAt(u, off)
      BY <2>2, ConstantAssumption DEF Step
    <3>4. RowAt(u, off).jd \in Int
      BY <2>2, <3>2, <3>3, RowAtOffset
    <3>5. \A i \in Step : row(i) = [url |-> u, jd |-> RowAt(u, off).jd + i]
      BY <2>2, <3>2, <3>3, RowsConsecutive
    <3> HIDE DEF u, off, row
    <3>6. row(1).url = u /\ row(1).jd = RowAt(u, off).jd + 1
      BY <3>3, <3>5
    <3>7. \A i \in Step : RowAt(u, off).jd + i = row(1).jd + i - 1
      BY <3>4, <3>6 DEF Step
    <3> QED
      BY <3>2, <3>3, <3>5, <3>6, <3>7 DEF Consecutive
  <2> QED
    BY <2>3, <2>4 DEF AnswerInv, FetchedRows, BracketRows, AnswerFromBracket, HasRows, Consecutive,
                      RowsBracket, TypeOK
<1>4. ASSUME NEW p \in Proc, FetchAligned(p)
      PROVE  AnswerInv'
  <2>1. Consecutive(p) /\ Aligned(p)
    BY <1>4 DEF FetchAligned, AnswerInv, FetchedRows, HasRows
  <2>2. /\ tl'[p].rows = tl[p].rows
        /\ tl'[p].from = tl[p].rows[1].jd /\ tl'[p].to = tl[p].rows[2].jd
        /\ arg'[p].jd = arg[p].jd /\ pc'[p] = "idle"
        /\ \A q \in Proc \ {p} : /\ tl'[q] = tl[q] /\ arg'[q] = arg[q] /\ spoiled'[q] = spoiled[q]
                                 /\ out'[q] = out[q] /\ pc'[q] = pc[q]
    BY <1>4 DEF FetchAligned, Return, TypeOK, Bracket, NoArg
  <2>3. RowsBracket(p, arg[p].jd)' /\ Consecutive(p)'
    BY <2>1, <2>2 DEF Consecutive, RowsBracket, Aligned
  <2> QED
    BY <2>2, <2>3 DEF AnswerInv, FetchedRows, BracketRows, AnswerFromBracket, HasRows, Consecutive,
                      RowsBracket, TypeOK
<1>5. CASE UNCHANGED vars
  BY <1>5, KeptAnswers DEF vars, KeepsAnswers, HasRows
<1> QED
  BY Steps, KeepingSteps, KeptAnswers, <1>1, <1>2, <1>3, <1>4, <1>5 DEF FetchStep, ConfigStep

\* What novas_fetch_eop() interpolates brackets the date, for any contents of
\* the files, any failures, and any crossing of the replies of shared handles.
THEOREM AnswersBracketed == Spec => []AnswerFromBracket
<1>1. AnswerInv => AnswerFromBracket
  BY DEF AnswerInv
<1> QED
  BY <1>1, InitTypeInv, NextTypeInv, InitAnswerInv, NextAnswerInv, PTL DEF Spec

----------------------------------------------------------------------------
(* Which URL the rows of a bracket are from. *)

InForce(u) == \E s \in Series : u \in since[s]

(* The strengthening: the URLs of the table are in force, and while none of *)
(* them is replaced so are the URLs of the requests under way and those of  *)
(* the rows read.  A bracket never has a version that is still to come.     *)
UrlsInForce     == \A s \in Series : GetEopUrl(s) \in since[s]
RequestsInForce == \A p \in Proc : pc[p] \in Transferring \cup {"parse"} => InForce(arg[p].req.url)
RowsInForce     == \A p \in Proc : HasRows(p) => InForce(tl[p].rows[1].url)
VersionsPast    == \A p \in Proc : tl[p].version <= urlVersion

CacheInv == UrlsInForce /\ RequestsInForce /\ RowsInForce /\ VersionsPast /\ CacheFromConfiguredUrl

LEMMA InitCacheInv == Init => CacheInv
BY ConstantAssumption
DEF Init, CacheInv, UrlsInForce, RequestsInForce, RowsInForce, VersionsPast, CacheFromConfiguredUrl,
    GetEopUrl, HasRows, Transferring

\* A step that changes neither the configuration nor the rows of any thread,
\* and sends only requests for URLs in force.
KeepsCache ==
    /\ UNCHANGED <<urls, urlVersion, since, tl, spoiled>>
    /\ \A q \in Proc : HasRows(q)' => HasRows(q)
    /\ RequestsInForce'

LEMMA KeptCache == CacheInv /\ KeepsCache => CacheInv'
BY DEF CacheInv, KeepsCache, UrlsInForce, RowsInForce, VersionsPast, CacheFromConfiguredUrl,
       InForce, GetEopUrl

\* The requests in force are still those of all threads but one, and of that one
\* if it has a request after the step.
LEMMA RequestsKept ==
    ASSUME RequestsInForce, NEW p \in Proc, since' = since,
           \A q \in Proc \ {p} : pc'[q] = pc[q] /\ arg'[q] = arg[q],
           pc'[p] \in Transferring \cup {"parse"} => InForce(arg'[p].req.url)
    PROVE  RequestsInForce'
BY DEF RequestsInForce, InForce

LEMMA ThreadSteps ==
    ASSUME TypeInv, CacheInv, NEW p \in Proc,
           \/ LockEop(p) \/ HeadKnown(p) \/ HeadUnknown(p) \/ CheckoutOk(p) \/ CheckoutFails(p)
           \/ StartTransfer(p) \/ TransferOk(p) \/ TransferFails(p) \/ Sync(p) \/ FetchMisaligned(p)
           \/ ValidateOk(p) \/ ValidateFails(p)
           \/ \E jd \in Jd : FetchMiss(p, jd)
    PROVE  KeepsCache
<1> USE DEF TypeInv
<1>1. UNCHANGED <<tl, spoiled>> /\ \A q \in Proc : HasRows(q)' => HasRows(q)
  BY KeepingSteps DEF KeepsAnswers
<1>2. /\ UNCHANGED <<urls, urlVersion, since>>
      /\ \A q \in Proc \ {p} : pc'[q] = pc[q] /\ arg'[q] = arg[q]
  <2> USE DEF TypeOK
  <2>1. CASE LockEop(p) \/ HeadKnown(p) \/ HeadUnknown(p) \/ CheckoutOk(p) \/ CheckoutFails(p)
    BY <2>1 DEF LockEop, HeadKnown, HeadUnknown, CheckoutOk, CheckoutFails, UnlockWithOffset
  <2>2. CASE StartTransfer(p) \/ TransferOk(p) \/ TransferFails(p) \/ Sync(p) \/ FetchMisaligned(p)
    BY <2>2 DEF StartTransfer, TransferOk, TransferFails, Sync, FetchMisaligned, Return
  <2>3. CASE ValidateOk(p) \/ ValidateFails(p) \/ \E jd \in Jd : FetchMiss(p, jd)
    BY <2>3 DEF ValidateOk, ValidateFails, FetchMiss, Return
  <2> QED
    BY <2>1, <2>2, <2>3
<1>3. pc'[p] \in Transferring \cup {"parse"} => InForce(arg'[p].req.url)
  <2>1. CASE HeadUnknown(p)
    <3>1. arg[p].file \in File /\ arg'[p].req.url = GetEopUrl(SeriesOf(arg[p].file))
      BY <2>1 DEF HeadUnknown, TypeOK, Arg
    <3> QED
      BY <3>1, SeriesOfType DEF CacheInv, UrlsInForce, InForce
  <2>2. CASE StartTransfer(p)
    <3>1. arg[p].file \in File /\ arg'[p].req.url = GetEopUrl(SeriesOf(arg[p].file))
      BY <2>2 DEF StartTransfer, TypeOK, Arg, Request
    <3> QED
      BY <3>1, SeriesOfType DEF CacheInv, UrlsInForce, InForce
  <2>3. CASE TransferOk(p)
    <3>1. PICK r \in Replies(p) : arg' = [arg EXCEPT ![p].req = r]
      BY <2>3 DEF TransferOk
    <3>2. PICK q \in {p} \cup Others(p, arg[p].file) : r = arg[q].req
      BY <3>1 DEF Replies
    <3>3. q \in Proc /\ pc[q] \in Transferring
      BY <2>3, <3>2 DEF TransferOk, Others, Transferring
    <3> QED
      BY <3>1, <3>2, <3>3 DEF CacheInv, RequestsInForce, TypeOK, Arg
  <2>4. CASE LockEop(p) \/ HeadKnown(p) \/ CheckoutOk(p) \/ CheckoutFails(p) \/ TransferFails(p)
    BY <2>4 DEF LockEop, HeadKnown, CheckoutOk, CheckoutFails, TransferFails, UnlockWithOffset,
                TypeOK, Transferring
  <2>5. CASE Sync(p) \/ FetchMisaligned(p) \/ ValidateOk(p) \/ ValidateFails(p)
             \/ \E jd \in Jd : FetchMiss(p, jd)
    BY <2>5 DEF Sync, FetchMisaligned, ValidateOk, ValidateFails, FetchMiss, Return, TypeOK, Transferring
  <2> QED
    BY <2>1, <2>2, <2>3, <2>4, <2>5
<1> QED
  BY <1>1, <1>2, <1>3, RequestsKept DEF CacheInv, KeepsCache

\* After a change of the configuration no bracket has the version.
LEMMA NewVersion ==
    ASSUME TypeOK, CacheInv, urlVersion' = urlVersion + 1, tl' = tl
    PROVE  VersionsPast' /\ CacheFromConfiguredUrl'
<1>1. \A p \in Proc : tl'[p].version < urlVersion'
  BY DEF CacheInv, VersionsPast, TypeOK, Bracket
<1> QED
  BY <1>1 DEF VersionsPast, CacheFromConfiguredUrl, TypeOK, Bracket

LEMMA NextCacheInv ==
    ASSUME QuietConfig
    PROVE  TypeInv /\ CacheInv /\ [Next]_vars => CacheInv'
<1> SUFFICES ASSUME TypeInv, CacheInv, [Next]_vars PROVE CacheInv'
  OBVIOUS
<1> USE DEF TypeInv
<1>1. ASSUME NEW p \in Proc, NEW jd \in Jd, FetchHit(p, jd)
      PROVE  CacheInv'
  <2>1. /\ UNCHANGED <<urls, urlVersion, since, tl, spoiled, pc>>
        /\ \A q \in Proc : arg'[q].req = arg[q].req /\ arg'[q].ok = arg[q].ok
    BY <1>1 DEF FetchHit, TypeOK, Arg
  <2>2. KeepsCache
    BY <2>1 DEF CacheInv, KeepsCache, RequestsInForce, InForce, HasRows
  <2> QED
    BY <2>2, KeptCache
<1>2. ASSUME NEW p \in Proc, NEW jd \in Jd, FetchTooEarly(p, jd)
      PROVE  CacheInv'
  <2>1. /\ UNCHANGED <<urls, urlVersion, since, pc>> /\ pc[p] = "idle"
        /\ \A q \in Proc : arg'[q].req = arg[q].req /\ arg'[q].ok = arg[q].ok
        /\ spoiled' = [spoiled EXCEPT ![p] = TRUE]
        /\ \A q \in Proc \ {p} : tl'[q] = tl[q]
        /\ tl'[p].version = tl[p].version
    BY <1>2 DEF FetchTooEarly, TypeOK, Arg, Bracket
  <2>2. UrlsInForce' /\ RequestsInForce' /\ RowsInForce'
    BY <2>1 DEF CacheInv, UrlsInForce, RequestsInForce, RowsInForce, InForce, GetEopUrl, HasRows
  <2>3. VersionsPast'
    BY <2>1 DEF CacheInv, VersionsPast
  <2>4. CacheFromConfiguredUrl'
    BY <2>1 DEF CacheInv, CacheFromConfiguredUrl, TypeOK
  <2> QED
    BY <2>2, <2>3, <2>4 DEF CacheInv
<1>3. ASSUME NEW p \in Proc, ParseRows(p)
      PROVE  CacheInv'
  <2> DEFINE u == arg[p].req.url
             row(i) == RowAt(u, arg[p].req.off + i * LineLen)
  <2>1. PICK n \in 0 .. 4 :
          /\ \A i \in Step : i < n => row(i) # NoRow
          /\ tl' = [tl EXCEPT ![p].rows =
                       [i \in Step |-> IF i < n THEN row(i)
                                       ELSE IF i = n THEN NoRow ELSE tl[p].rows[i]]]
          /\ arg' = [arg EXCEPT ![p].ok = (n = 4)]
    BY <1>3 DEF ParseRows
  <2>2. /\ UNCHANGED <<urls, urlVersion, since>>
        /\ spoiled' = [spoiled EXCEPT ![p] = TRUE]
        /\ pc[p] = "parse" /\ pc'[p] = "sync"
        /\ \A q \in Proc \ {p} : tl'[q] = tl[q] /\ arg'[q] = arg[q] /\ pc'[q] = pc[q]
        /\ tl'[p].version = tl[p].version
    BY <1>3, <2>1 DEF ParseRows, TypeOK, Bracket
  <2>3. UrlsInForce' /\ VersionsPast'
    BY <2>2 DEF CacheInv, UrlsInForce, VersionsPast, GetEopUrl
  <2>4. RequestsInForce'
    BY <2>2, RequestsKept DEF CacheInv, Transferring
  <2>5. ASSUME HasRows(p)' PROVE tl'[p].rows[1].url = u
    <3>1. n = 4
      BY <2>1, <2>2, <2>5 DEF HasRows, TypeOK, Arg
    <3>2. tl'[p].rows[1] = row(1) /\ row(1) # NoRow
      BY <2>1, <3>1 DEF TypeOK, Bracket, Step
    <3>3. u \in Url /\ arg[p].req.off + 1 * LineLen \in Int
      BY <2>2, ConstantAssumption DEF TypeOK, RequestNamed, Arg, Request
    <3>4. row(1) = [url |-> u, jd |-> row(1).jd]
      BY <3>2, <3>3, RowAtOffset
    <3> QED
      BY <3>2, <3>4
  <2>6. RowsInForce'
    <3>1. HasRows(p)' => InForce(tl'[p].rows[1].url)
      BY <2>2, <2>5 DEF CacheInv, RequestsInForce
    <3> QED
      BY <2>2, <3>1 DEF CacheInv, RowsInForce, HasRows, InForce
  <2>7. CacheFromConfiguredUrl'
    BY <2>2 DEF CacheInv, CacheFromConfiguredUrl, TypeOK
  <2> QED
    BY <2>3, <2>4, <2>6, <2>7 DEF CacheInv
<1>4. ASSUME NEW p \in Proc, FetchAligned(p)
      PROVE  CacheInv'
  <2>1. InForce(tl[p].rows[1].url)
    BY <1>4 DEF FetchAligned, CacheInv, RowsInForce, HasRows
  <2>2. /\ UNCHANGED <<urls, urlVersion, since>>
        /\ tl'[p].rows = tl[p].rows /\ tl'[p].version = urlVersion
        /\ pc'[p] = "idle"
        /\ \A q \in Proc \ {p} : /\ tl'[q] = tl[q] /\ arg'[q] = arg[q] /\ pc'[q] = pc[q]
                                 /\ spoiled'[q] = spoiled[q]
    BY <1>4 DEF FetchAligned, Return, TypeOK, Bracket
  <2>3. UrlsInForce' /\ VersionsPast'
    BY <2>2 DEF CacheInv, UrlsInForce, VersionsPast, GetEopUrl, TypeOK
  <2>4. RequestsInForce' /\ RowsInForce'
    BY <2>2, RequestsKept DEF CacheInv, RowsInForce, HasRows, InForce, Transferring
  <2>5. CacheFromConfiguredUrl'
    BY <2>1, <2>2 DEF CacheInv, CacheFromConfiguredUrl, InForce
  <2> QED
    BY <2>3, <2>4, <2>5 DEF CacheInv
\* No fetch overlaps a change of the URLs, and no change overlaps another.
<1>5. ASSUME NEW p \in Proc, NEW s \in DOMAIN CustomUrl, NEW u \in CustomUrl[s] \cup {NoUrl},
             NEW y \in Year, SetEopUrl(p, s, u, y)
      PROVE  CacheInv'
  <2> DEFINE named == IF u = NoUrl THEN DefaultUrl[s] ELSE u
  <2>1. \A q \in Proc : pc[q] = "idle"
    BY <1>5 DEF SetEopUrl, MayConfigure
  <2>2. /\ urlVersion' = urlVersion + 1 /\ tl' = tl
        /\ urls' = [urls EXCEPT ![s] = u]
        /\ since' = [t \in Series |-> {IF t # s THEN GetEopUrl(t) ELSE named}]
        /\ pc' = [pc EXCEPT ![p] = "validate"]
        /\ arg' = [arg EXCEPT ![p] = [NoArg EXCEPT !.file = s, !.req.url = named]]
    BY <1>5 DEF SetEopUrl, NextVersion
  <2>3. s \in Series
    BY ConstantAssumption
  <2>4. UrlsInForce'
    BY <2>2, <2>3 DEF UrlsInForce, GetEopUrl, TypeOK
  <2>5. named \in since'[s] /\ arg'[p].req.url = named
    BY <2>2, <2>3 DEF TypeOK, NoArg
  <2>6. RequestsInForce' /\ RowsInForce'
    <3> HIDE DEF named
    <3> QED
      BY <2>1, <2>2, <2>3, <2>5 DEF RequestsInForce, RowsInForce, HasRows, InForce, TypeOK, Transferring
  <2> QED
    BY <2>2, <2>4, <2>6, NewVersion DEF CacheInv
<1>6. ASSUME NEW p \in Proc, SetLeapUrl(p)
      PROVE  CacheInv'
  <2>1. \A q \in Proc : pc[q] = "idle"
    BY <1>6 DEF SetLeapUrl, MayConfigure
  <2>2. /\ urlVersion' = urlVersion + 1 /\ UNCHANGED <<tl, pc, urls>>
        /\ since' = [s \in Series |-> {GetEopUrl(s)}]
    BY <1>6 DEF SetLeapUrl, NextVersion
  <2>3. UrlsInForce' /\ RequestsInForce' /\ RowsInForce'
    BY <2>1, <2>2 DEF UrlsInForce, RequestsInForce, RowsInForce, GetEopUrl, HasRows, Transferring
  <2> QED
    BY <2>2, <2>3, NewVersion DEF CacheInv
\* A reset goes back to the default URLs, which join those in force.
<1>7. ASSUME NEW p \in Proc, ResetEop(p)
      PROVE  CacheInv'
  <2>1. /\ UNCHANGED <<urlVersion, pc, arg, tl, spoiled>>
        /\ urls' = [s \in Series |-> NoUrl]
        /\ since' = [s \in Series |-> since[s] \cup {DefaultUrl[s]}]
    BY <1>7 DEF ResetEop
  <2>2. \A v : InForce(v) => InForce(v)'
    BY <2>1 DEF InForce
  <2>3. UrlsInForce'
    BY <2>1 DEF UrlsInForce, GetEopUrl
  <2>4. RequestsInForce' /\ RowsInForce' /\ VersionsPast'
    BY <2>1, <2>2 DEF CacheInv, RequestsInForce, RowsInForce, VersionsPast, HasRows
  <2>5. CacheFromConfiguredUrl'
    BY <2>1 DEF CacheInv, CacheFromConfiguredUrl
  <2> QED
    BY <2>3, <2>4, <2>5 DEF CacheInv
<1>8. CASE UNCHANGED vars
  <2>1. KeepsCache
    BY <1>8 DEF vars, CacheInv, KeepsCache, RequestsInForce, InForce, HasRows
  <2> QED
    BY <2>1, KeptCache
<1> QED
  BY Steps, ThreadSteps, KeptCache, <1>1, <1>2, <1>3, <1>4, <1>5, <1>6, <1>7, <1>8
  DEF FetchStep, ConfigStep

\* If the program configures while no fetch is under way, no thread interpolates
\* rows of a URL that novas_set_eop_url() replaced: for any number of threads,
\* changes and resets, and any crossing of the replies of shared handles.
THEOREM CachesInForce == ASSUME QuietConfig PROVE Spec => []CacheFromConfiguredUrl
<1>1. CacheInv => CacheFromConfiguredUrl
  BY DEF CacheInv
<1> QED
  BY <1>1, InitTypeInv, NextTypeInv, InitCacheInv, NextCacheInv, PTL DEF Spec

----------------------------------------------------------------------------
(* What head_bytes of the C04 table is. *)

\* The URLs that the C04 series may be configured to, and what IERS guarantees of
\* a C04 file: comment lines before the first row.
C04Url == {u \in Url : u = DefaultUrl["c04"] \/ ("c04" \in DOMAIN CustomUrl /\ u \in CustomUrl["c04"])}

C04FilesHaveHeaders ==
    \A u \in C04Url : CheckedOut("c04", [url |-> u, off |-> 0]) => Served[u].header # 0

(* The strengthening: what a thread that uses the C04 table may count on, in *)
(* each part of its call.  A handle is closed with its header, and a header  *)
(* is looked for when it is not known; while it is, nobody transfers rows.   *)
C04Request(p) ==
    /\ pc[p] \in Transferring => arg[p].req.url = GetEopUrl("c04")
    /\ pc[p] \in {"checkout", "validate"} => arg[p].req.off = 0 /\ curl["c04"]
    /\ pc[p] = "checkout" => head["c04"] < 0
    /\ pc[p] \in {"fetch", "perform"} => head["c04"] >= 0

C04Requests   == \A p \in Proc : arg[p].file = "c04" => C04Request(p)
C04Handle     == head["c04"] # 0 /\ (head["c04"] >= 0 => curl["c04"])
ValidateAlone == \A p, q \in Proc : pc[p] = "validate" /\ q # p => pc[q] = "idle"

C04Inv ==
    /\ C04HeadIsHeader
    /\ C04Handle
    /\ C04Requests
    /\ ValidateAlone
    /\ GetEopUrl("c04") \in C04Url

HeadInv == TypeInv /\ LockDiscipline

LEMMA InitC04Inv == Init => C04Inv
BY ConstantAssumption
DEF Init, C04Inv, C04HeadIsHeader, HeadIsHeader, C04Handle, C04Requests, C04Request, ValidateAlone,
    GetEopUrl, C04Url, File, Series, Transferring

\* The header found in a whole file is its own, and is not empty.
LEMMA HeadFound ==
    ASSUME C04FilesHaveHeaders, NEW u \in C04Url, NEW r, r.url = u, r.off = 0, CheckedOut("c04", r)
    PROVE  /\ HeadSeen("c04", r) = HeaderOf("c04", u)
           /\ HeadSeen("c04", r) \in Int /\ HeadSeen("c04", r) > 0
<1>1. Served[u].header \in Nat /\ LineLen \in Int
  BY ServedAssumption, ConstantAssumption DEF C04Url
<1>2. CheckedOut("c04", [url |-> u, off |-> 0])
  BY DEF CheckedOut, FirstOffset
<1>3. Served[u].header # 0
  BY <1>2 DEF C04FilesHaveHeaders
<1> QED
  BY <1>1, <1>3 DEF HeadSeen, HeaderOf, FirstOffset, StartLine

\* A thread that looks for the header of the C04 table gets no other reply.
LEMMA RepliesAlone ==
    ASSUME HeadInv, C04Inv, NEW p \in Proc, pc[p] \in {"checkout", "validate"}, arg[p].file = "c04",
           NEW r \in Replies(p)
    PROVE  r.url = GetEopUrl("c04") /\ r.off = 0
<1>1. PICK q \in {p} \cup Others(p, arg[p].file) : r = arg[q].req
  BY DEF Replies
<1>2. q \in Proc /\ pc[q] \in Transferring /\ arg[q].file = "c04"
  BY <1>1 DEF Others, Transferring
<1>3. C04Request(q) /\ C04Request(p)
  BY <1>2 DEF C04Inv, C04Requests
<1>4. pc[q] \in {"checkout", "validate"}
  <2>1. CASE pc[p] = "validate"
    BY <1>2, <2>1 DEF C04Inv, ValidateAlone, Transferring
  <2>2. CASE pc[p] = "checkout"
    BY <1>2, <1>3, <2>2 DEF C04Request, Transferring, HeadInv, TypeInv, TypeOK, File
  <2> QED
    BY <2>1, <2>2
<1> QED
  BY <1>1, <1>2, <1>3, <1>4 DEF C04Request

\* A step of a thread in a call that leaves the C04 URL and header alone.
LEMMA OneThread ==
    ASSUME TypeInv, C04Inv, NEW p \in Proc, urls' = urls,
           head'["c04"] = head["c04"],
           curl["c04"] => curl'["c04"],
           \A q \in Proc \ {p} : pc'[q] = pc[q] /\ arg'[q] = arg[q],
           arg'[p].file = "c04" => C04Request(p)',
           pc'[p] # "validate", pc[p] = "idle" => MayStart \/ pc'[p] = "idle", QuietConfig
    PROVE  C04Inv'
<1>1. GetEopUrl("c04")' = GetEopUrl("c04")
  BY DEF GetEopUrl
<1>2. C04HeadIsHeader' /\ C04Handle'
  BY <1>1 DEF C04Inv, C04HeadIsHeader, HeadIsHeader, HeaderOf, SeriesOf, GetEopUrl, C04Handle
<1>3. C04Requests'
  BY <1>1 DEF C04Inv, C04Requests, C04Request
<1>4. ValidateAlone'
  BY DEF C04Inv, ValidateAlone, MayStart
<1> QED
  BY <1>1, <1>2, <1>3, <1>4 DEF C04Inv

\* A step of a thread that has found the header of the C04 file in force.
LEMMA HeadLearnt ==
    ASSUME HeadInv, C04Inv, NEW p \in Proc, pc[p] \in {"checkout", "validate"}, arg[p].file = "c04",
           urls' = urls, curl' = curl,
           head'["c04"] = HeaderOf("c04", GetEopUrl("c04")), head'["c04"] \in Int, head'["c04"] > 0,
           \A q \in Proc \ {p} : pc'[q] = pc[q] /\ arg'[q] = arg[q],
           pc'[p] \in {"fetch", "idle"}
    PROVE  C04Inv'
<1>1. GetEopUrl("c04")' = GetEopUrl("c04")
  BY DEF GetEopUrl
<1>2. C04HeadIsHeader'
  BY <1>1 DEF C04HeadIsHeader, HeadIsHeader, HeaderOf, SeriesOf, GetEopUrl
<1>3. C04Handle'
  BY DEF C04Inv, C04Requests, C04Request, C04Handle
<1>4. \A q \in Proc \ {p} : pc[q] # "checkout"
  BY ConstantAssumption DEF HeadInv, LockDiscipline, Locked
<1>5. C04Requests'
  BY <1>1, <1>4 DEF C04Inv, C04Requests, C04Request, Transferring
<1>6. ValidateAlone'
  BY DEF C04Inv, ValidateAlone
<1> QED
  BY <1>1, <1>2, <1>3, <1>5, <1>6 DEF C04Inv

LEMMA NextC04Inv ==
    ASSUME QuietConfig, C04FilesHaveHeaders
    PROVE  HeadInv /\ C04Inv /\ [Next]_vars => C04Inv'
<1> SUFFICES ASSUME HeadInv, C04Inv, [Next]_vars PROVE C04Inv'
  OBVIOUS
<1> USE DEF HeadInv, TypeInv
<1>0. TypeOK /\ "c04" \in File /\ "c04" \in Series
  BY DEF File, Series
<1>1. ASSUME NEW p \in Proc,
             \E jd \in Jd : FetchHit(p, jd) \/ FetchTooEarly(p, jd)
      PROVE  C04Inv'
  <2>1. /\ UNCHANGED <<urls, head, curl, pc>>
        /\ \A q \in Proc : arg'[q].req = arg[q].req /\ arg'[q].file = arg[q].file
    BY <1>1 DEF FetchHit, FetchTooEarly, TypeOK, Arg
  <2> QED
    BY <2>1 DEF C04Inv, C04HeadIsHeader, HeadIsHeader, GetEopUrl, C04Handle, C04Requests, C04Request,
                ValidateAlone
<1>2. ASSUME NEW p \in Proc,
             (\E jd \in Jd : FetchMiss(p, jd)) \/ LockEop(p) \/ CheckoutFails(p)
      PROVE  C04Inv'
  <2>1. /\ UNCHANGED <<urls, head, curl>>
        /\ \A q \in Proc \ {p} : pc'[q] = pc[q] /\ arg'[q] = arg[q]
        /\ pc'[p] \in {"lock", "locked", "sync"}
        /\ pc[p] = "idle" => MayStart
    BY <1>2 DEF FetchMiss, LockEop, CheckoutFails, TypeOK
  <2>2. C04Request(p)'
    BY <2>1 DEF C04Request, Transferring
  <2> QED
    BY <2>1, <2>2, OneThread
<1>3. ASSUME NEW p \in Proc, HeadKnown(p)
      PROVE  C04Inv'
  <2>1. /\ UNCHANGED <<urls, head, curl>>
        /\ \A q \in Proc \ {p} : pc'[q] = pc[q] /\ arg'[q] = arg[q]
        /\ pc[p] = "locked" /\ pc'[p] = "fetch" /\ arg'[p].file = arg[p].file
        /\ head[arg[p].file] >= 0
    BY <1>3 DEF HeadKnown, UnlockWithOffset, TypeOK, Arg
  <2>2. arg'[p].file = "c04" => C04Request(p)'
    BY <2>1 DEF C04Request, Transferring
  <2> QED
    BY <2>1, <2>2, OneThread
<1>4. ASSUME NEW p \in Proc, HeadUnknown(p)
      PROVE  C04Inv'
  <2> DEFINE req == [url |-> GetEopUrl(SeriesOf(arg[p].file)), off |-> 0]
  <2>1. /\ UNCHANGED <<urls, head>>
        /\ curl' = [curl EXCEPT ![arg[p].file] = TRUE]
        /\ \A q \in Proc \ {p} : pc'[q] = pc[q] /\ arg'[q] = arg[q]
        /\ pc[p] = "locked" /\ pc'[p] = "checkout"
        /\ head[arg[p].file] < 0
        /\ arg'[p].file = arg[p].file /\ arg'[p].req = req
    BY <1>4 DEF HeadUnknown, TypeOK, Arg
  <2>2. curl["c04"] => curl'["c04"]
    BY <1>0, <2>1 DEF TypeOK
  <2>3. ASSUME arg'[p].file = "c04" PROVE C04Request(p)'
    <3>1. arg'[p].req.url = GetEopUrl("c04")' /\ arg'[p].req.off = 0
      BY <2>1, <2>3 DEF SeriesOf, GetEopUrl
    <3>2. curl'["c04"] /\ head'["c04"] < 0
      BY <1>0, <2>1, <2>3 DEF TypeOK
    <3> QED
      BY <2>1, <3>1, <3>2 DEF C04Request
  <2> HIDE DEF req
  <2> QED
    BY <2>1, <2>2, <2>3, OneThread
<1>5. ASSUME NEW p \in Proc, CheckoutOk(p)
      PROVE  C04Inv'
  <2>1. PICK r \in Replies(p) :
          /\ CheckedOut(arg[p].file, r)
          /\ head' = [head EXCEPT ![arg[p].file] = HeadSeen(arg[p].file, r)]
          /\ UnlockWithOffset(p, HeadSeen(arg[p].file, r))
    BY <1>5 DEF CheckoutOk
  <2>2. /\ UNCHANGED <<urls, curl>>
        /\ pc[p] = "checkout" /\ pc'[p] = "fetch"
        /\ \A q \in Proc \ {p} : pc'[q] = pc[q] /\ arg'[q] = arg[q]
        /\ arg'[p].file = arg[p].file
    BY <1>5, <2>1 DEF CheckoutOk, UnlockWithOffset, TypeOK, Arg
  <2>3. CASE arg[p].file # "c04"
    <3>1. head'["c04"] = head["c04"]
      BY <1>0, <2>1, <2>3 DEF TypeOK
    <3> QED
      BY <2>2, <2>3, <3>1, OneThread
  <2>4. CASE arg[p].file = "c04"
    <3>1. r.url = GetEopUrl("c04") /\ r.off = 0
      BY <2>1, <2>2, <2>4, RepliesAlone
    <3>2. head'["c04"] = HeadSeen("c04", r)
      BY <1>0, <2>1, <2>4 DEF TypeOK
    <3> QED
      BY <2>1, <2>2, <2>4, <3>1, <3>2, HeadFound, HeadLearnt DEF C04Inv
  <2> QED
    BY <2>3, <2>4
<1>6. ASSUME NEW p \in Proc, StartTransfer(p)
      PROVE  C04Inv'
  <2>1. /\ UNCHANGED <<urls, head>>
        /\ curl' = [curl EXCEPT ![arg[p].file] = TRUE]
        /\ \A q \in Proc \ {p} : pc'[q] = pc[q] /\ arg'[q] = arg[q]
        /\ pc[p] = "fetch" /\ pc'[p] = "perform"
        /\ arg'[p].file = arg[p].file /\ arg'[p].req.url = GetEopUrl(SeriesOf(arg[p].file))
    BY <1>6 DEF StartTransfer, TypeOK, Arg, Request
  <2>2. curl["c04"] => curl'["c04"]
    BY <1>0, <2>1 DEF TypeOK
  <2>3. ASSUME arg'[p].file = "c04" PROVE C04Request(p)'
    <3>1. arg'[p].req.url = GetEopUrl("c04")'
      BY <2>1, <2>3 DEF SeriesOf, GetEopUrl
    <3>2. head["c04"] >= 0
      BY <2>1, <2>3 DEF C04Inv, C04Requests, C04Request
    <3> QED
      BY <2>1, <3>1, <3>2 DEF C04Request
  <2> QED
    BY <2>1, <2>2, <2>3, OneThread
<1>7. ASSUME NEW p \in Proc,
             \/ TransferOk(p) \/ TransferFails(p) \/ ParseRows(p) \/ Sync(p)
             \/ FetchAligned(p) \/ FetchMisaligned(p) \/ ValidateFails(p)
      PROVE  C04Inv'
  <2>1. /\ UNCHANGED <<urls, curl>>
        /\ pc[p] # "idle" /\ pc'[p] \in {"idle", "parse", "sync", "check"}
        /\ \A q \in Proc \ {p} : pc'[q] = pc[q] /\ arg'[q] = arg[q]
    <3> USE DEF TypeOK
    <3>1. CASE TransferOk(p) \/ TransferFails(p)
      BY <3>1 DEF TransferOk, TransferFails
    <3>2. CASE ParseRows(p)
      BY <3>2 DEF ParseRows
    <3>3. CASE Sync(p) \/ FetchAligned(p) \/ FetchMisaligned(p) \/ ValidateFails(p)
      BY <3>3 DEF Sync, FetchAligned, FetchMisaligned, ValidateFails, Return
    <3> QED
      BY <1>7, <3>1, <3>2, <3>3
  <2>2. head'["c04"] = head["c04"]
    BY <1>7, <1>0 DEF TransferOk, TransferFails, ParseRows, Sync, SyncHeads, FetchAligned,
                      FetchMisaligned, ValidateFails, TypeOK
  <2>3. C04Request(p)'
    BY <2>1 DEF C04Request, Transferring
  <2> QED
    BY <2>1, <2>2, <2>3, OneThread
<1>8. ASSUME NEW p \in Proc, ValidateOk(p)
      PROVE  C04Inv'
  <2>1. PICK r \in Replies(p) :
          /\ CheckedOut(arg[p].file, r)
          /\ head' = [head EXCEPT ![arg[p].file] = HeadSeen(arg[p].file, r)]
    BY <1>8 DEF ValidateOk
  <2>2. /\ UNCHANGED <<urls, curl>>
        /\ pc[p] = "validate" /\ pc'[p] = "idle"
        /\ \A q \in Proc \ {p} : pc'[q] = pc[q] /\ arg'[q] = arg[q]
    BY <1>8 DEF ValidateOk, Return, TypeOK
  <2>3. CASE arg[p].file # "c04"
    <3>1. head'["c04"] = head["c04"]
      BY <1>0, <2>1, <2>3 DEF TypeOK
    <3>2. C04Request(p)'
      BY <2>2 DEF C04Request, Transferring
    <3> QED
      BY <2>2, <3>1, <3>2, OneThread
  <2>4. CASE arg[p].file = "c04"
    <3>1. r.url = GetEopUrl("c04") /\ r.off = 0
      BY <2>1, <2>2, <2>4, RepliesAlone
    <3>2. head'["c04"] = HeadSeen("c04", r)
      BY <1>0, <2>1, <2>4 DEF TypeOK
    <3> QED
      BY <2>1, <2>2, <2>4, <3>1, <3>2, HeadFound, HeadLearnt DEF C04Inv
  <2> QED
    BY <2>3, <2>4
<1>9. ASSUME NEW p \in Proc, NEW s \in DOMAIN CustomUrl, NEW u \in CustomUrl[s] \cup {NoUrl},
             NEW y \in Year, SetEopUrl(p, s, u, y)
      PROVE  C04Inv'
  <2> DEFINE named == IF u = NoUrl THEN DefaultUrl[s] ELSE u
  <2>1. \A q \in Proc : pc[q] = "idle"
    BY <1>9 DEF SetEopUrl, MayConfigure
  <2>2. /\ urls' = [urls EXCEPT ![s] = u]
        /\ head' = HeadsAfterCleanup({f \in File : SeriesOf(f) = s})
        /\ curl' = [f \in File |-> f = s \/ (curl[f] /\ SeriesOf(f) # s)]
        /\ pc' = [pc EXCEPT ![p] = "validate"]
        /\ arg' = [arg EXCEPT ![p] = [NoArg EXCEPT !.file = s, !.req.url = named]]
    BY <1>9 DEF SetEopUrl
  <2>3. s \in Series /\ DefaultUrl[s] \in Url /\ (u # NoUrl => u \in Url) /\ named # NoUrl
    BY ConstantAssumption DEF Url, Series
  <2>4. /\ pc'[p] = "validate" /\ arg'[p].file = s
        /\ arg'[p].req.url = named /\ arg'[p].req.off = 0
        /\ \A q \in Proc \ {p} : pc'[q] = "idle"
    BY <2>1, <2>2 DEF TypeOK, NoArg
  <2>5. ValidateAlone'
    BY <2>4 DEF ValidateAlone
  <2>6. CASE s = "c04"
    <3>1. GetEopUrl("c04")' = named /\ named \in C04Url
      BY <1>0, <2>2, <2>3, <2>6, ConstantAssumption DEF GetEopUrl, TypeOK, C04Url
    <3>2. head'["c04"] < 0
      <4>1. SeriesOf("c04") = s
        BY <2>6 DEF SeriesOf
      <4>2. head'["c04"] = IF curl["c04"] /\ head["c04"] # 0 THEN -1 ELSE head["c04"]
        BY <1>0, <2>2, <4>1 DEF HeadsAfterCleanup
      <4> QED
        BY <1>0, <4>2 DEF C04Inv, C04Handle, TypeOK
    <3>3. curl'["c04"]
      BY <1>0, <2>2, <2>6
    <3>4. head'["c04"] \in Int
      BY <1>0, <2>2 DEF HeadsAfterCleanup, TypeOK
    <3>5. C04HeadIsHeader' /\ C04Handle'
      BY <3>2, <3>4 DEF C04HeadIsHeader, HeadIsHeader, C04Handle
    <3>6. C04Requests'
      <4> HIDE DEF named
      <4> QED
        BY <2>4, <3>1, <3>2, <3>3 DEF C04Requests, C04Request, Transferring
    <3> QED
      BY <2>5, <3>1, <3>5, <3>6 DEF C04Inv
  <2>7. CASE s # "c04"
    <3>1. /\ GetEopUrl("c04")' = GetEopUrl("c04")
          /\ head'["c04"] = head["c04"] /\ (curl["c04"] => curl'["c04"])
      BY <1>0, <2>2, <2>3, <2>7 DEF GetEopUrl, HeadsAfterCleanup, SeriesOf, TypeOK
    <3>2. C04HeadIsHeader' /\ C04Handle'
      BY <3>1 DEF C04Inv, C04HeadIsHeader, HeadIsHeader, HeaderOf, SeriesOf, GetEopUrl, C04Handle
    <3>3. C04Requests'
      BY <2>4, <2>7 DEF C04Requests, C04Request, Transferring
    <3> QED
      BY <2>5, <3>1, <3>2, <3>3 DEF C04Inv
  <2> QED
    BY <2>6, <2>7
<1>10. ASSUME NEW p \in Proc, SetLeapUrl(p)
       PROVE  C04Inv'
  <2>1. UNCHANGED <<urls, head, curl, pc, arg>>
    BY <1>10 DEF SetLeapUrl
  <2> QED
    BY <2>1 DEF C04Inv, C04HeadIsHeader, HeadIsHeader, GetEopUrl, C04Handle, C04Requests, C04Request,
                ValidateAlone
\* A reset closes every handle, and so forgets the header.
<1>11. ASSUME NEW p \in Proc, ResetEop(p)
       PROVE  C04Inv'
  <2>1. /\ \A q \in Proc : pc[q] = "idle"
        /\ UNCHANGED <<pc, arg>>
        /\ urls' = [s \in Series |-> NoUrl]
        /\ head' = HeadsAfterCleanup(File)
    BY <1>11 DEF ResetEop, MayConfigure
  <2>2. GetEopUrl("c04")' \in C04Url
    BY <1>0, <2>1, ConstantAssumption DEF GetEopUrl, C04Url
  <2>3. head'["c04"] < 0 /\ head'["c04"] \in Int
    BY <1>0, <2>1 DEF HeadsAfterCleanup, C04Inv, C04Handle, TypeOK
  <2>4. C04HeadIsHeader' /\ C04Handle'
    BY <2>3 DEF C04HeadIsHeader, HeadIsHeader, C04Handle
  <2>5. C04Requests' /\ ValidateAlone'
    BY <2>1 DEF C04Requests, C04Request, ValidateAlone, Transferring
  <2> QED
    BY <2>2, <2>4, <2>5 DEF C04Inv
<1>12. CASE UNCHANGED vars
  BY <1>12 DEF vars, C04Inv, C04HeadIsHeader, HeadIsHeader, GetEopUrl, C04Handle, C04Requests,
               C04Request, ValidateAlone
<1> QED
  BY Steps, <1>1, <1>2, <1>3, <1>4, <1>5, <1>6, <1>7, <1>8, <1>9, <1>10, <1>11, <1>12
  DEF FetchStep, ConfigStep

\* If the program configures while no fetch is under way, head_bytes of the C04
\* table is that of the file in force once it is known, through failures, changes
\* of URL and resets, for any number of threads and any C04 files with headers.
THEOREM C04HeadsRight ==
    ASSUME QuietConfig, C04FilesHaveHeaders
    PROVE  Spec => []C04HeadIsHeader
<1>1. C04Inv => C04HeadIsHeader
  BY DEF C04Inv
<1>2. TypeInv => TypeOK
  BY DEF TypeInv
<1>3. TypeInv /\ LockDiscipline => HeadInv
  BY DEF HeadInv
<1> QED
  BY <1>1, <1>2, <1>3, InitTypeInv, NextTypeInv, InitLockDiscipline, NextLockDiscipline,
     InitC04Inv, NextC04Inv, PTL DEF Spec

=============================================================================
