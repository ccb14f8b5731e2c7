------------------------------ MODULE IersEop ------------------------------
(***************************************************************************)
(* The Earth Orientation Parameter (EOP) half of src/src/c99/iers.c: the   *)
(* threads of a program call novas_fetch_eop(), novas_set_eop_url() and    *)
(* novas_reset_eop() over the shared URL table, the four shared            *)
(* iers_data_file structures (each with one reusable cURL handle), and the *)
(* thread-local bracket that novas_fetch_eop() interpolates from.          *)
(*                                                                         *)
(* Dates are integers counted in table rows (jd_step is 1), offsets are    *)
(* counted in an abstract unit of which a row takes LineLen, and a row is  *)
(* known by the URL it was read from and the date it is for.  The network  *)
(* may fail any request.  Mutual exclusion of eop_mutex is taken for       *)
(* granted here: its lazy initialisation is the subject of LazyLock.       *)
(***************************************************************************)
EXTENDS Integers, FiniteSets

CONSTANTS
    Proc,           \* the threads of the calling program
    Jd,             \* the dates for which the program asks EOP
    CustomUrl,      \* the URLs the program may configure, for the series it configures
    Year,           \* the ITRF years the program may configure
    Served,         \* what a URL serves, as a record: see ServedAssumption
    DefaultUrl,     \* default_urls[]: one for each EOP series
    LineLen,        \* iers_data_file.line_len
    SparseLines,    \* C01_SPARSE_LINES
    JdStart,        \* iers_data_file.jd_start, for each file
    RapidEnd,       \* last date the rapid series is used for (now + 365 - n)
    QuietConfig,    \* TRUE if configuration calls never overlap other calls
    MaxVersion,     \* bound on the number of configuration changes
    NoUrl,          \* a NULL entry of urls[]
    NoProc,         \* the owner of a free mutex
    NoRow           \* a zeroed, partly parsed or never filled row

Series == {"rapid", "c04", "c01"}
File   == {"rapid", "c04", "c01_sparse", "c01"}

NoArg == [jd |-> 0, file |-> "c04", req |-> [url |-> NoUrl, off |-> 0], ok |-> TRUE]

SeriesOf(f) == IF f = "c01_sparse" THEN "c01" ELSE f

Url == UNION {CustomUrl[s] : s \in DOMAIN CustomUrl} \cup {DefaultUrl[s] : s \in Series}
Row == [url : Url, jd : Int]

StartLine(f) == IF f = "c01" THEN SparseLines ELSE 0
JdCheck(f)   == IF f = "c01" THEN JdStart["c01_sparse"] ELSE JdStart[f]

ASSUME ServedAssumption ==
    Served \in [Url -> [header : Nat, first : Int, last : Int]]

ASSUME ConstantAssumption ==
    /\ Jd \subseteq Int
    /\ DOMAIN CustomUrl \subseteq Series
    /\ Year \subseteq Int
    /\ DefaultUrl \in [Series -> Url]
    /\ LineLen \in Nat \ {0}
    /\ SparseLines \in Nat
    /\ JdStart \in [File -> Int]
    /\ JdStart["c01"] = JdStart["c01_sparse"] + SparseLines
    /\ RapidEnd \in Int
    /\ QuietConfig \in BOOLEAN
    /\ MaxVersion \in Nat
    /\ NoUrl \notin Url
    /\ NoProc \notin Proc
    /\ NoRow \notin Row

VARIABLES
    urls,           \* urls[]: the configured URL of each series, or NoUrl
    itrf,           \* itrf_years[]
    urlVersion,     \* url_version
    curl,           \* whether the cURL handle of each file is open
    head,           \* head_bytes of each file, -1 when not known
    lock,           \* the owner of eop_mutex, or NoProc
    pc,             \* where each thread is in its call
    arg,            \* the locals of the call in progress, or of the last one
    out,            \* what the last call of each thread returned
    tl,             \* the thread-local bracket of novas_fetch_eop()
    spoiled,        \* history: a fetch wrote to the rows and has not succeeded
    since           \* history: URLs in effect since urlVersion last changed

vars == <<urls, itrf, urlVersion, curl, head, lock, pc, arg, out, tl, spoiled, since>>

Step == 0 .. 3
DefaultYear == 2020

Request == [url : Url \cup {NoUrl}, off : Int]
Arg     == [jd : Int, file : File, req : Request, ok : BOOLEAN]
Bracket == [version : Int, from : Int, to : Int, rows : [Step -> Row \cup {NoRow}]]
Locked  == {"locked", "checkout", "validate"}
Pc      == {"idle", "lock", "fetch", "perform", "parse", "sync", "check"} \cup Locked

TypeOK ==
    /\ urls \in [Series -> Url \cup {NoUrl}]
    /\ itrf \in [Series -> Int]
    /\ urlVersion \in Nat
    /\ curl \in [File -> BOOLEAN]
    /\ head \in [File -> Int]
    /\ lock \in Proc \cup {NoProc}
    /\ pc \in [Proc -> Pc]
    /\ arg \in [Proc -> Arg]
    /\ out \in [Proc -> {"none", "ok", "error"}]
    /\ tl \in [Proc -> Bracket]
    /\ spoiled \in [Proc -> BOOLEAN]
    /\ since \in [Series -> SUBSET Url]

Init ==
    /\ urls = [s \in Series |-> NoUrl]
    /\ itrf = [s \in Series |-> DefaultYear]
    /\ urlVersion = 0
    /\ curl = [f \in File |-> FALSE]
    /\ head = [f \in File |-> IF f = "rapid" THEN 0 ELSE -1]
    /\ lock = NoProc
    /\ pc = [p \in Proc |-> "idle"]
    /\ arg = [p \in Proc |-> NoArg]
    /\ out = [p \in Proc |-> "none"]
    /\ tl = [p \in Proc |-> [version |-> -1, from |-> 0, to |-> -1, rows |-> [i \in Step |-> NoRow]]]
    /\ spoiled = [p \in Proc |-> FALSE]
    /\ since = [s \in Series |-> {DefaultUrl[s]}]

----------------------------------------------------------------------------
(* The files behind the URLs. *)

\* The header, in the sense of iers_data_file.head_bytes, of what u serves to f.
HeaderOf(f, u) == Served[u].header + StartLine(f) * LineLen

\* The row found at offset off of what u serves, NoRow if there is none there.
RowAt(u, off) ==
    LET k == (off - Served[u].header) \div LineLen
    IN  IF /\ off >= Served[u].header
           /\ Served[u].header + k * LineLen = off
           /\ Served[u].first + k <= Served[u].last
        THEN [url |-> u, jd |-> Served[u].first + k]
        ELSE NoRow

\* novas_get_eop_url()
GetEopUrl(s) == IF urls[s] = NoUrl THEN DefaultUrl[s] ELSE urls[s]

\* The table that novas_fetch_eop_array() reads a date from, and the dates of it
\* that leave room for one row before: NoFile for the dates before all tables.
Reaches(f, jd) == jd >= JdStart[f] + 1

FileFor(jd) ==
    IF Reaches("rapid", jd) /\ jd <= RapidEnd
    THEN "rapid"
    ELSE IF Reaches("c04", jd) THEN "c04"
    ELSE IF Reaches("c01", jd) THEN "c01"
    ELSE IF Reaches("c01_sparse", jd) THEN "c01_sparse"
    ELSE "none"

\* Fault: the handle is closed and the header it belonged to is kept.
HeadsKeptByCleanup(fs) == head

\* head_bytes after cleanup_handle_async() of the files fs: a file that has no
\* open handle keeps its header, as does one whose header is empty.
HeadsAfterCleanup(fs) ==
    [f \in File |-> IF f \in fs /\ curl[f] /\ head[f] # 0 THEN -1 ELSE head[f]]

\* The threads, p apart, with a transfer under way on the handle of f.
Transferring == {"perform", "checkout", "validate"}
Others(p, f) == {q \in Proc \ {p} : pc[q] \in Transferring /\ arg[q].file = f}

\* What the handle that p waits on may answer: the request of p or, the handle
\* being shared with a transfer of another thread, that thread's request.
Replies(p) == {arg[q].req : q \in {p} \cup Others(p, arg[p].file)}

\* checkout_eop_file_async() on the reply r: the comment lines that a reply from
\* offset 0 starts with are skipped, and the first row must be the expected one.
FirstOffset(r)    == IF r.off = 0 THEN Served[r.url].header ELSE r.off
CheckedOut(f, r)  == RowAt(r.url, FirstOffset(r)) \in [url : {r.url}, jd : {JdCheck(f)}]
HeadSeen(f, r)    == FirstOffset(r) - r.off + StartLine(f) * LineLen

----------------------------------------------------------------------------
(* novas_fetch_eop(), and the functions it calls. *)

Return(p, result) ==
    /\ pc' = [pc EXCEPT ![p] = "idle"]
    /\ arg' = [arg EXCEPT ![p] = [NoArg EXCEPT !.jd = arg[p].jd]]
    /\ out' = [out EXCEPT ![p] = result]

\* Fault: the bracket has no lower end.
BelowBracket(p, jd) ==
    /\ tl[p].version = urlVersion
    /\ jd <= tl[p].to

InBracket(p, jd) ==
    /\ tl[p].version = urlVersion
    /\ tl[p].from <= jd
    /\ jd <= tl[p].to

\* Only other fetches overlap a configuration call, if they are kept apart.
MayStart == QuietConfig => \A q \in Proc : pc[q] # "validate"

FetchHit(p, jd) ==
    /\ pc[p] = "idle" /\ MayStart
    /\ InBracket(p, jd)
    /\ arg' = [arg EXCEPT ![p].jd = jd]
    /\ out' = [out EXCEPT ![p] = "ok"]
    /\ UNCHANGED <<urls, itrf, urlVersion, curl, head, lock, pc, tl, spoiled, since>>

FetchTooEarly(p, jd) ==
    /\ pc[p] = "idle" /\ MayStart
    /\ ~InBracket(p, jd)
    /\ FileFor(jd) = "none"
    /\ arg' = [arg EXCEPT ![p].jd = jd]
    /\ out' = [out EXCEPT ![p] = "error"]
    /\ tl' = [tl EXCEPT ![p].rows[0] = NoRow]
    /\ spoiled' = [spoiled EXCEPT ![p] = TRUE]
    /\ UNCHANGED <<urls, itrf, urlVersion, curl, head, lock, pc, since>>

FetchMiss(p, jd) ==
    /\ pc[p] = "idle" /\ MayStart
    /\ ~InBracket(p, jd)
    /\ FileFor(jd) \in File
    /\ pc' = [pc EXCEPT ![p] = "lock"]
    /\ arg' = [arg EXCEPT ![p] = [NoArg EXCEPT !.jd = jd, !.file = FileFor(jd)]]
    /\ out' = [out EXCEPT ![p] = "none"]
    /\ UNCHANGED <<urls, itrf, urlVersion, curl, head, lock, tl, spoiled, since>>

\* Fault: the mutex is taken over from its owner.
LockEopAnyway(p) ==
    /\ pc[p] = "lock"
    /\ lock' = p
    /\ pc' = [pc EXCEPT ![p] = "locked"]
    /\ UNCHANGED <<urls, itrf, urlVersion, curl, head, arg, out, tl, spoiled, since>>

LockEop(p) ==
    /\ pc[p] = "lock"
    /\ lock = NoProc
    /\ lock' = p
    /\ pc' = [pc EXCEPT ![p] = "locked"]
    /\ UNCHANGED <<urls, itrf, urlVersion, curl, head, arg, out, tl, spoiled, since>>

\* The offset of the row before the date, of the table f with header h.
Offset(f, h, jd) == h + LineLen * (jd - 1 - JdStart[f])

UnlockWithOffset(p, h) ==
    /\ lock' = NoProc
    /\ pc' = [pc EXCEPT ![p] = "fetch"]
    /\ arg' = [arg EXCEPT ![p].req.off = Offset(arg[p].file, h, arg[p].jd)]

HeadKnown(p) ==
    /\ pc[p] = "locked"
    /\ head[arg[p].file] >= 0
    /\ UnlockWithOffset(p, head[arg[p].file])
    /\ UNCHANGED <<urls, itrf, urlVersion, curl, head, out, tl, spoiled, since>>

HeadUnknown(p) ==
    LET f == arg[p].file IN
    /\ pc[p] = "locked"
    /\ head[f] < 0
    /\ pc' = [pc EXCEPT ![p] = "checkout"]
    /\ curl' = [curl EXCEPT ![f] = TRUE]
    /\ arg' = [arg EXCEPT ![p].req = [url |-> GetEopUrl(SeriesOf(f)), off |-> 0]]
    /\ UNCHANGED <<urls, itrf, urlVersion, head, lock, out, tl, spoiled, since>>

CheckoutOk(p) ==
    LET f == arg[p].file IN
    /\ pc[p] = "checkout"
    /\ \E r \in Replies(p) :
          /\ CheckedOut(f, r)
          /\ head' = [head EXCEPT ![f] = HeadSeen(f, r)]
          /\ UnlockWithOffset(p, HeadSeen(f, r))
    /\ UNCHANGED <<urls, itrf, urlVersion, curl, out, tl, spoiled, since>>

\* Fault: the error path returns with the mutex locked.
CheckoutFailsLocked(p) ==
    /\ pc[p] = "checkout"
    /\ pc' = [pc EXCEPT ![p] = "sync"]
    /\ arg' = [arg EXCEPT ![p].ok = FALSE]
    /\ UNCHANGED <<urls, itrf, urlVersion, curl, head, lock, out, tl, spoiled, since>>

CheckoutFails(p) ==
    /\ pc[p] = "checkout"
    /\ lock' = NoProc
    /\ pc' = [pc EXCEPT ![p] = "sync"]
    /\ arg' = [arg EXCEPT ![p].ok = FALSE]
    /\ UNCHANGED <<urls, itrf, urlVersion, curl, head, out, tl, spoiled, since>>

\* novas_fetch_eop_chunk(), called after unlock_eop().
StartTransfer(p) ==
    LET f == arg[p].file IN
    /\ pc[p] = "fetch"
    /\ pc' = [pc EXCEPT ![p] = "perform"]
    /\ curl' = [curl EXCEPT ![f] = TRUE]
    /\ arg' = [arg EXCEPT ![p].req.url = GetEopUrl(SeriesOf(f))]
    /\ UNCHANGED <<urls, itrf, urlVersion, head, lock, out, tl, spoiled, since>>

TransferOk(p) ==
    /\ pc[p] = "perform"
    /\ curl[arg[p].file]
    /\ pc' = [pc EXCEPT ![p] = "parse"]
    /\ \E r \in Replies(p) : arg' = [arg EXCEPT ![p].req = r]
    /\ UNCHANGED <<urls, itrf, urlVersion, curl, head, lock, out, tl, spoiled, since>>

TransferFails(p) ==
    /\ pc[p] = "perform"
    /\ pc' = [pc EXCEPT ![p] = "sync"]
    /\ arg' = [arg EXCEPT ![p].ok = FALSE]
    /\ UNCHANGED <<urls, itrf, urlVersion, curl, head, lock, out, tl, spoiled, since>>

\* The loop over the four rows, which writes them to the thread-local array one
\* by one and stops at row n if the leap seconds or the row itself are no good.
ParseRows(p) ==
    LET row(i) == RowAt(arg[p].req.url, arg[p].req.off + i * LineLen) IN
    /\ pc[p] = "parse"
    /\ \E n \in 0 .. 4 :
          /\ \A i \in Step : i < n => row(i) # NoRow
          /\ tl' = [tl EXCEPT ![p].rows =
                       [i \in Step |-> IF i < n THEN row(i)
                                       ELSE IF i = n THEN NoRow ELSE tl[p].rows[i]]]
          /\ arg' = [arg EXCEPT ![p].ok = (n = 4)]
    /\ spoiled' = [spoiled EXCEPT ![p] = TRUE]
    /\ pc' = [pc EXCEPT ![p] = "sync"]
    /\ UNCHANGED <<urls, itrf, urlVersion, curl, head, lock, out, since>>

\* The two C01 tables are parts of one file: novas_fetch_eop_array() derives the
\* header of the one from that of the other, whether or not the fetch succeeded.
SyncHeads(f) ==
    head' = CASE f = "c01"        -> [head EXCEPT !["c01_sparse"] = head["c01"] - SparseLines * LineLen]
              [] f = "c01_sparse" -> [head EXCEPT !["c01"] = head["c01_sparse"] + SparseLines * LineLen]
              [] OTHER            -> head

Sync(p) ==
    /\ pc[p] = "sync"
    /\ SyncHeads(arg[p].file)
    /\ \/ /\ arg[p].ok
          /\ pc' = [pc EXCEPT ![p] = "check"]
          /\ UNCHANGED <<arg, out>>
       \/ /\ ~arg[p].ok
          /\ Return(p, "error")
    /\ UNCHANGED <<urls, itrf, urlVersion, curl, lock, tl, spoiled, since>>

\* Fault: the rows obtained are not checked against the date.
AlignedUnchecked(p) == TRUE

Aligned(p) == tl[p].rows[1].jd <= arg[p].jd /\ arg[p].jd <= tl[p].rows[2].jd

FetchAligned(p) ==
    /\ pc[p] = "check"
    /\ Aligned(p)
    /\ tl' = [tl EXCEPT ![p].from = tl[p].rows[1].jd,
                        ![p].to = tl[p].rows[2].jd,
                        ![p].version = urlVersion]
    /\ spoiled' = [spoiled EXCEPT ![p] = FALSE]
    /\ Return(p, "ok")
    /\ UNCHANGED <<urls, itrf, urlVersion, curl, head, lock, since>>

FetchMisaligned(p) ==
    /\ pc[p] = "check"
    /\ ~Aligned(p)
    /\ Return(p, "error")
    /\ UNCHANGED <<urls, itrf, urlVersion, curl, head, lock, tl, spoiled, since>>

----------------------------------------------------------------------------
(* The configuration calls. *)

MayConfigure == QuietConfig => \A q \in Proc : pc[q] = "idle"

\* Fault: the caches of the threads are not outdated by a change.
SameVersion == urlVersion

NextVersion == urlVersion + 1

\* novas_set_eop_url(), up to the request for the head of the new file.
SetEopUrl(p, s, u, year) ==
    /\ pc[p] = "idle" /\ MayConfigure
    /\ lock = NoProc
    /\ urlVersion < MaxVersion
    /\ lock' = p
    /\ urls' = [urls EXCEPT ![s] = u]
    /\ urlVersion' = NextVersion
    /\ itrf' = [itrf EXCEPT ![s] = IF u = NoUrl THEN DefaultYear
                                   ELSE IF year < 1988 THEN 1988 ELSE year]
    /\ head' = HeadsAfterCleanup({f \in File : SeriesOf(f) = s})
    /\ curl' = [f \in File |-> f = s \/ (curl[f] /\ SeriesOf(f) # s)]
    /\ since' = [t \in Series |-> {IF t # s THEN GetEopUrl(t) ELSE IF u = NoUrl THEN DefaultUrl[s] ELSE u}]
    /\ pc' = [pc EXCEPT ![p] = "validate"]
    /\ arg' = [arg EXCEPT ![p] = [NoArg EXCEPT !.file = s,
                                               !.req.url = IF u = NoUrl THEN DefaultUrl[s] ELSE u]]
    /\ out' = [out EXCEPT ![p] = "none"]
    /\ UNCHANGED <<tl, spoiled>>

ValidateOk(p) ==
    LET f == arg[p].file IN
    /\ pc[p] = "validate"
    /\ \E r \in Replies(p) :
          /\ CheckedOut(f, r)
          /\ head' = [head EXCEPT ![f] = HeadSeen(f, r)]
    /\ lock' = NoProc
    /\ Return(p, "none")
    /\ UNCHANGED <<urls, itrf, urlVersion, curl, tl, spoiled, since>>

ValidateFails(p) ==
    /\ pc[p] = "validate"
    /\ lock' = NoProc
    /\ Return(p, "none")
    /\ UNCHANGED <<urls, itrf, urlVersion, curl, head, tl, spoiled, since>>

\* novas_set_eop_url() for the leap seconds list: no lock, but a new version.
SetLeapUrl(p) ==
    /\ pc[p] = "idle" /\ MayConfigure
    /\ urlVersion < MaxVersion
    /\ urlVersion' = NextVersion
    /\ since' = [s \in Series |-> {GetEopUrl(s)}]
    /\ out' = [out EXCEPT ![p] = "none"]
    /\ UNCHANGED <<urls, itrf, curl, head, lock, pc, arg, tl, spoiled>>

\* novas_reset_eop(), apart from the leap seconds list.
ResetEop(p) ==
    /\ pc[p] = "idle" /\ MayConfigure
    /\ lock = NoProc
    /\ urls' = [s \in Series |-> NoUrl]
    /\ head' = HeadsAfterCleanup(File)
    /\ curl' = [f \in File |-> FALSE]
    /\ since' = [s \in Series |-> since[s] \cup {DefaultUrl[s]}]
    /\ out' = [out EXCEPT ![p] = "none"]
    /\ UNCHANGED <<itrf, urlVersion, lock, pc, arg, tl, spoiled>>

----------------------------------------------------------------------------

FetchStep(p) ==
    \/ LockEop(p) \/ HeadKnown(p) \/ HeadUnknown(p)
    \/ CheckoutOk(p) \/ CheckoutFails(p)
    \/ StartTransfer(p) \/ TransferOk(p) \/ TransferFails(p)
    \/ ParseRows(p) \/ Sync(p) \/ FetchAligned(p) \/ FetchMisaligned(p)

ConfigStep(p) == ValidateOk(p) \/ ValidateFails(p)

Call(p) ==
    \/ \E jd \in Jd : FetchHit(p, jd) \/ FetchTooEarly(p, jd) \/ FetchMiss(p, jd)
    \/ \E s \in DOMAIN CustomUrl : \E u \in CustomUrl[s] \cup {NoUrl}, y \in Year : SetEopUrl(p, s, u, y)
    \/ SetLeapUrl(p)
    \/ ResetEop(p)

Next == \E p \in Proc : Call(p) \/ FetchStep(p) \/ ConfigStep(p)

Spec == Init /\ [][Next]_vars

\* A thread inside a call is scheduled, and every transfer ends one way or
\* another.  Nothing makes the program call again, and a thread may overtake
\* another at the mutex without end.
Fairness == \A p \in Proc : WF_vars(FetchStep(p) \/ ConfigStep(p))

FairSpec == Spec /\ Fairness

----------------------------------------------------------------------------
(* Properties. *)

\* eop_mutex is held exactly in the critical sections: every path out of
\* novas_fetch_eop_from_file() and novas_set_eop_url(), errors included,
\* unlocks it, once.
LockDiscipline == \A p \in Proc : pc[p] \in Locked <=> lock = p

RowsBracket(p, jd) ==
    LET rows == tl[p].rows IN
    /\ \A i \in Step : rows[i] # NoRow
    /\ \A i \in Step : rows[i] = [url |-> rows[1].url, jd |-> rows[1].jd + i - 1]
    /\ rows[1].jd <= jd
    /\ jd <= rows[2].jd

\* What novas_fetch_eop() interpolates, when it returns 0 and no call of the
\* thread has failed since it last read the tables, are four consecutive rows
\* of one file, two of them on each side of the date: even if fetches of other
\* threads used the same cURL handle at the same time.
AnswerFromBracket ==
    \A p \in Proc : out[p] = "ok" /\ ~spoiled[p] => RowsBracket(p, arg[p].jd)

\* Note 5 of novas_fetch_eop(): a call for a date in the bracket interpolates
\* from the data last obtained, whatever other calls have failed in between.
AnswerDespiteFailures ==
    \A p \in Proc : out[p] = "ok" => RowsBracket(p, arg[p].jd)

\* A bracket that a thread may still interpolate from is from a URL configured
\* for its series at some time since the last novas_set_eop_url(): no data of
\* a URL that was replaced is served, in any thread.
CacheFromConfiguredUrl ==
    \A p \in Proc :
        /\ tl[p].version = urlVersion
        /\ tl[p].from <= tl[p].to
        /\ ~spoiled[p]
        => \E s \in Series : tl[p].rows[1].url \in since[s]

HeadIsHeader(f) == head[f] >= 0 => head[f] = HeaderOf(f, GetEopUrl(SeriesOf(f)))

\* Once known, head_bytes is the size of what precedes the rows in the file the
\* series is configured to: for the C04 table, through failed requests,
\* changes of URL and resets.
C04HeadIsHeader == HeadIsHeader("c04")

\* The same for the two tables that share the C01 file.
C01HeadIsHeader == HeadIsHeader("c01") /\ HeadIsHeader("c01_sparse")

\* A series that is not configured has the ITRF year of the default file.
ItrfFollowsUrl == \A s \in Series : urls[s] = NoUrl => itrf[s] = DefaultYear

\* No two threads have a transfer under way on one cURL handle.
HandleExclusive == \A p \in Proc : pc[p] \in Transferring => Others(p, arg[p].file) = {}

\* A thread that holds eop_mutex eventually releases it.
LockReleased == \A p \in Proc : lock = p ~> lock # p

=============================================================================
