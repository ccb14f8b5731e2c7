# A TLA+ verification of SuperNOVAS

SuperNOVAS is a positional-astronomy library: C99 code in `src/c99` with its API in
`include/novas.h`, and C++ classes over it in `src/cpp` with their API in
`include/supernovas.h`.  It takes a time, an observer and a source and computes where the
source appears.  Most lines of it are numerical; its *control* is in what surrounds the
formulas: caches and memoised values, tables that are fetched from the network, plugins that
share one ephemeris library among threads, protocols of initialisation, and calendars and
time stamps with their edges.  That is what is modelled here.

## 1. Inventory

| Component | Code | State it keeps | Operations | What is hard, and what makes it right |
|---|---|---|---|---|
| Earth orientation parameters (EOP) | `src/c99/iers.c` | URL table and its version, four files with a cURL handle and a header size each, `eop_mutex`, a thread-local bracket of four rows | `novas_fetch_eop`, `novas_set_eop_url`, `novas_reset_eop` | network failures between steps, handles shared by threads, offsets computed under the lock and used after it, caches outdated by version.  Right if what is interpolated brackets the date and comes from a configured file |
| Leap seconds | `src/c99/iers.c` | the list, its expiration, `leap_mutex` | `novas_lookup_leap`, `novas_set_leap_list` | expiry and refresh, entries read after the unlock, ends of intervals |
| Locks | `include/novas-mutex.h`, `iers.c`, `solsys-cspice.c`, `solsys-calceph.c` | mutex and its "initialised" flag | lock, unlock | mutexes initialised on first use, without synchronisation |
| CSPICE plugin | `src/c99/solsys-cspice.c` | the process-wide error state, error action and kernel pool of CSPICE, a mutex | `novas_use_cspice*`, kernels, the providers | calls of a library that is not reentrant, error state reset and read in several calls, settings that have to be made before anything may fail |
| CALCEPH plugin | `src/c99/solsys-calceph.c` | the two ephemeris handles, two locks, flags | `novas_use_calceph*`, providers | which lock guards which handle when the two are the same |
| Ephemeris dispatch | `src/c99/planets.c`, `ephemeris.c`, `solsys-ephem.c`, `solsys3.c` | registered provider functions | `set_planet_provider`..., `ephemeris` | origin translation, fallbacks, errors on the way |
| Memoised results | `cio.c`, `earth.c`, `equator.c`, `nutation.c`, `place.c`, `timescale.c` | thread-local "last" arguments and results | `cio_basis`, `novas_gast`, `nutation_angles`, `place`, ... | keys that leave out an input, keys stored before the value is known |
| Time | `src/c99/timescale.c` | a `novas_timespec` | set, offset, split, UNIX time, time stamps | carries between parts, times before the epoch, rounding to the next unit |
| Calendar | `src/c99/calendar.c` | none | date to day and back, three calendars | reform gap, leap years, negative days |
| Parsing | `src/c99/parse.c` | none | angles, times, dates, time zones | fields, separators, signs, rests |
| Frames | `src/c99/frames.c`, `transform.c`, `system.c` | `novas_frame` with its state marks | make, change observer, transforms | initialised marks, inverse chains, aliasing of input and output |
| Identifiers | `src/c99/naif.c` | none | NOVAS, NAIF and DE numbers | that the maps are inverses |
| Objects and observers | `target.c`, `observer.c` | structures filled by the caller | make, compare | validation |
| Errors and traces | `util.c` | `errno`, the debug mode | `novas_error`, `novas_trace` | none beyond what the callers' models keep |
| Numerical models | `moon.c`, `orbital.c`, `grav.c`, `refract.c`, `spectral.c`, `itrf.c`, `nutation.c`, `include/elp2000`, `include/nutation`, `include/eop` | none | formulas and series | floating-point accuracy, which TLC cannot reach |
| Searches and tracks | `frames.c`, `moon.c`, `src/cpp/Track.cpp`, `Source.cpp` | a `novas_track` | next rising, setting, transit or phase; tracks and positions from them | estimates that must settle on the *next* time while the source moves; angles that pass the origin |
| C++ API | `src/cpp` | immutable values, and `CatalogEntry`, `OrbitalSystem`, `Orbital`, which chains of calls change | constructors, `validate`, conversions, setters | what a chain of refused and accepted values leaves |
| NOVAS C 3.1 compatibility, tests, examples, docs, build | `legacy`, `test`, `examples`, `doc`, `cmake` | - | - | not the library's own logic |

### How the parts interact

- The program's threads call the library; the library starts none of its own and calls back only
  into functions the program registered (ephemeris providers, nutation, time handlers).
- Shared by all threads: the EOP tables' URLs, handles and header sizes (`eop_mutex`), the leap
  seconds list (`leap_mutex`), the CSPICE toolkit (`mutex` of `solsys-cspice.c`), the two CALCEPH
  handles (`planet_mutex`, `bodies_mutex`), and unguarded settings: accuracy switches, providers,
  the debug mode.
- Per thread: the EOP bracket of `novas_fetch_eop()`, and every "last result" of the memoising
  functions.  A change of a shared setting reaches them only through a version number
  (`url_version`) or a key that includes it.
- `novas_time`/`timescale.c` needs leap seconds (`novas_lookup_leap`), EOP needs leap seconds too
  (`novas_fetch_eop_chunk` converts TAI dates), frames need both through the caller.

## 2. Plan

Order: shared state and failures first, because no test of the repository runs two threads or
fails a request half way; then the arithmetic whose edges tests sample sparsely.

| # | Modules | Abstract specification | State |
|---|---|---|---|
| 1 | `IersEop`, `IersEopProofs` | the bracket of consecutive rows (`RowsBracket`) | done |
| 2 | `LeapList`, `LeapSeconds`, `LeapSecondsProofs` | what a file publishes (`Published`) | done |
| 3 | `LazyLock`, `CspicePlugin`, `CalcephPlugin`, and a `Proofs` module of each | `ExclusiveUse` | done |
| 4 | `Calendar`, `CivilCalendar`, `TimesProofs` | a walk through the months of a calendar | done |
| 5 | `Ephemerides` | vectors between named bodies; whatever is registered, the one asked for or none | done |
| 6 | `Moments`, `Cio`, `Places`, the memos in `Conversions` | each call returns what it would compute afresh | done; `tt2tdb()` and the memos keyed by all their inputs left out |
| 7 | `TimeSpecs`, `TimesProofs` | a time is one number of ticks, in the scale it was set in | done, without TCB and TCG |
| 8 | `Rotations`, `Conversions`, `Observers`, `ObservingFrames`, `ConversionsProofs`, `SkyProofs` | a direction is the word of rotations that leads to it, whatever functions it went through | done, without rates and refraction |
| 9 | `Sexagesimal`, `DateTexts`, `TimesProofs`, `SkyProofs` | what is printed is read back | done, without the spelling |
| 10 | `Circles`, `Crossings`, `Tracks`, `Builders`, `SkyProofs` | the first crossing after a time; the path that is followed; the object that was asked for | done |
| 11 | `naif.c`, comparison of objects and observers, Besselian and orbital helpers, the other classes of `src/cpp` | bijections, equivalences | open, of little state |

`LazyLock` and `CalcephPlugin` each implement `ExclusiveUse`; `CspicePlugin` does so for the kernels and errors of
CSPICE but not for its settings (`SerialWork`; section 7); `LeapSeconds` and
`IersEop` take a correct mutex for granted, which is what `LazyLock` establishes.  `Ephemerides` takes
providers as functions that answer or fail, which is what the plugins promise (`SerialAccess` of
`CalcephPlugin`, `PlanetFound`, `ErrorIsOwn`, `ErrorsReturn`).  `Places` and `ObservingFrames` extend `Observers`, and that `Ephemerides`,
so that every failure of a provider reaches the places and frames that rest on it.  `MCSession` puts
all modules of one thread together.

Theorems worth proving next: those of the parts in row 11, when they are modelled.

## 3. The modules and the code

### IersEop: `novas_fetch_eop()` and the configuration of the EOP tables

| State | Code |
|---|---|
| `urls`, `itrf`, `urlVersion` | `urls[]`, `itrf_years[]`, `url_version` |
| `curl[f]`, `head[f]` | whether `iers_data_file.curl` is open; `head_bytes` |
| `lock` | the owner of `eop_mutex` |
| `tl[p]` | the thread-local rows, `jd_from`, `jd_to`, `version` of `novas_fetch_eop()` |
| `pc[p]`, `arg[p]`, `out[p]` | where thread p is in its call, the call's locals, what it returned |
| `spoiled`, `since` | history variables, which no action reads |

A fetch is cut where another thread can come between: the check of the bracket (`FetchHit`,
`FetchTooEarly`, `FetchMiss`), `LockEop`, the header under the lock (`HeadKnown`, `HeadUnknown`
followed by `CheckoutOk`/`CheckoutFails`), the request after the unlock (`StartTransfer`,
`TransferOk`, `TransferFails`), the four rows (`ParseRows`), the derived header of the other C01
table (`Sync`), and the check of the dates (`FetchAligned`, `FetchMisaligned`).  cURL handles are
used after the unlock, so `Replies` gives a transfer the answer of its own request or that of another
thread's on the same handle.  Every request may fail.

Data left out: the columns of a row, the weights of the interpolation, conversions between time
scales.  A row is known by its URL and its date; a file by the size of its header and its first and
last date.  A header is counted in a unit of which a row takes `LineLen`, so that a wrong header may
be off by less than a row.

Assumption `QuietConfig`: `novas_set_eop_url()` and `novas_reset_eop()` do not overlap fetches, as
their notes ask ("not thread-safe", `iers.c:857-858`).

### LeapList, LeapSeconds: the list of leap seconds

`ParseLeaps` folds `ReadLine` over the lines of a file as `parse_leaps()` does: an entry takes the
expiration read so far for its end, and gives its start to the entry before it; the list is built
front first.  `Holding` and `Beyond` are the search of `novas_lookup_leap()`.  `ToInt` is the
conversion to the `int` fields.  `LeapSeconds` has the threads: `LookupLeap` locks, `UseList`,
`StartFetch` or `FetchDisabled` decide what `Outdated` says, `FetchOk`/`FetchFails` end the fetch,
`BeyondCoverage`, `EntryFound`, `NoEntry` end the search, and `ReadEntry` reads the entry after the
unlock.  `Tick` is the clock, and `Publish` changes what IERS serves.  The configuration calls come
when no lookup is under way (`Quiet`).

### LazyLock, ExclusiveUse: mutexes that the first call initialises

Each plain read and write of `lock_eop()` (and its two copies) is a step: the test of the flag,
`InitLock`, `MarkInitialized`, `Lock`.  Initialising a mutex leaves it free, as it does in the
pthread build.  `FirstAlone` says that the first call returns before another begins.
`ExclusiveUse` is the abstract specification: a resource is begun by a thread only when no other
uses it.

### CspicePlugin

`kernels`, `pending` and `action` are the state of the toolkit: its kernels, whether an error is pending, and what is
done about one.  `mutex` guards the first two.  A call goes `lock`,
`reset`, `work`, `check`, `unlock`; a planet that fails under its own number goes back to `work` with
the number that DE files have for it (`Retry`).  `CspiceCall` is external: with the error action
RETURN a routine does nothing while an error is pending.  `novas_use_cspice_planets()`, `novas_use_cspice_ephem()`,
`cspice_add_kernel()` and `cspice_remove_kernel()` begin with `suppress_cspice_errors()` (`SuppressErrors`), which
sets the action, without the mutex and so at any moment of another thread's call.  It neither sets nor resets an error.
`provides` holds what the plugin has been registered for (`UseCspice`): only then can its lookups be called, which are
private.  A body asked for by name is looked up
before the mutex is locked (`NameReset`, `NameFind`, `NameCheck`); `QuietNames` keeps those lookups
apart from other calls.

### CalcephPlugin

`planets` and `bodies` are the two ephemerides, `planetMutex` and `bodiesMutex` their locks.  A
planet query locks the first, reads the handle, and locks the second also if both are one; a thread
safe ephemeris is let go at once unless `serialized`.  What is to be unlocked is decided by reading
`bodies` again (`TestSameBodies`).  `QuietConfig` and `QuietNames` keep configuration and lookups by
name apart from queries.

### Calendar, CivilCalendar

`Calendar` translates the four functions of `calendar.c` into operators over whole hours from JD 0,
with the truncating division of C.  `CivilCalendar` knows nothing of their arithmetic: it walks month
by month from days whose dates are known, counting days, weekdays and days of the year, and asks
for every day of each month whether the operators say the same.

### Rotations, Conversions, Moments: coordinate systems

A direction is not three numbers but the word of rotations that leads to it from its place in the GCRS
(`Rotations`).  A rotation carries a name and what its angles were computed from: the date, the model of
nutation, the celestial pole offset.  `Turn` cancels a rotation against its inverse, and nothing else
cancels, so that a step that is left out, taken twice, taken in the wrong order or for another date stays
visible.  `Precess` is `precession()`, which goes by way of J2000.

`Conversions` has a direction `pos`, the system it is in, and actions for the functions that convert it:
the pairs of `transform.c` and `system.c` (`ConvertIcrs`, `ConvertTod`, `ConvertDate`, `ConvertEra`,
`ConvertGst`, `ConvertHorizon`, `ConvertEcliptic`, `ConvertGalactic`), and those of `frames.c` with the matrices of an observing frame (`UseFrame`,
`GeomToApp`, `AppToGeom`, `FrameToItrs`, `AppToHor`, `HorToApp`, `TransformTo`).  `Angles` and `Gast` are the memos of
`nutation_angles()` and `novas_gast()`, keyed as there; `CelPole` is `cel_pole()`, `SiderealTime` a call
of `novas_gast()`.  A direction that a stale memo has touched is marked, see section 7.  The provider of
low-precision nutation is registered before its first use.  `NoTime` is the date of a memo that was never filled.

### TimeSpecs: `novas_timespec`

Instants are integers: a fraction of a day is so many ticks, a second, a millisecond and a nanosecond
are numbers of ticks.  `SetSplitTime`, `SetUnixTime`, `OffsetTime`, `GetSplitTime`, `DiffTimeScale`,
`UnixTime`, `Stamp` are the functions with those names; `Offset` is `tt_offset()`.  `Set`, `SetUnix` and
`Shift` are the program's calls; `told` remembers, for each time, what it was last set to and in which scale.

### Ephemerides, Observers, Places, Cio, ObservingFrames

`Ephemerides`: which functions are registered (`planetCall`, `planetCallHp`, `ephemCall`, `allowLp`), and
`Ephemeris`, which answers with the vector of a body from an origin, as a pair of names and a date, or fails.  Adding vectors
that do not meet gives `Garbage`.  `Outages` are the sets of bodies that providers may fail for, different in each call.
`Observers` has what `observer.c` makes of it: where the observer is and what bodies are seen.
`Places` is `place()` with its memo of Earth and Sun, in the order of the code: `PlaceNoEarth`, `PlaceNoSun`
end it after part of the memo was written.  `Cio` has the two memos of `cio.c`.  `ObservingFrames` has
frames that are made (`MakeFrame`) and given other observers, in place or not (`ChangeObserver`), any of
which may fail; `GeomPosvel` reads them.

### Sexagesimal, DateTexts

A text is a record of what its reader tells apart.  `PrintDms`, `PrintHms` and `Read` are translations of
the printers and the parser; `TextNext` prints, changes the form or the unit, adds compass letters and prints
what was read once more, as `Angle::to_string()` and `TimeAngle::to_string()` do.  `DateTexts` does the same for dates with a time zone and for
time stamps, on the days of the walks of `CivilCalendar`.

### Crossings, Tracks

`Crossings` has one search for a crossing (`novas_cross_el_date()`, which `novas_rises_above()`,
`novas_sets_below()` and `novas_transit_time()` call) and one for a phase of the Moon.  Each estimate is a step
(`EstimateCrossing`, `EstimatePhase`), which may fail; `Later` and `FirstForward` are the rules that take an
estimate forward.  How sources move is a constant (`Ra`, `HalfArc`, `Elongation`); `AreSlow` and `KeepsPace` say how fast
that may be, and `EnoughTries` that the tries are enough to halve the first error until it is within the tolerance.  An hour angle within the tolerance is a time
within `Slack` only, since a source, or the Moon, may go at another rate than the estimates take.  `Tracks` fills a track from three positions, any of which may fail
(`EquTrack`, `HorTrack`, `CppTrack`), and projects it to other times (`TrackPos`).

### Builders

`CatalogEntry` and `Orbital` of the C++ API with their setters, each of which may be given a value that it
refuses.  Values are kinds: some number, zero, negative, NAN, above the speed of light.  `Marked` is the rule by
which the code makes an object valid or invalid.

### MCSession

One thread in any of eleven parts, each a module or two with their own state: `conversions`, `times`, `cio`, `places`,
`frames`, `texts`, `crossings`, `phases`, `tracks`, `entries`, `orbits`.  The parts share constants, and `places` and
`frames` the registered providers.

## 4. The runs

Every run is of an `MC` module, which only gives values to the constants; the `.cfg` files name the
instances.

| Run | Instance | What it shows |
|---|---|---|
| `eop_fetch` | one thread; a date before all tables and some in each of them, at their edges (`MCJdSingle`); the C04 and the C01 URL may become mirrors, whose headers have other sizes; one change of a URL (`MaxVersion`), and resets | whatever requests fail, what is interpolated is a bracket of the date (`AnswerFromBracket`), and the C04 header stays that of the configured file (`C04HeadIsHeader`) |
| `eop_threads` | two threads, one date, both kinds of C04 URL, one configuration call, `FairSpec` | the mutex is held exactly in the critical sections, comes free, and no thread serves rows of a URL that was replaced |
| `eop_spoiled` | one thread, two dates of one table and one too early | the counterexample of section 7 |
| `leap` | two threads; two files as IERS publishes them, one with its expiration last and one that does not parse; eight times, around every leap second and expiration; six ticks of the clock, two lists read | the mutex is held exactly in lookups; answers before the expiration are what the file says |
| `lock` | five threads, the first call alone, `FairSpec` | implements `ExclusiveUse`; as long as someone wants the lock, someone gets it |
| `lock_race` | two threads whose first calls may overlap | the counterexample of section 7 |
| `cspice` | two threads, a DE kernel and one of Mars; Mars by the number that only its own kernel has and by that of its barycenter, Earth, and an asteroid that no kernel has | errors are reported to the call that made them; planets are found by either number; whoever registers the plugin or adds kernels, nothing that may fail runs under an error action that would end the program or hide the failure (`ErrorsReturn`) |
| `cspice_names` | the same, lookups by name at any time | the counterexample of section 7 |
| `calceph` | two threads; three ephemerides, one of them thread-safe; every change of configuration between queries; `FairSpec` | no ephemeris that is not thread-safe is used by two threads; unlocks are by the owner; every call returns |
| `calendar` | five starting points, 1600 years from each, the hours 0, 11, 12 and 23 of every day | dates, days, weekdays and days of the year are those of the calendars; on the first and last days of months, local times of the zones -12, 0 and 13 and time stamps are read as the instants they stand for (`DateTextsReadBack`) |
| `session` | the parts of `MCSession`, see below | directions are where they should be in every system (`CelestialImage`, `EarthImage`); times read as set and differ by what elapsed (`ReadsAsSet`, `DiffIsElapsed`, `UnixIsNearest`, `StampIsNearest`); no memo answers for another date (`CioOfItsDate`, `PlaceOfItsDate`); answers have the origin asked for (`AnswerAsAsked`); frames are whole and seen from their observer (`FramesWhole`, `SeenFromObserver`); texts are read back (`TextsReadBack`); searches find the next one (`CrossingIsNext`, `NeverBefore`, `PhaseIsNext`); tracks follow (`TrackFollows`); valid objects are sane (`MarksAreTrue`) |
| `calendar_spring` | one year from each starting point | the counterexample of section 7 |

The bounds of `session`.  *Conversions, memos*: the dates -40, 0 and 30, of which one is J2000; two accuracies, two models of
nutation, two pole offsets; every path through the conversions, as long as it leads to new words.  *Times*: a day of six seconds of two
milliseconds of two nanoseconds of a tick, with fractions below zero and above a day, shifts over more
than a day in both directions, times before the epoch, leap seconds and none.  *Providers*: one planet besides Sun and Earth, one body of
the provider of small bodies and one that orbits; at a time all can be found, or all but the Sun and a small body, or all but the Earth, the barycenter and the planet.
*Frames*: two.  *Texts*: a circle of four degrees of three minutes of three seconds of two digits, and values beyond it on both sides, so that
every carry and sign occurs.  *Searches*: a turn of 48 ticks and a day of 53, so that a day too much is more than `Slack`; a star, one that never crosses,
and three sources that move at speeds of Sun, Moon and Mars, one backwards; a lunation of 100 with the Moon ahead of its mean motion by up to four, and at four fifths and six fifths of its rate, by turns; starts at each of 120
ticks; eight tries.  *Tracks*: a circle of 48, speeds and accelerations in both directions, across the origin and towards a pole.

Why the bounds are enough.  *Threads.*  The states of two threads in `IersEop` interact through the
mutex, the shared header sizes and the handle of a file; a hazard needs one thread to change one of
them and another to use it.  A third thread adds another changer of the same kind.  No run has two threads whose
replies for different dates cross on one handle: `AnswersBracketed` covers them.  `LazyLock`,
small enough, has five, and the proofs of section 6 have any number.  *Dates.*  The tables of
`MCIersEop` are a few rows long, with starts at different offsets, so that every test of
`novas_fetch_eop_chunk()` is at its boundary for some date.  *Versions.*  One change of a URL, and resets, which
do not count, are enough to go to a mirror and back.  *Calendars.*  The arithmetic of `calendar.c` has a
period of 400 years in the Gregorian and of 4 years in the Roman calendar, apart from the sign of
what C's `/` truncates; the starting points put both signs, the year 0 and the reform on some walk.
The divisions of `novas_jd_to_date()` for the Roman calendar are not periodic: `RomanDates` is claimed for walks that end before 4200, when dates
other than those of spring go wrong.
`Hour` is in whole hours, the rounding of a `double` is left out.

`CHECK_DEADLOCK FALSE` is in the calendar configurations only, because a walk ends.  Symmetry of the
threads is used where nothing but invariants is checked.

## 5. Fairness and assumptions

- `IersEop` and `LazyLock`: weak fairness of the steps of a call that has begun.  The operating
  system schedules a thread that can run, and a transfer ends, with an answer or with an error: that
  is an assumption about the network, since what the caller can limit is the time to connect
  (`iers.c:479`) and not that of the transfer.  `LockReleased` shows that no path of the code itself
  keeps the mutex.  Nothing makes a program call, and no fairness is asked of a
  mutex: hence `SomeoneEnters` promises entry to some thread, not to each.
- `CalcephPlugin`: strong fairness of a thread's steps, that is, a mutex that comes free again and
  again is had in the end.  `CallReturns` needs it, and it is what a fair mutex gives; with weak
  fairness one of two busy threads may wait for ever, as with any mutex.
- `QuietConfig` (EOP, CALCEPH): configuration calls overlap no others.  For EOP the code asks for it
  (`iers.c:857-858`, `1028`).  For CALCEPH it is an assumption of ours, and section 7 says what happens without.
- `QuietNames` (CSPICE, CALCEPH): a lookup by name overlaps no other call.  Nothing in the code asks
  for it; `cspice_names` shows what happens otherwise.
- The program leaves the error action of CSPICE alone once it has registered the plugin, and does not cancel errors of
  CSPICE that are not its own.  What action and what error it leaves before that is not restricted.
- `FirstAlone` (`LazyLock`): the first call returns before another begins.  Nothing in the code asks
  for it either; `lock_race` shows what happens otherwise.
- A mutex works as the system's does, once initialised.
- `NoBarycenter` (`SkyProofs`): no object of an orbit goes around the barycenter itself, for which the series that answers when nothing
  else is registered gives the Sun (section 7).
- `LocTypes` is within `ValidLocTypes` (`Cio`), and `AppSystems` has no ITRS (`Conversions`, there `NoApparentItrs`), in the run and in the theorems; section 7 says what happens otherwise.
- Dates are apart from J2000 by more than the tolerance of the comparisons, or equal to it (`Conversions`).
- `SlowAssumption` (`Tracks`): between any two of the three positions that a track is made of, a source moves by no more than a quarter of a turn, so that
  which angle passed the origin can be told.  A source near the zenith does not satisfy it for its azimuth.  A quarter of a turn between neighbours
  is not enough: the first and the last position are compared too (section 6).
- `C04FilesHaveHeaders` (`IersEopProofs`): no C04 file has an empty header, as none of IERS has.
- `LinesFitInt` (`LeapSecondsProofs`): the times in the files are those that the `int` fields hold, which they are until 2038 (section 7).
- `ShortWalks` (`TimesProofs`): dates of the Roman calendar come back for walks of up to 4198 years, hence before 4200 (section 7).
- `MotionAssumption` and `MovesOn` (`Crossings`, `SkyProofs`): sources are somewhere at any time.
- `AreSlow`, `KeepsPace` and `EnoughTries` (`Crossings`; `SourcesMove`, `MoonMoves` in `SkyProofs`): a source either never crosses the elevation or always
  does, and the sidereal time at which it is due changes by a quarter of a tick or less in a tick, either way; the Moon gains on the Sun at between
  half and one and a half times its mean rate.  The real Moon is due at most some 80 minutes later each day, a
  rate of an eighteenth, away from the latitudes at which it stops rising, and its elongation is within a fifth of its mean rate.  Each
  estimate at least halves the error, so that the 100 tries of `novas_inv_max_iter` are far more than are needed.  `MCMotions` lets TLC check that the motions, tolerance
  and tries of the run satisfy all three.
- `FineTurn` and `FineMonth` (`SkyProofs`): a turn, and a lunation, has more than four ticks, a turn more than twice the tolerance, which is a tick at least, and a day is
  longer than a turn by no more than about a sixth; of the real day it is one part in 366.
- `StaysInPlace` and `FineTicks` (`SkyProofs`): catalog sources have the same right ascension and elevation all through a search, proper motion being
  less than a tick, and a turn of the sky has four ticks or more, so that a crossing can be told from its opposite.
- No fairness is asked of `MCSession`, which has no liveness property: that searches end is a bound on their tries (`CrossingIsNext` and `PhaseIsNext` say that it is never reached).

## 6. The proofs

TLAPS checks the following for every value of the constants that satisfies the assumptions named in
the modules and in section 5: any number of threads, dates, URLs, kernels, ephemerides, years, times, providers, observers and frames.

- **`IersEopProofs`.**  `TypeInv` adds to the types that a thread waiting for a reply has named a URL
  (`RequestNamed`) and that a thread about to check dates has four rows (`RowsFilled`): without them
  the types are not inductive, because parsing reads the URL of the request and checking reads rows.
  `AnswersBracketed` needs more: `FetchedRows` says that rows read from one reply are consecutive,
  whichever request the reply answers, and `BracketRows` that a bracket not spoiled by a failure describes its
  rows.  The check of the dates after the fetch is what makes the crossing of replies harmless.
  `LockDisciplined` is inductive by itself.  `CachesInForce` and `C04HeadsRight` assume `QuietConfig`: then what a thread has
  read of the configuration on its way through a fetch is still so, and the size of the C04 header, once known, is that of the file
  the URL names, because a change of URL forgets it.
- **`LeapSecondsProofs`.**  Each step of a lookup keeps `leap_mutex`, takes it when it is free or gives it
  back (`LookupsLock`).  `AnswersPublished`: the list in use is what the file it came from says.  `FileRead` is about files of any length: the fold over their lines is
  unfolded into the list after each line (`LinesRead`), and what that list says of the lines so far is shown by induction on their number (`LineRead`).
  `SearchRight` is the search of `novas_lookup_leap()` in such a list.
- **`LazyLockProofs`.**  With `FirstAlone` an uninitialised mutex has at most one caller, and none
  inside (`LockInv`); hence `MarkInitialized` finds the lock free, and entering and leaving are the
  steps of `ExclusiveUse` (`WarmLockGuards`, `WarmLockExcludes`).
- **`CspicePluginProofs`.**  `CspiceInv` says that the pending error of CSPICE, while a thread is between its
  reset and its check, is that thread's own (`PendingIsOwn`), and what each of the two attempts for a
  planet has shown of the kernels (`Attempt`), which stays true because kernels change under the mutex.
  From it: `OwnErrors`, `PlanetsFound`, and the refinement `WorkExclusive`, for all that CSPICE is used for between a reset and a
  check; that leaves out the settings of `suppress_cspice_errors()`, which are outside the mutex.  `ErrorsReturned` needs neither the mutex
  nor `QuietNames`: by `SettingsInv` the action is RETURN from the registration of any provider on.
- **`CalcephPluginProofs`.**  `Owners` states which program points hold each mutex; for a planet
  query that depends on whether its ephemeris is also that of the bodies, so `Current` is needed, that what a
  query has read of the configuration is still so, and `Alone`, that nobody changes it meanwhile.
  From them: `OwnUnlocked`, `NothingLeftLocked`, and the refinement `EphemeridesExclusive`.
- **`TimesProofs`.**  `TimesInvariant`: in the scale that a time was set in, it is what it was set to and shifted by
  since, and a shifted time has the offsets of the one it came from.  `TimesReadAsSet` and `DifferencesRight` follow; `UnixTimesRight` and `StampsRight` are about
  rounding and its carries for days, seconds and fractions of any length.  `TimesTyped` is the type invariant.
  The walk of `CivilCalendar` keeps `WalkInv`: the first of the month is the value of a formula
  in floor division (`DayNo`), and the weekday its remainder.  `WalkStep` rests on lemmas about what the formula grows by
  (`RomanMonth`, `GregorianMonth`, `ReformMonth`).  `DaysRight`, `WeekdaysRight` and `MissingDatesAre` follow by comparing C's
  truncating divisions with the floor (`JdForm`).  `DatesRight` inverts the Gregorian formula one division at
  a time: century (`CenturyNo`), year (`YearNo`), month (`MarchDate`); `RomanDatesRight` does so for the Roman one, whose centuries the code counts
  with a division that fits the Gregorian calendar and drifts: with `ShortWalks` the drift has not reached a day.  From both: `DaysOfYearRight`, and
  `DateTextsRight` for what is written and read with zones and time stamps, of which `ZonesRight` is the part that needs no bound.
- **`ConversionsProofs`.**  `ConvInv`: what `nutation_angles()` and `novas_gast()` remember was computed by the model for its accuracy, a frame has the tilt of
  its date without an offset of the pole, and a direction is where its system puts it.  A word of rotations that all lead ahead grows by those of a chain
  (`ForthAhead`) and shrinks by those of its inverse (`BackAhead`), for chains of any length; from each system to the next there is one such chain
  (`Rungs`), and what every function does is a way along it (`LegacyWords`, `SpunWords`, `FrameLegs`, `TransformRight`).  Hence `CelestialRight` and `EarthRight`.
- **`SkyProofs`.**  `BasisOfItsDate`: what `cio_basis()` and `cio_location()` hold is what their keys say.  `AnswersAsAsked` needs no invariant beyond the
  kinds of functions registered, but a case for each path through the fallbacks.  `PlacesRight`: the memo of `place()` is that of its key, unless
  a failure has spoiled it.  `FramesInvariant`: an initialised frame has Earth, Sun, observer and bodies of its date and of its observer, because `Observed` gives the mark
  last; hence `FramesAreWhole` and what follows it.  `NeverSearchesBack` assumes `MovesOn` and has the time of each
  estimate at or after the start.  `TracksFollow`: a track made of three positions of a source in uniform acceleration projects to where the source is, whichever of
  the three had passed the origin.  The proof failed under the assumption that the module had at first, of a quarter of a turn between neighbours: with it a source turns
  half a circle from the first position to the last, and the code cannot tell which way.  `DistantCrossings` (`CrossingIsNext` for catalog sources) follows
  what is left until the event modulo turns (`HoursTo`): one estimate gets there, and nothing before it is a crossing, because less than a turn has passed.
  `CrossingsAreNext` and `PhasesAreNext`, for what moves, share one argument, about any quantity that goes on at between half and one and a half times the rate at which it
  is taken to (`Paced`): the time since a source was due, or the Moon's elongation.  Its goal is the first value after the
  start that is the event's modulo turns, a fixed number though the code knows only the remainder (`LeadsToGoal`).  Each estimate leaves at most half of what was left, and
  a half (`Halves`); where no more than the tolerance is left the goal is passed within `Slack` (`ReachedAbout`, a discrete intermediate value), and nothing like it
  before, because less than a period has passed (`PassedIsNext`).  The inductive invariants (`PhaseInv`, `MoverInv`) say of a search after each number of
  tries how far it may be from its goal, which is what keeps it from being cancelled.  For crossings they say more: the search is
  between the start and as far after the crossing as the start is before it (`StaysAfter`).  Without that an estimate might fall before the start, be put off by a day, and
  lead to the crossing after the next.  The quarter in `AreSlow` is needed where a half would do elsewhere: an estimate put off by a day instead of a turn
  has to be within half a turn of its goal (`FirstBehind`).
  `TextsRight` (`TextsReadBack`) rests on `TextInv`: a text without a letter gives the size of what was meant, and its sign unless it is a text of less
  than a degree; one with a letter gives both.  `BreakdownIs` says that breaking down rounds once and keeps what is rounded already, for any number of digits, so
  that nothing adds up from one printing to the next, and `SameSize` why the letter, which is that of the value and not of the text, is right.  `MarksTrue`: what each setter leaves of the marks and the values of an entry or an orbit, after any calls.

The type invariants are theorems (`TypeCorrect`, `CspiceTypeCorrect`, `TimesTyped`) and in no run: what they say besides types, such as `RowsFilled`, the
other proofs rest on.  `SerialWork` is in no run either: it is proved, and can be checked by naming it in a copy of `MCCspicePlugin.cfg`.

Induction is over natural numbers, as a set that holds 0 and with every number the next one (`NatSet`, from the fact that they are well ordered), so that
it can be about any formula; the folds of the models are taken apart by it where theorems need their value (`LeapSecondsProofs`, `ConversionsProofs`).

Only model-checked: liveness (`LockReleased`, `SomeoneEnters`, `CallReturns`), which is out of the
prover's reach.  That searches end is a safety property here (none is cancelled), and proved; that a source
which crosses at some times only, as the Moon does at high latitudes, is found or given up correctly is neither proved nor checked.

## 7. Deviations

Four disagreements of the code with its documentation or with what its tests claim have a run that shows them:

- `eop_spoiled`: a failed fetch overwrites rows of the thread's bracket and leaves the bracket
  itself; the next call for a date in it interpolates wrong rows and returns 0 (`iers.c:1120`).
- `lock_race`: two overlapping first calls are inside the mutex together (`iers.c:353`).
- `cspice_names`: a lookup by name resets the error that another thread is about to check
  (`solsys-cspice.c:477`).
- `calendar_spring`: dates in the spring of the Roman calendar come back as other dates
  (`calendar.c:157`).

The modules state more such properties, which no run checks because they fail in the same way or are
small.  Each can be run by naming it in a copy of the configuration given.

| Property | Where | What happens |
|---|---|---|
| `C01HeadIsHeader` (`MCIersEop_fetch.cfg`) | `iers.c:639`, `437` | the header of one C01 table is derived from the other's although the request failed, and a cleanup after a change of URL passes over handles that were never opened, so that an old header survives |
| `HandleExclusive` (`MCIersEop_threads.cfg`) | `iers.c:597` | the handle is used after `eop_mutex` is released, by two threads at once; the head of the file says it is thread-safe (`iers.c:10-11`) |
| `ItrfFollowsUrl` (`MCIersEop_fetch.cfg`) | `iers.c:1045` | `novas_reset_eop()` returns to the default URLs and keeps `itrf_years`, against its description (`iers.c:1017-1020`) |
| `CacheFromConfiguredUrl` with `QuietConfig = FALSE` (`MCIersEop_threads.cfg`) | `iers.c:1127` | `url_version` is read after the fetch, so that rows of a URL replaced meanwhile pass for those of its successor |
| `AnswerAtExpiry` (`MCLeapSeconds.cfg`) | `iers.c:829`, `819` | at the expiration itself the search gives 0, neither the leap seconds nor a failure (`iers.c:768-770`) |
| `AnswerIsPublished` with a smaller `IntMax` (`MCLeapSeconds.cfg`) | `iers.c:76-77`, `266` | times are kept in `int` fields, which end in 2038 |
| `EntryInMemory` (`MCLeapSeconds.cfg`) | `iers.c:831` | the entry found is read after the unlock, when another lookup may have freed its list |
| `SerialAccess` (`MCCspicePlugin.cfg`) | `solsys-cspice.c:173`, `218` | `suppress_cspice_errors()` calls `erract_c()` and `errprt_c()` before the mutex is locked, while another thread may be in `spkez_c()`; so do `novas_use_cspice_ephem()` and `novas_use_cspice_planets()` (540, 564). The description has ephemeris access mutexed "to ensure sequential access under the hood" (`solsys-cspice.c:414-416`). What holds is `SerialWork` |
| `NoParallelUse` with `QuietNames = FALSE` (`MCCalcephPlugin.cfg`) | `solsys-calceph.c:351` | the name of a body is looked up without the mutex |
| `UnlocksOwn` with `QuietConfig = FALSE` (`MCCalcephPlugin.cfg`) | `solsys-calceph.c:238` | a change of the ephemeris for bodies between lock and unlock makes a query leave a mutex locked or unlock another thread's |
| `PlanetsFollow` (`MCCalcephPlugin.cfg`) | `solsys-calceph.c:433` | a second `novas_use_calceph()` leaves the planets with the first ephemeris (its description, `solsys-calceph.c:391-394`) |
| `RomanDates` with walks of 4199 years (`MCCivilCalendar.cfg`) | `calendar.c:147`, `155` | `novas_jd_to_date()` counts the centuries of the Roman calendar with a division that drifts: outside the spring the first date to go wrong is 31 January 4200, which comes out as 1 February |
| `DayOfYearCounts` (`MCCivilCalendar.cfg`) | `calendar.c:311` | the table of days before each month has 9 for April instead of 90 |

The following are about `MCSession.cfg`, `MCCivilCalendar.cfg` for `EveryZonedDate`.

| Property | Where | What happens |
|---|---|---|
| `EveryAnswerAsAsked` | `ephemeris.c:339`, `solsys3.c:177` | for a provider with another origin `ephemeris()` adds the caller's outputs, which hold nothing yet, instead of the origin's place; the Earth and Sun series answers for the barycenter what it answers for the Sun |
| `EveryPlaceOfItsDate` | `place.c:192-195` | a failed call leaves a memo half overwritten, under the key of the one before |
| `CioOfItsDate` with an invalid kind in `LocTypes` | `cio.c:245` | the key is stored before the kind is refused: the next call finds the axes of another date |
| `EarthImage` with `"ITRS"` in `AppSystems` | `frames.c:673`, `1230` | the wobble is given the milliarcseconds of the frame, where arcseconds are due |
| `CelestialImage` with `1` in `Dates`, without `ConversionAssumption` | `equator.c:621`, `630` | a date within the tolerance of J2000, but not equal to it, is precessed from and to |
| `EarthImage` for a direction that a stale sidereal time touched | `earth.c:196` | `novas_gast()` does not notice `cel_pole()` |
| `ReadsAsSet` for UT1 with a diurnal part | `timescale.c:654-656` | the part is added to UT1 - UTC after TT was found without it |
| `PrintedAnglesReadBack` | `util.c:1004`, `parse.c:387` | -0.5 degrees are printed as 0:30:00, and "-00:30:00" is read as +0.5 |
| `EveryZonedDate` | `parse.c:996`, `1010` | a zone after a space or after the unit `s` is dropped; local times that are before the reform in Greenwich come out ten days late |
| `CrossingIsOnTime` | `frames.c:1625` | for a catalog source that crosses on the next day a solar day is added for a sidereal one: the time is four minutes late |
| `EveryTrackFollows` | `frames.c:2054`, `2143` | `novas_hor_track()` has its distance rate with the wrong sign; beyond a pole `novas_track_pos()` negates the longitude where it should turn it by half a circle |
| `CppTrackFollows` | `Source.cpp:322` | the failure of `novas_equ_track()` is ignored, the object holds a track of zeros |
| `EntryIsAsGiven` | `CatalogEntry.cpp:80`, `421`, `target.c:187`, `282` | after a refused value the next accepted one for any other field makes the entry valid, with the old velocity, a parallax without its sign, or a name cut; no distance gives an infinite parallax |
| `OrbitOfValidSystem` | `Orbital.cpp:188-262`, `391` | a system with an undated equinox is invalid, an orbit in it is valid |

Not stated as properties, being single lines:
`novas_jd_from_date()` returns -1 and not NAN for an unknown calendar (`calendar.c:63`);
`novas_get_split_time()` carries one day at most and keeps a fraction of exactly one day (`timescale.c:811`);
`set_split_time()` looks EOP up for the day number of the given scale (`timescale.c:622`);
a unit `s` right behind the digits leaves a compass letter unread (`parse.c:395`);
`novas_print_hms()` may print 24:00:00 (`util.c`);
`novas_make_frame()` adds diurnal terms to the frame in another unit (`frames.c:596`);
`novas_cross_el_date()` returns an error code as its date (`frames.c:1606`);
the makers of ITRF and GPS observers ignore an error of the conversion (`observer.c:248`, `279`);
velocities of airborne observers are taken in two systems (`observer.c:644`, `926`);
`Frame::equals()` compares pointers (`Frame.cpp:153-157`);
the debug mode is switched and restored around calls, for all threads (`observer.c:1035-1066`);
a second query of a provider may answer from another origin (`solsys-ephem.c:66`);
`nutation_angles()` does not notice another provider (`nutation.c:87`), nor `cio_location()` the pole offsets (`cio.c:177`);
`novas_use_calceph()` and the queries read `compute_flags` several times (`solsys-calceph.c:361`);
`cspice_add_kernel()` and `cspice_remove_kernel()` undo what the program has set with `erract_c()` and `errprt_c()`, which it may do according to `solsys-cspice.c:527-529`;
the tables of `earth_sun_calc()` are filled without a lock (`solsys3.c:129`);
`novas_set_leap_list(NULL)` frees the list without a lock (`iers.c:737`);
`ScalarEvolution::rate()` has no factor 2 for the acceleration (`ScalarEvolution.cpp:72`);
`CatalogEntry::redshift()` gives m/s to a function of km/s (`CatalogEntry.cpp:331`);
`OrbitalSystem::orientation()` stores radians where degrees are kept (`Orbital.cpp:192`).

## 8. Not modelled

- Numerical models, series and rotations: TLC and TLAPS have no real arithmetic to speak of, and the
  repository's regression tests compare their values.
- Identifiers (`naif.c`), comparison and making of objects and observers (`target.c`, `cmp.c`), errors and traces: single
  functions without state, that tables or comparisons of every field make up, and that unit tests cover.
- Most classes of `src/cpp`: immutable, each call one of the C library.
- Of the parts that are modelled: parsing of the columns of EOP rows and their interpolation; `compute_flags` and the failure of
  `calceph_prefetch()` in the CALCEPH plugin; the HTTP exchange itself, which is a reply or a failure; TCB and
  TCG; distances, velocities and rates of directions; refraction; formats of dates, names of months, separators.
- By lines most of the implementation is out of reach: the coefficients of the series of nutation, the Moon and the Earth are tables of numbers, most functions are
  formulas over `double`, and more than half of the C sources and nearly all of the headers are comments.
- The NOVAS C 3.1 compatibility sources, tests, examples and build files.
