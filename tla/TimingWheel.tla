----------------------------- MODULE TimingWheel -----------------------------
(***************************************************************************)
(* network::TimingWheel: four wheels of slots, for seconds, minutes, hours  *)
(* and days.  An entry runs its callback when the last reference to it is   *)
(* dropped, so entries stay in the wheel as references and an entry that is *)
(* inserted again (TcpConnection::ExtendLife) lives until its last          *)
(* reference is popped.  On the outer wheels a slot holds closures that     *)
(* insert the entry again for the rest of its delay.                        *)
(*                                                                         *)
(* A reference is a record: its entry, its wheel, its slot in the deque,    *)
(* counted from the front, and the rest of the delay.                       *)
(***************************************************************************)
EXTENDS Integers, FiniteSets, FiniteSetsExt

CONSTANTS
  Entries,           \* the entries, each a callback or an idle connection
  Periodic,          \* the entries of RunEvery: their callback inserts them again
  Idle,              \* the idle timeouts: inserted again while they are alive
  Delays,            \* the delays asked for, truncated to seconds
  Minute, Hour, Day, \* kTimingMinute, kTimingHour and kTimingDay
  MaxDays,           \* slots of the day wheel: 30
  Second,            \* clock units in a second: 1000
  Lags,              \* bound: the values of now - last_ts_ the clock takes
  MaxTick            \* bound: the wheels stop turning here

ASSUME EntriesAssumption == Periodic \cup Idle \subseteq Entries /\ Periodic \cap Idle = {}
ASSUME UnitsAssumption ==
  /\ {Minute, Hour, Day, MaxDays, Second} \subseteq Nat \ {0}
  /\ 1 < Minute /\ Minute < Hour /\ Hour < Day
  /\ Hour % Minute = 0 /\ Day % Hour = 0
ASSUME DelaysAssumption == Delays \subseteq Nat /\ Lags \subseteq Int /\ MaxTick \in Nat

VARIABLES
  refs,      \* wheels_: the references in the four wheels
  tick,      \* tick_
  started,   \* OnTimer has been called once: last_ts_ # 0
  lag,       \* now - last_ts_, what OnTimer reads of the wall clock
  delay,     \* delay[e]: the interval or the idle time e was inserted with
  crashed,   \* an index out of range, or the recursion of a rejected RunEvery
  promised,  \* history: the tick at which e was asked to go off
  goneOff    \* history: the last tick e's callback ran at, 0 if it never did

wheelVars == <<refs, tick, started, lag, delay, crashed, promised, goneOff>>

Levels == {"second", "minute", "hour", "day"}
Unit == [second |-> 1, minute |-> Minute, hour |-> Hour, day |-> Day]
Level(d) == IF d < Minute THEN "second"
            ELSE IF d < Hour THEN "minute"
            ELSE IF d < Day THEN "hour" ELSE "day"

Alive(rs) == {r.entry : r \in rs}

WheelInit ==
  /\ refs = {} /\ tick = 0 /\ started = FALSE /\ lag = 0 /\ crashed = FALSE
  /\ delay = [e \in Entries |-> 0]
  /\ promised = [e \in Entries |-> 0]
  /\ goneOff = [e \in Entries |-> 0]

\* InsertEntry refuses the delay; the caller's reference is then the last one.
Rejected(d) == d \div Day > MaxDays

\* A delay of 0 drops the entry and still indexes wheels_[second][0 - 1].
OutOfRange(d) == d = 0

\* Mutant: the rest of the delay is one short, and may be nothing.
PlaceShort(e, d) ==
  [entry |-> e, level |-> Level(d), slot |-> (d \div Unit[Level(d)]) - 1,
   rest |-> (d - 1) % Unit[Level(d)]]

\* The reference InsertEntry leaves in the wheels.
Place(e, d) ==
  [entry |-> e, level |-> Level(d), slot |-> (d \div Unit[Level(d)]) - 1,
   rest |-> d % Unit[Level(d)]]

\* The index is out of range, or the callback of a rejected RunEvery inserts
\* itself again without end: the process dies.
Crash ==
  /\ crashed' = TRUE
  /\ UNCHANGED <<refs, tick, started, lag, delay, promised, goneOff>>

\* InsertEntry of e for d ticks; the references and callbacks it leads to.
InsertEntry(e, d) ==
  /\ delay' = [delay EXCEPT ![e] = d]
  /\ promised' = [promised EXCEPT ![e] = tick + d]
  /\ \/ /\ ~Rejected(d)
        /\ refs' = refs \cup {Place(e, d)}
        /\ UNCHANGED goneOff
     \/ /\ Rejected(d)
        /\ goneOff' = [goneOff EXCEPT ![e] = tick]
        /\ UNCHANGED refs
  /\ UNCHANGED <<tick, started, lag, crashed>>

\* RunAfter, RunEvery and EnableCheckIdleTimeout, each with a new entry.
Start(e, d) ==
  /\ ~crashed /\ delay[e] = 0
  /\ IF OutOfRange(d) \/ (Rejected(d) /\ e \in Periodic) THEN Crash ELSE InsertEntry(e, d)

\* Mutant: the life of an entry that is in the wheels already is not extended.
ExtendLifeLost(e) ==
  /\ ~crashed /\ e \in Idle /\ e \in Alive(refs)
  /\ promised' = [promised EXCEPT ![e] = tick + delay[e]]
  /\ UNCHANGED <<refs, tick, started, lag, delay, crashed, goneOff>>

\* ExtendLife: the weak pointer still finds the entry.
ExtendLife(e) ==
  /\ ~crashed /\ e \in Idle /\ e \in Alive(refs)
  /\ InsertEntry(e, delay[e])

\* The front slot of a wheel, which PopUp takes out, and what stays when the
\* wheel has rotated.
Front(rs, level) == {r \in rs : r.level = level /\ r.slot = 0}
Rotated(r, level) == IF r.level = level THEN [r EXCEPT !.slot = @ - 1] ELSE r
Kept(rs, level) == {Rotated(r, level) : r \in rs \ Front(rs, level)}

\* The closures of an outer wheel, which insert their entry for the rest of its
\* delay when the slot is dropped.
Closures(rs, level) == IF level = "second" THEN {} ELSE Front(rs, level)
Moved(rs, level) ==
  {Place(r.entry, r.rest) : r \in {q \in Closures(rs, level) : ~OutOfRange(q.rest)}}

\* The entries that lose their last reference with the slot.
Ended(rs, level) == Alive(Front(rs, level)) \ Alive(Kept(rs, level) \cup Moved(rs, level))

\* PopUp of a wheel in the middle of OnTimer: w is the references, the entries
\* whose callback has run, and whether an index was out of range.  A callback of
\* RunEvery inserts its entry again.
PopUp(w, level) ==
  [refs |-> Kept(w.refs, level) \cup Moved(w.refs, level)
              \cup {Place(e, delay[e]) : e \in Ended(w.refs, level) \cap Periodic},
   ended |-> w.ended \cup Ended(w.refs, level),
   crashed |-> w.crashed \/ \E r \in Closures(w.refs, level) : OutOfRange(r.rest)]

\* Mutant: the outer wheels turn before the inner ones.
TurnInward(t) ==
  LET PopIf(w, level) == IF t % Unit[level] = 0 THEN PopUp(w, level) ELSE w
      fresh == [refs |-> refs, ended |-> {}, crashed |-> FALSE]
  IN PopUp(PopIf(PopIf(PopIf(fresh, "day"), "hour"), "minute"), "second")

\* The wheels OnTimer pops at tick t, in the order of the code.
Turn(t) ==
  LET PopIf(w, level) == IF t % Unit[level] = 0 THEN PopUp(w, level) ELSE w
      fresh == [refs |-> refs, ended |-> {}, crashed |-> FALSE]
  IN PopIf(PopIf(PopIf(PopUp(fresh, "second"), "minute"), "hour"), "day")

\* OnTimer(now): at most one tick, however much time has passed.
OnTimer ==
  LET w == Turn(tick + 1) IN
  /\ ~crashed /\ started /\ lag >= Second /\ tick < MaxTick
  /\ \/ w.crashed /\ Crash
     \/ /\ ~w.crashed
        /\ lag' = 0
        /\ tick' = tick + 1
        /\ refs' = w.refs
        /\ goneOff' = [e \in Entries |-> IF e \in w.ended THEN tick + 1 ELSE goneOff[e]]
        /\ promised' = [e \in Entries |-> IF e \in w.ended \cap Periodic
                                          THEN tick + 1 + delay[e] ELSE promised[e]]
        /\ UNCHANGED <<started, delay, crashed>>

\* The first call of OnTimer only takes the time.
OnTimerFirst ==
  /\ ~crashed /\ ~started
  /\ started' = TRUE /\ lag' = 0
  /\ UNCHANGED <<refs, tick, delay, crashed, promised, goneOff>>

\* The wall clock reads something else at the next OnTimer: the loop was asleep
\* or busy for any time, or somebody set the clock, back too.
ClockMoves ==
  /\ ~crashed /\ started
  /\ lag' \in Lags
  /\ UNCHANGED <<refs, tick, started, delay, crashed, promised, goneOff>>

WheelNext ==
  \/ OnTimer \/ OnTimerFirst \/ ClockMoves
  \/ \E e \in Entries : ExtendLife(e)
  \/ \E e \in Entries, d \in Delays : Start(e, d)

WheelSpec == WheelInit /\ [][WheelNext]_wheelVars

-----------------------------------------------------------------------------
(* Properties.                                                             *)

\* The tick at which reference r lets go of its entry, if no index is out of
\* range before: the outer wheels turn at the multiples of their unit.
ReleaseTick(r) ==
  LET u == Unit[r.level] IN ((tick \div u) + r.slot + 1) * u + r.rest

\* The wheels implement one alarm per entry: rotation, cascade and shared
\* references together let an entry go at one tick, known when it was set,
\* never later than asked and early by less than a slot of its wheel.
alarm == [e \in Entries |->
            IF e \in Alive(refs)
            THEN Max({ReleaseTick(r) : r \in {q \in refs : q.entry = e}}) ELSE 0]
Alarm == INSTANCE Alarms
AlarmSpec == Alarm!Spec

\* An entry whose delay fits the second wheel runs at exactly the tick it was
\* last asked to, also when it was extended in between.
ExactWithinAMinute ==
  [][\A e \in Entries :
       (goneOff'[e] # goneOff[e] /\ delay[e] \in 1 .. Minute - 1) => tick' = promised[e]]_wheelVars

\* InsertEntry never computes an index out of range while the wheels turn, but
\* for an entry whose delay is a whole number of minutes, hours or days: of
\* such a delay nothing is left for the inner wheel.
OnlyWholeUnitsCrash ==
  Turn(tick + 1).crashed => \E e \in Alive(refs) : delay[e] % Minute = 0
=============================================================================
