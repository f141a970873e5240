------------------------------- MODULE Alarms --------------------------------
(***************************************************************************)
(* What the timing wheel promises: every entry has one alarm, a tick in the *)
(* future, and goes off at that tick and at no other.  An entry set for d   *)
(* ticks never goes off later than that; it goes off exactly then when d    *)
(* fits the second wheel, and otherwise early by at most one slot of the    *)
(* wheel it was put on.  Setting an entry again only moves its alarm back.  *)
(***************************************************************************)
EXTENDS Integers, FiniteSetsExt

CONSTANTS Entries,          \* what is set to go off
          Periodic,         \* the entries that set themselves again
          Delays,           \* the delays they are set for, in ticks
          Minute, Hour, Day,\* ticks in a slot of the three outer wheels
          MaxDays           \* days a delay may last

VARIABLES tick,     \* ticks so far
          delay,    \* delay[e]: the delay e was set for
          alarm,    \* alarm[e]: the tick e goes off at, 0 when it is not set
          goneOff   \* goneOff[e]: the last tick e went off at, 0 if it never did

vars == <<tick, delay, alarm, goneOff>>

Slot(d) == IF d < Minute THEN 0
           ELSE IF d < Hour THEN Minute
           ELSE IF d < Day THEN Hour ELSE Day

\* The ticks an entry set for d at tick t may go off at.
Window(t, d) == Max({t + 1, t + d - Slot(d)}) .. t + d

Init ==
  /\ tick = 0
  /\ delay \in [Entries -> {0}]
  /\ alarm = [e \in Entries |-> 0]
  /\ goneOff = [e \in Entries |-> 0]

SetAlarm(e, d) ==
  /\ d > 0 /\ d \div Day <= MaxDays
  /\ \E at \in Window(tick, d) : alarm' = [alarm EXCEPT ![e] = Max({@, at})]
  /\ delay' = [delay EXCEPT ![e] = d]
  /\ UNCHANGED <<tick, goneOff>>

\* A delay beyond the last wheel is refused: the callback runs at once.
Refuse(e, d) ==
  /\ d \div Day > MaxDays
  /\ goneOff' = [goneOff EXCEPT ![e] = tick]
  /\ delay' = [delay EXCEPT ![e] = d]
  /\ UNCHANGED <<tick, alarm>>

Due == {e \in Entries : alarm[e] = tick + 1}

Tick ==
  /\ tick' = tick + 1
  /\ goneOff' = [e \in Entries |-> IF e \in Due THEN tick' ELSE goneOff[e]]
  /\ alarm' \in [Entries -> Nat]
  /\ \A e \in Entries :
       IF e \notin Due THEN alarm'[e] = alarm[e]
       ELSE IF e \in Periodic THEN alarm'[e] \in Window(tick', delay[e])
       ELSE alarm'[e] = 0
  /\ UNCHANGED delay

Next == Tick \/ \E e \in Entries, d \in Delays : SetAlarm(e, d) \/ Refuse(e, d)

Spec == Init /\ [][Next]_vars
=============================================================================
