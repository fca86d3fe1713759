------------------------------ MODULE TimeKeys ------------------------------
(***************************************************************************)
(* The 64 bit event keys of the Collector (collector.cpp) and the age test  *)
(* it makes on them.                                                        *)
(*                                                                         *)
(* An epicsTimeStamp is a pair <<seconds, nanoseconds>>.  The Collector     *)
(* packs it into one unsigned word, the seconds in the upper half and the   *)
(* nanoseconds in the lower half, orders its events by that word, and       *)
(* decides that an event is "too old" by subtracting two such words as      *)
(* signed integers and comparing the difference with a packed duration.     *)
(* The lower half counts to NsecBase (2^32) while nanoseconds only count to *)
(* NsPerSec (10^9), so the subtraction is not a subtraction of times: this  *)
(* module says what it is.                                                  *)
(***************************************************************************)
EXTENDS Integers

CONSTANTS
  NsPerSec,   \* nanoseconds in a second (10^9)
  NsecBase,   \* values of the lower half of a key (2^32)
  SecBase,    \* values of the upper half of a key (2^32)
  MaxSec,     \* bound: the largest number of seconds a time stamp takes here
  AgeSec,     \* whole seconds of maxEventAge (2 of 2.5)
  AgeNsec     \* its fraction, in nanoseconds (500 000 000)

ASSUME TimeAssumption ==
  /\ NsPerSec \in Nat \ {0}
  /\ NsecBase \in Nat
  /\ 2 * NsPerSec <= NsecBase
  /\ SecBase \in Nat \ {0}
  /\ MaxSec \in Nat
  /\ MaxSec < SecBase
  /\ AgeSec \in 0 .. MaxSec
  /\ AgeNsec \in 0 .. NsPerSec - 1

VARIABLES
  now,   \* the processor's reading of the clock
  ts     \* the time stamp of one event

vars == <<now, ts>>

Stamp == [sec : 0 .. MaxSec, nsec : 0 .. NsPerSec - 1]

(* A seeded fault: the seconds are not shifted past every nanosecond count. *)
PackShiftTooSmall(t) == t.sec * (NsPerSec \div 2) + t.nsec

(* key = sec; key <<= 32; key |= nsec *)
Pack(t) == t.sec * NsecBase + t.nsec

(* A 64 bit signed integer: what a result out of its range wraps to.        *)
Int64(u) ==
  CASE 2 * u >= SecBase * NsecBase    -> u - SecBase * NsecBase
    [] 2 * u < -(SecBase * NsecBase)  -> u + SecBase * NsecBase
    [] OTHER                          -> u

(* A seeded fault: the limit is left in nanoseconds, not packed.            *)
MaxAgeNotPacked == AgeSec * NsPerSec + AgeNsec

(* max_age, packed like a time stamp from the double maxEventAge. *)
PackedMaxAge == Pack([sec |-> AgeSec, nsec |-> AgeNsec])

(* epicsInt64(now_key) - epicsInt64(it->first) *)
KeyAge(n, t) == Int64(Int64(Pack(n)) - Int64(Pack(t)))

(* A seeded fault: an event exactly as old as the limit is kept.            *)
TooOldStrict(n, t) == KeyAge(n, t) > PackedMaxAge

(* A seeded fault: seconds and nanoseconds are compared one by one.         *)
TooOldFieldwise(n, t) ==
  /\ n.sec - t.sec >= AgeSec
  /\ n.nsec - t.nsec >= AgeNsec

(* The flush test of process_test(). *)
TooOld(n, t) == KeyAge(n, t) >= PackedMaxAge

-----------------------------------------------------------------------------
(* What the test is meant to compute, in nanoseconds. *)

Nanos(t) == t.sec * NsPerSec + t.nsec

Age(n, t) == Nanos(n) - Nanos(t)

MaxAgeNanos == AgeSec * NsPerSec + AgeNsec

-----------------------------------------------------------------------------
(* An event arrives with any time stamp; afterwards only the clock moves.   *)

Init ==
  /\ now \in Stamp
  /\ ts \in Stamp

(* epicsTimeGetCurrent(&now) at the next wakeup. *)
ReadClock ==
  \E t \in Stamp :
    /\ Nanos(t) > Nanos(now)
    /\ now' = t
    /\ UNCHANGED ts

Next == ReadClock

Spec == Init /\ [][Next]_vars

-----------------------------------------------------------------------------
(* The properties hold while no clock reads past the middle of the key      *)
(* range, 2^31 seconds after the EPICS epoch: the year 2058.                *)
HalfRange == 2 * (MaxSec + 1) <= SecBase

TypeOK ==
  /\ now \in Stamp
  /\ ts \in Stamp

(* A partial event whose real age reached maxEventAge is always found too   *)
(* old: the packed subtraction never delays the time-out.                   *)
NeverLate ==
  Age(now, ts) >= MaxAgeNanos => TooOld(now, ts)

(* An event found too old is older than the whole seconds of maxEventAge:   *)
(* the time-out (collector.cpp:17) can come early, but by less than the     *)
(* fraction of a second.  It does: 2.25 s are enough for the 2.5 s of the   *)
(* code, when the subtraction borrows.                                      *)
EarlyByLessThanFraction ==
  TooOld(now, ts) => Age(now, ts) >= AgeSec * NsPerSec

(* "everything earlier is also too old" (collector.cpp:257): the scan of    *)
(* process_test() may stop at the first event it finds too old, because     *)
(* every event with a smaller key is found too old as well.                 *)
EarlierAlsoTooOld ==
  \A t \in Stamp :
    (Pack(t) < Pack(ts) /\ TooOld(now, ts)) => TooOld(now, t)

(* The events map is ordered by packed key; that order is the order of the  *)
(* time stamps, so receivers see events in time order.                      *)
KeyOrderIsTimeOrder ==
  Pack(ts) < Pack(now) <=> Nanos(ts) < Nanos(now)
=============================================================================
