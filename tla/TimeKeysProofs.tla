--------------------------- MODULE TimeKeysProofs ---------------------------
(***************************************************************************)
(* For every split of a key into an upper and a lower half that leaves room *)
(* for two seconds' worth of nanoseconds, and every time-out: the packed    *)
(* age test never comes late, comes early by less than the fraction of a    *)
(* second of the time-out, and is monotone in the key.                      *)
(***************************************************************************)
EXTENDS TimeKeys, TLAPS

(* Multiplication by a natural number is monotone. *)
LEMMA TimesMonotone ==
  ASSUME NEW a \in Int, NEW b \in Int, NEW c \in Nat, a <= b
  PROVE  a * c <= b * c
<1>1. (b - a) * c >= 0
  OBVIOUS
<1>2. (b - a) * c = b * c - a * c
  OBVIOUS
<1> QED
  BY <1>1, <1>2

(* A packed time stamp is a natural number below the signed range.          *)
LEMMA PackedRange ==
  ASSUME HalfRange, NEW t \in Stamp
  PROVE  /\ Pack(t) \in Nat
         /\ 2 * Pack(t) < SecBase * NsecBase
<1> USE TimeAssumption
<1>1. t.sec \in 0 .. MaxSec /\ t.nsec \in 0 .. NsPerSec - 1
  BY DEF Stamp
<1>2. t.sec * NsecBase \in Nat
  BY <1>1
<1>3. t.sec * NsecBase <= MaxSec * NsecBase
  BY <1>1, TimesMonotone
<1>4. (MaxSec + 1) * NsecBase = MaxSec * NsecBase + NsecBase
  OBVIOUS
<1>5. (2 * (MaxSec + 1)) * NsecBase <= SecBase * NsecBase
  BY TimesMonotone DEF HalfRange
<1>6. (2 * (MaxSec + 1)) * NsecBase = 2 * (MaxSec * NsecBase) + 2 * NsecBase
  OBVIOUS
<1> QED
  BY <1>1, <1>2, <1>3, <1>4, <1>5, <1>6 DEF Pack

(* In that range no conversion wraps and the age of a key is the difference *)
(* of the halves.                                                           *)
LEMMA KeyAgeIsDifference ==
  ASSUME HalfRange, NEW n \in Stamp, NEW t \in Stamp
  PROVE  KeyAge(n, t) = (n.sec - t.sec) * NsecBase + (n.nsec - t.nsec)
<1> USE TimeAssumption
<1>1. /\ Pack(n) \in Nat /\ 2 * Pack(n) < SecBase * NsecBase
      /\ Pack(t) \in Nat /\ 2 * Pack(t) < SecBase * NsecBase
  BY PackedRange
<1>2. SecBase * NsecBase \in Nat
  OBVIOUS
<1>3. Int64(Pack(n)) = Pack(n) /\ Int64(Pack(t)) = Pack(t)
  BY <1>1, <1>2 DEF Int64
<1>4. Int64(Pack(n) - Pack(t)) = Pack(n) - Pack(t)
  BY <1>1, <1>2 DEF Int64
<1>5. KeyAge(n, t) = Pack(n) - Pack(t)
  BY <1>3, <1>4 DEF KeyAge
<1>6. n.sec \in Int /\ n.nsec \in Int /\ t.sec \in Int /\ t.nsec \in Int
  BY DEF Stamp
<1>7. (n.sec - t.sec) * NsecBase = n.sec * NsecBase - t.sec * NsecBase
  BY <1>6
<1> QED
  BY <1>5, <1>6, <1>7 DEF Pack

(* The packed limit is a whole number of seconds and a fraction. *)
LEMMA PackedLimit ==
  PackedMaxAge = AgeSec * NsecBase + AgeNsec
  BY DEF PackedMaxAge, Pack

(* The test, split on the borrow out of the lower half: with the same or a  *)
(* smaller nanosecond part the fraction of the limit counts, otherwise any  *)
(* difference of more than AgeSec in the seconds is enough.                 *)
LEMMA TooOldBySeconds ==
  ASSUME HalfRange, NEW n \in Stamp, NEW t \in Stamp
  PROVE  TooOld(n, t) <=>
           \/ n.sec - t.sec > AgeSec
           \/ n.sec - t.sec = AgeSec /\ n.nsec - t.nsec >= AgeNsec
<1> USE TimeAssumption
<1> DEFINE ds == n.sec - t.sec
           dn == n.nsec - t.nsec
<1>1. /\ ds \in Int /\ dn \in Int
      /\ dn < NsPerSec /\ -dn < NsPerSec
  BY DEF Stamp
<1>2. TooOld(n, t) <=> ds * NsecBase + dn >= AgeSec * NsecBase + AgeNsec
  BY KeyAgeIsDifference, PackedLimit DEF TooOld
<1> HIDE DEF ds, dn
<1>3. CASE ds >= AgeSec + 1
  <2>1. (AgeSec + 1) * NsecBase <= ds * NsecBase
    BY <1>1, <1>3, TimesMonotone
  <2>2. (AgeSec + 1) * NsecBase = AgeSec * NsecBase + NsecBase
    OBVIOUS
  <2> QED
    BY <1>1, <1>2, <1>3, <2>1, <2>2 DEF ds
<1>4. CASE ds = AgeSec
  BY <1>1, <1>2, <1>4 DEF ds, dn
<1>5. CASE ds <= AgeSec - 1
  <2>1. ds * NsecBase <= (AgeSec - 1) * NsecBase
    BY <1>1, <1>5, TimesMonotone
  <2>2. (AgeSec - 1) * NsecBase = AgeSec * NsecBase - NsecBase
    OBVIOUS
  <2> QED
    BY <1>1, <1>2, <1>5, <2>1, <2>2 DEF ds
<1> QED
  BY <1>1, <1>3, <1>4, <1>5

(* A real age is the seconds' difference scaled plus the nanoseconds'.      *)
LEMMA AgeIsDifference ==
  ASSUME NEW n \in Stamp, NEW t \in Stamp
  PROVE  Age(n, t) = (n.sec - t.sec) * NsPerSec + (n.nsec - t.nsec)
<1>1. n.sec \in Int /\ n.nsec \in Int /\ t.sec \in Int /\ t.nsec \in Int
  BY TimeAssumption DEF Stamp
<1>2. (n.sec - t.sec) * NsPerSec = n.sec * NsPerSec - t.sec * NsPerSec
  BY <1>1, TimeAssumption
<1> QED
  BY <1>1, <1>2, TimeAssumption DEF Age, Nanos

-----------------------------------------------------------------------------
(* Time stamps stay in their range. *)
THEOREM TypeCorrect == Spec => []TypeOK
<1>1. Init => TypeOK
  BY DEF Init, TypeOK
<1>2. TypeOK /\ [Next]_vars => TypeOK'
  BY DEF TypeOK, Next, ReadClock, vars
<1> QED
  BY <1>1, <1>2, PTL DEF Spec

(* The time-out of partial events (collector.cpp:250-259) never comes late, *)
(* whatever maxEventAge is set to.                                          *)
THEOREM TimeoutNeverLate ==
  ASSUME HalfRange
  PROVE  Spec => []NeverLate
<1>1. TypeOK => NeverLate
  <2> SUFFICES ASSUME TypeOK, Age(now, ts) >= MaxAgeNanos
               PROVE  TooOld(now, ts)
    BY DEF NeverLate
  <2> USE TimeAssumption
  <2>1. now \in Stamp /\ ts \in Stamp
    BY DEF TypeOK
  <2> DEFINE ds == now.sec - ts.sec
             dn == now.nsec - ts.nsec
  <2>2. ds \in Int /\ dn \in Int /\ dn < NsPerSec
    BY <2>1 DEF Stamp
  <2>3. ds * NsPerSec + dn >= AgeSec * NsPerSec + AgeNsec
    BY <2>1, AgeIsDifference DEF MaxAgeNanos
  <2>4. ds > AgeSec \/ (ds = AgeSec /\ dn >= AgeNsec)
    <3> HIDE DEF ds, dn
    <3>1. CASE ds <= AgeSec - 1
      <4>1. ds * NsPerSec <= (AgeSec - 1) * NsPerSec
        BY <2>2, <3>1, TimesMonotone
      <4>2. (AgeSec - 1) * NsPerSec = AgeSec * NsPerSec - NsPerSec
        OBVIOUS
      <4>3. ds * NsPerSec \in Int /\ AgeSec * NsPerSec \in Int
        BY <2>2
      <4> QED
        BY <2>2, <2>3, <4>1, <4>2, <4>3
    <3>2. CASE ds = AgeSec
      BY <2>2, <2>3, <3>2
    <3> QED
      BY <2>2, <3>1, <3>2
  <2> QED
    BY <2>1, <2>4, TooOldBySeconds
<1> QED
  BY <1>1, TypeCorrect, PTL

(* The same time-out comes early by less than the fraction of a second of   *)
(* maxEventAge: with 2.5 s, never before 2 s.                               *)
THEOREM TimeoutHardlyEarly ==
  ASSUME HalfRange
  PROVE  Spec => []EarlyByLessThanFraction
<1>1. TypeOK => EarlyByLessThanFraction
  <2> SUFFICES ASSUME TypeOK, TooOld(now, ts)
               PROVE  Age(now, ts) >= AgeSec * NsPerSec
    BY DEF EarlyByLessThanFraction
  <2> USE TimeAssumption
  <2>1. now \in Stamp /\ ts \in Stamp
    BY DEF TypeOK
  <2> DEFINE ds == now.sec - ts.sec
             dn == now.nsec - ts.nsec
  <2>2. ds \in Int /\ dn \in Int /\ -dn < NsPerSec
    BY <2>1 DEF Stamp
  <2>3. Age(now, ts) = ds * NsPerSec + dn
    BY <2>1, AgeIsDifference
  <2>4. ds > AgeSec \/ (ds = AgeSec /\ dn >= AgeNsec)
    BY <2>1, TooOldBySeconds
  <2> HIDE DEF ds, dn
  <2>5. CASE ds >= AgeSec + 1
    <3>1. (AgeSec + 1) * NsPerSec <= ds * NsPerSec
      BY <2>2, <2>5, TimesMonotone
    <3>2. (AgeSec + 1) * NsPerSec = AgeSec * NsPerSec + NsPerSec
      OBVIOUS
    <3>3. ds * NsPerSec \in Int /\ AgeSec * NsPerSec \in Int
      BY <2>2
    <3> QED
      BY <2>2, <2>3, <3>1, <3>2, <3>3
  <2>6. CASE ds = AgeSec /\ dn >= AgeNsec
    BY <2>2, <2>3, <2>6
  <2> QED
    BY <2>2, <2>4, <2>5, <2>6
<1> QED
  BY <1>1, TypeCorrect, PTL

(* The packed order of two time stamps is the order of their halves. *)
LEMMA PackOrder ==
  ASSUME NEW n \in Stamp, NEW t \in Stamp
  PROVE  Pack(t) < Pack(n) <=>
           \/ t.sec < n.sec
           \/ t.sec = n.sec /\ t.nsec < n.nsec
<1> USE TimeAssumption
<1> DEFINE a == t.sec
           b == n.sec
<1>1. /\ a \in Nat /\ b \in Nat
      /\ t.nsec \in Nat /\ t.nsec < NsPerSec
      /\ n.nsec \in Nat /\ n.nsec < NsPerSec
  BY DEF Stamp
<1>2. /\ Pack(t) = a * NsecBase + t.nsec
      /\ Pack(n) = b * NsecBase + n.nsec
  BY DEF Pack
<1> HIDE DEF a, b
<1>3. /\ a * NsecBase \in Int /\ (a + 1) * NsecBase = a * NsecBase + NsecBase
      /\ b * NsecBase \in Int /\ (b + 1) * NsecBase = b * NsecBase + NsecBase
  BY <1>1
<1>4. CASE a < b
  <2>1. (a + 1) * NsecBase <= b * NsecBase
    BY <1>1, <1>4, TimesMonotone
  <2> QED
    BY <1>1, <1>2, <1>3, <1>4, <2>1 DEF a, b
<1>5. CASE a = b
  BY <1>1, <1>2, <1>3, <1>5 DEF a, b
<1>6. CASE b < a
  <2>1. (b + 1) * NsecBase <= a * NsecBase
    BY <1>1, <1>6, TimesMonotone
  <2> QED
    BY <1>1, <1>2, <1>3, <1>6, <2>1 DEF a, b
<1> QED
  BY <1>1, <1>4, <1>5, <1>6

(* The early exit of the scan in process_test() is sound: every event with  *)
(* a smaller key than one found too old is too old.                         *)
THEOREM ScanMayStopAtTooOld ==
  ASSUME HalfRange
  PROVE  Spec => []EarlierAlsoTooOld
<1>1. TypeOK => EarlierAlsoTooOld
  <2> SUFFICES ASSUME TypeOK, NEW t \in Stamp,
                      Pack(t) < Pack(ts), TooOld(now, ts)
               PROVE  TooOld(now, t)
    BY DEF EarlierAlsoTooOld
  <2>1. now \in Stamp /\ ts \in Stamp
    BY DEF TypeOK
  <2>2. /\ now.sec \in Nat /\ ts.sec \in Nat /\ t.sec \in Nat
        /\ now.nsec \in Nat /\ ts.nsec \in Nat /\ t.nsec \in Nat
        /\ AgeSec \in Nat /\ AgeNsec \in Nat
    BY <2>1, TimeAssumption DEF Stamp
  <2>3. t.sec < ts.sec \/ (t.sec = ts.sec /\ t.nsec < ts.nsec)
    BY <2>1, PackOrder
  <2>4. \/ now.sec - ts.sec > AgeSec
        \/ now.sec - ts.sec = AgeSec /\ now.nsec - ts.nsec >= AgeNsec
    BY <2>1, TooOldBySeconds
  <2>5. \/ now.sec - t.sec > AgeSec
        \/ now.sec - t.sec = AgeSec /\ now.nsec - t.nsec >= AgeNsec
    BY <2>2, <2>3, <2>4
  <2> QED
    BY <2>1, <2>5, TooOldBySeconds
<1> QED
  BY <1>1, TypeCorrect, PTL

(* The same for times: nanoseconds of one second never reach the next.      *)
LEMMA NanosOrder ==
  ASSUME NEW n \in Stamp, NEW t \in Stamp
  PROVE  Nanos(t) < Nanos(n) <=>
           \/ t.sec < n.sec
           \/ t.sec = n.sec /\ t.nsec < n.nsec
<1> USE TimeAssumption
<1>1. /\ n.sec \in Int /\ t.sec \in Int
      /\ n.nsec \in 0 .. NsPerSec - 1 /\ t.nsec \in 0 .. NsPerSec - 1
  BY DEF Stamp
<1>2. n.sec * NsPerSec \in Int /\ t.sec * NsPerSec \in Int
  BY <1>1
<1>3. CASE t.sec = n.sec
  BY <1>1, <1>2, <1>3 DEF Nanos
<1>4. CASE t.sec < n.sec
  <2>1. (t.sec + 1) * NsPerSec <= n.sec * NsPerSec
    BY <1>1, <1>4, TimesMonotone
  <2>2. (t.sec + 1) * NsPerSec = t.sec * NsPerSec + NsPerSec
    BY <1>1
  <2> QED
    BY <1>1, <1>2, <1>4, <2>1, <2>2 DEF Nanos
<1>5. CASE t.sec > n.sec
  <2>1. (n.sec + 1) * NsPerSec <= t.sec * NsPerSec
    BY <1>1, <1>5, TimesMonotone
  <2>2. (n.sec + 1) * NsPerSec = n.sec * NsPerSec + NsPerSec
    BY <1>1
  <2> QED
    BY <1>1, <1>2, <1>5, <2>1, <2>2 DEF Nanos
<1> QED
  BY <1>1, <1>3, <1>4, <1>5

(* The map of events, ordered by the packed word, is in the order of time,  *)
(* for any split of the word that leaves room for a second's nanoseconds,   *)
(* over the whole range of the keys: no half range is needed here.          *)
THEOREM KeysAreInTimeOrder == Spec => []KeyOrderIsTimeOrder
<1>1. TypeOK => KeyOrderIsTimeOrder
  BY PackOrder, NanosOrder DEF TypeOK, KeyOrderIsTimeOrder
<1> QED
  BY <1>1, TypeCorrect, PTL
=============================================================================
