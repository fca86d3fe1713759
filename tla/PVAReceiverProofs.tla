-------------------------- MODULE PVAReceiverProofs --------------------------
(***************************************************************************)
(* Proofs about the PVAReceiver, for any number of PVs, any types and any   *)
(* events: a thread that waits for a rebuild is woken, and the columns hold *)
(* the values that the PVs had, of the types that the structure says.       *)
(*                                                                         *)
(* slices() is called by two threads, and the one that finds NeedRetype     *)
(* rebuilds with the mutex released.  The first invariant, IInv, says that  *)
(* RetypeInProg stands for exactly one thread that rebuilds, and that the   *)
(* processor can only be made to wait by the constructor, which copies no   *)
(* events and so leaves the state at Run.  All this is claimed of receivers *)
(* that were named before the first batch.                                  *)
(*                                                                         *)
(* The second, CopyInv, is about the data.  What a copier does with a batch *)
(* is a recursive function of the events, and what holds of it is shown by  *)
(* induction over them: a batch for which it fails would have a least event *)
(* at which it fails (HasLeast).                                            *)
(***************************************************************************)
EXTENDS PVAReceiver, WellFoundedInduction, NaturalsInduction, TLAPS

Types ==
  /\ DOMAIN pc = Thread
  /\ DOMAIN batch = Thread
  /\ batch["owner"] = NoEvents
  /\ state \in {"NeedRetype", "RetypeInProg", "Run"}

(* The processor comes after names(). *)
NamedFirst ==
  /\ pc["owner"] = "insert" => ~ joined
  /\ pc["owner"] \in {"insert", "names"} => pc["processor"] = "idle"

OneRebuilds ==
  /\ state = "RetypeInProg" <=> \E t \in Thread : Rebuilding(t)
  /\ ~ (Rebuilding("owner") /\ Rebuilding("processor"))

(* What the processor waits for is the constructor's rebuild, or over.      *)
ProcessorWaits ==
  pc["processor"] \in {"wait", "woken"} =>
    \/ Rebuilding("owner")
    \/ /\ pc["owner"] \in {"post", "clear", "built", "removed", "closed"}
       /\ state = "Run"

(* The end of a rebuild is signalled to whoever waits. *)
Signalled == \A t \in Thread : pc[t] = "wait" /\ state = "Run" => stateRun

Protocol == NamedFirst /\ OneRebuilds /\ ProcessorWaits /\ Signalled

IInv == Types /\ (~ early => Protocol)

USE DEF vars, outside, fields, Thread, At, Goto

-----------------------------------------------------------------------------
(* The constructor's call of slices() has no events: no type changes.       *)
LEMMA NothingToCopy == \A c : Copy(c, NoEvents).verdict = "copied"
BY DEF Copy, NoEvents

LEMMA FillStates == ASSUME NEW b, Fill(b) PROVE state' \in {"Run", "NeedRetype"}
BY DEF Fill, StateAfter

LEMMA FillNothing == ASSUME Fill(NoEvents) PROVE state' = "Run"
<1>1. "retype" \notin
        {[d \in HasCopier |-> Copy(d, NoEvents)][c].verdict : c \in HasCopier}
  BY NothingToCopy
<1> QED
  BY <1>1 DEF Fill, StateAfter

LEMMA Initially == Init => IInv
<1> SUFFICES ASSUME Init PROVE IInv
  OBVIOUS
<1>1. Types
  BY DEF Init, Types
<1>2. pc["owner"] = "insert" /\ pc["processor"] = "idle"
  BY DEF Init
<1>3. state = "NeedRetype" /\ ~ joined
  BY DEF Init
<1> QED
  BY <1>1, <1>2, <1>3
  DEF IInv, Protocol, NamedFirst, OneRebuilds, ProcessorWaits, Signalled,
      Rebuilding

-----------------------------------------------------------------------------
(* A thread t goes from one place to another. *)
Moves(t, here, there) ==
  /\ pc[t] = here /\ pc'[t] = there
  /\ \A other \in Thread \ {t} : pc'[other] = pc[other]

LEMMA GotoMoves ==
  ASSUME Types, NEW t \in Thread, NEW here, NEW there, At(t, here), Goto(t, there)
  PROVE  Moves(t, here, there) /\ DOMAIN pc' = Thread
BY DEF Types, Moves

LEMMA RetypeStep ==
  ASSUME IInv, NEW t \in Thread, Retype(t) PROVE IInv'
<1>1. /\ Moves(t, "enter", "reclose") /\ Types'
      /\ state = "NeedRetype" /\ state' = "RetypeInProg"
      /\ UNCHANGED <<stateRun, joined, early>>
  BY GotoMoves DEF Retype, IInv, Types
<1>2. ASSUME ~ early PROVE Protocol'
  <2>1. CASE t = "owner"
    BY <1>1, <1>2, <2>1
    DEF IInv, Protocol, Moves, NamedFirst, OneRebuilds, ProcessorWaits,
        Signalled, Rebuilding
  <2>2. CASE t = "processor"
    BY <1>1, <1>2, <2>2
    DEF IInv, Protocol, Moves, NamedFirst, OneRebuilds, ProcessorWaits,
        Signalled, Rebuilding
  <2> QED
    BY <2>1, <2>2
<1> QED
  BY <1>1, <1>2 DEF IInv

(* A thread enters slices(), or wakes up in it, and does not rebuild.       *)
LEMMA CopyOrWait ==
  ASSUME IInv, NEW t \in Thread, Enter(t) \/ Woken(t)
  PROVE  IInv'
<1>1. /\ Types'
      /\ UNCHANGED <<stateRun, joined, early>>
      /\ \E here \in {"enter", "woken"} :
           \/ /\ Moves(t, here, "post")
              /\ state = "Run" /\ state' \in {"Run", "NeedRetype"}
           \/ /\ Moves(t, here, "wait")
              /\ state # "Run" /\ state' = state
              /\ here = "enter" => state = "RetypeInProg"
  <2>1. CASE Enter(t)
    BY <2>1, GotoMoves, FillStates DEF Enter, IInv, Types
  <2>2. CASE Woken(t)
    <3>1. \/ Fill(batch[t]) /\ state = "Run" /\ Goto(t, "post")
          \/ state' = state /\ state # "Run" /\ Goto(t, "wait")
      BY <2>2 DEF Woken
    <3>2. Types'
      BY <2>2, <3>1, GotoMoves, FillStates DEF Woken, IInv, Types
    <3> QED
      BY <2>2, <3>1, <3>2, GotoMoves, FillStates DEF Woken, IInv
  <2> QED
    BY <2>1, <2>2
<1>2. ASSUME ~ early PROVE Protocol'
  <2>1. CASE t = "owner"
    BY <1>1, <1>2, <2>1
    DEF IInv, Protocol, Moves, NamedFirst, OneRebuilds, ProcessorWaits,
        Signalled, Rebuilding
  <2>2. CASE t = "processor"
    BY <1>1, <1>2, <2>2
    DEF IInv, Protocol, Moves, NamedFirst, OneRebuilds, ProcessorWaits,
        Signalled, Rebuilding
  <2> QED
    BY <2>1, <2>2
<1> QED
  BY <1>1, <1>2 DEF IInv

LEMMA ReopenedStep ==
  ASSUME IInv, NEW t \in Thread, Reopened(t) PROVE IInv'
<1>1. /\ Moves(t, "reopened", "post") /\ Types'
      /\ state' \in {"Run", "NeedRetype"}
      /\ t = "owner" => state' = "Run"
      /\ stateRun'
      /\ UNCHANGED <<joined, early>>
  <2>1. Fill(batch[t]) /\ (t = "owner" => Fill(NoEvents))
    BY DEF Reopened, IInv, Types
  <2>2. Moves(t, "reopened", "post") /\ Types'
    BY <2>1, GotoMoves, FillStates DEF Reopened, IInv, Types
  <2> QED
    BY <2>1, <2>2, FillStates, FillNothing DEF Reopened
<1>2. ASSUME ~ early PROVE Protocol'
  <2>1. CASE t = "owner"
    BY <1>1, <1>2, <2>1
    DEF IInv, Protocol, Moves, NamedFirst, OneRebuilds, ProcessorWaits,
        Signalled, Rebuilding
  <2>2. CASE t = "processor"
    BY <1>1, <1>2, <2>2
    DEF IInv, Protocol, Moves, NamedFirst, OneRebuilds, ProcessorWaits,
        Signalled, Rebuilding
  <2> QED
    BY <2>1, <2>2
<1> QED
  BY <1>1, <1>2 DEF IInv

(* stateRun.wait() takes the signal: only one thread waits at a time.       *)
LEMMA WaitStep ==
  ASSUME IInv, NEW t \in Thread, Wait(t) PROVE IInv'
<1>1. /\ Moves(t, "wait", "woken") /\ Types'
      /\ UNCHANGED <<state, joined, early>>
  BY GotoMoves DEF Wait, IInv, Types
<1>2. ASSUME ~ early PROVE Protocol'
  <2>1. CASE t = "owner"
    BY <1>1, <1>2, <2>1
    DEF IInv, Protocol, Moves, NamedFirst, OneRebuilds, ProcessorWaits,
        Signalled, Rebuilding
  <2>2. CASE t = "processor"
    BY <1>1, <1>2, <2>2
    DEF IInv, Protocol, Moves, NamedFirst, OneRebuilds, ProcessorWaits,
        Signalled, Rebuilding
  <2> QED
    BY <2>1, <2>2
<1> QED
  BY <1>1, <1>2 DEF IInv

(* Steps that only take a thread on, or end in an exception. *)
LEMMA PlainSteps ==
  ASSUME IInv, NEW t \in Thread,
         Close(t, "reclose", "open") \/ Open(t) \/ Post(t) \/ Clear(t)
  PROVE  IInv'
<1>1. /\ Types'
      /\ UNCHANGED <<state, stateRun, joined, early>>
      /\ \/ Moves(t, "reclose", "open")
         \/ Moves(t, "open", "reopened")
         \/ Moves(t, "post", "clear")
         \/ t = "owner" /\ Moves(t, "clear", "built")
         \/ t = "processor" /\ Moves(t, "clear", "idle")
         \/ UNCHANGED pc
  <2>1. CASE Close(t, "reclose", "open")
    BY <2>1, GotoMoves DEF Close, IInv, Types
  <2>2. CASE Open(t)
    BY <2>2, GotoMoves DEF Open, IInv, Types
  <2>3. CASE Post(t)
    BY <2>3, GotoMoves DEF Post, IInv, Types
  <2>4. CASE Clear(t)
    BY <2>4, GotoMoves DEF Clear, IInv, Types
  <2> QED
    BY <2>1, <2>2, <2>3, <2>4
<1>2. ASSUME ~ early PROVE Protocol'
  <2>1. CASE t = "owner"
    BY <1>1, <1>2, <2>1
    DEF IInv, Protocol, Moves, NamedFirst, OneRebuilds, ProcessorWaits,
        Signalled, Rebuilding
  <2>2. CASE t = "processor"
    BY <1>1, <1>2, <2>2
    DEF IInv, Protocol, Moves, NamedFirst, OneRebuilds, ProcessorWaits,
        Signalled, Rebuilding
  <2> QED
    BY <2>1, <2>2
<1> QED
  BY <1>1, <1>2 DEF IInv

LEMMA SlicesStep ==
  ASSUME IInv, NEW t \in Thread, Slices(t) PROVE IInv'
BY RetypeStep, CopyOrWait, ReopenedStep, WaitStep, PlainSteps DEF Slices

(* The constructor before it calls slices(), and close(). *)
LEMMA OwnerStep ==
  ASSUME IInv,
         \/ Insert \/ Names \/ Remove
         \/ Close("owner", "namesClose", "enter")
         \/ Close("owner", "removed", "closed")
  PROVE  IInv'
<1>1. CASE Insert \/ Remove
  <2>1. /\ Types'
        /\ UNCHANGED <<state, stateRun, early>>
        /\ \/ Moves("owner", "insert", "names")
           \/ Moves("owner", "built", "removed")
    BY <1>1, GotoMoves DEF Insert, Remove, IInv, Types
  <2> QED
    BY <2>1
    DEF IInv, Protocol, Moves, NamedFirst, OneRebuilds, ProcessorWaits,
        Signalled, Rebuilding
<1>2. CASE Names
  <2>1. /\ Types'
        /\ state' = "NeedRetype"
        /\ UNCHANGED <<stateRun, joined, early>>
        /\ Moves("owner", "names", "namesClose")
    BY <1>2, GotoMoves DEF Names, IInv, Types
  <2> QED
    BY <2>1
    DEF IInv, Protocol, Moves, NamedFirst, OneRebuilds, ProcessorWaits,
        Signalled, Rebuilding
<1>3. CASE \/ Close("owner", "namesClose", "enter")
           \/ Close("owner", "removed", "closed")
  <2>1. /\ Types'
        /\ UNCHANGED <<state, stateRun, joined, early>>
        /\ \/ Moves("owner", "namesClose", "enter")
           \/ Moves("owner", "removed", "closed")
    BY <1>3, GotoMoves DEF Close, IInv, Types
  <2> QED
    BY <2>1
    DEF IInv, Protocol, Moves, NamedFirst, OneRebuilds, ProcessorWaits,
        Signalled, Rebuilding
<1> QED
  BY <1>1, <1>2, <1>3

LEMMA DeliverStep == ASSUME IInv, Deliver PROVE IInv'
<1>1. /\ Moves("processor", "idle", "enter")
      /\ joined
      /\ UNCHANGED <<state, stateRun, joined>>
      /\ early' = (early \/ pc["owner"] = "names")
  BY GotoMoves DEF Deliver, IInv, Types
<1>2. Types'
  <2>1. DOMAIN pc' = Thread /\ state' = state
    BY GotoMoves DEF Deliver, IInv, Types
  <2>2. PICK n \in 1 .. MaxRows :
          batch' = [batch EXCEPT !["processor"] =
                      [from |-> Len(history) + 1, to |-> Len(history) + n]]
    BY DEF Deliver
  <2> QED
    BY <2>1, <2>2 DEF IInv, Types
<1>3. ASSUME ~ early' PROVE Protocol'
  BY <1>1, <1>3
  DEF IInv, Protocol, Moves, NamedFirst, OneRebuilds, ProcessorWaits, Signalled,
      Rebuilding
<1> QED
  BY <1>2, <1>3 DEF IInv

LEMMA NextStep == IInv /\ [Next]_vars => IInv'
<1> SUFFICES ASSUME IInv, [Next]_vars PROVE IInv'
  OBVIOUS
<1>1. CASE Construct \/ Remove \/ Close("owner", "removed", "closed")
  BY <1>1, OwnerStep, SlicesStep DEF Construct
<1>2. CASE Deliver
  BY <1>2, DeliverStep
<1>3. CASE Slices("processor")
  BY <1>3, SlicesStep
<1>4. CASE UNCHANGED vars
  BY <1>4
  DEF IInv, Types, Protocol, NamedFirst, OneRebuilds, ProcessorWaits, Signalled,
      Rebuilding
<1> QED
  BY <1>1, <1>2, <1>3, <1>4 DEF Next

LEMMA InvariantSuffices == IInv => WaiterIsWoken
<1> SUFFICES ASSUME IInv, ~ early,
                    NEW t \in Thread, NEW other \in Thread,
                    pc[t] = "wait", other # t
             PROVE  \/ stateRun
                    \/ Rebuilding(other)
                    \/ t = "owner" /\ state = "NeedRetype"
  BY DEF WaiterIsWoken
<1>1. CASE state = "Run"
  BY <1>1 DEF IInv, Protocol, Signalled
<1>2. CASE state = "RetypeInProg"
  BY <1>2 DEF IInv, Protocol, OneRebuilds, Rebuilding
<1>3. CASE state = "NeedRetype"
  BY <1>3 DEF IInv, Protocol, ProcessorWaits, OneRebuilds
<1> QED
  BY <1>1, <1>2, <1>3 DEF IInv, Types

-----------------------------------------------------------------------------
(* No thread waits in slices() for a rebuild that nobody does: for any      *)
(* number of PVs, types and events, and whenever the other thread closes,   *)
(* whoever waits has been signalled, or the other thread is rebuilding, or  *)
(* the rebuild is due and the constructor waits for the next batch.         *)
THEOREM WaitersAreWoken == Spec => []WaiterIsWoken
BY Initially, NextStep, InvariantSuffices, PTL DEF Spec

-----------------------------------------------------------------------------
(* The data: the columns, the structure and what is served *)

(* Where slices() has not yet copied its events. *)
Slicing == {"enter", "reclose", "open", "reopened", "wait", "woken"}

(* The processor's batch is in the history; before it is copied its events  *)
(* are the last ones.                                                       *)
BatchOK ==
  /\ batch["owner"] = NoEvents
  /\ batch["processor"].from \in Nat \ {0}
  /\ batch["processor"].to \in 0 .. Len(history)
  /\ batch["processor"].from <= batch["processor"].to + 1
  /\ pc["processor"] \in Slicing => batch["processor"].to = Len(history)

(* The last event that every copier has seen. *)
Processed ==
  IF pc["processor"] \in Slicing THEN batch["processor"].from - 1
                                 ELSE Len(history)

(* The last value of column c is that of a PV which has said nothing since. *)
IsLast(h, c, last, n) ==
  last # 0 =>
    /\ last <= n
    /\ h[last][c].what # "none"
    /\ \A k \in last + 1 .. n : h[k][c].what = "none"

LastOK ==
  fate = "ok" =>
    \A c \in DOMAIN columns : IsLast(history, c, columns[c].last, Processed)

(* A copier of arrays keeps its type; a column without a copier holds no    *)
(* value; a copier made for this root is of the type that the root has.     *)
CopierOK(col) ==
  /\ col.copier = "array" => col.array /\ col.type = col.made
  /\ col.copier = "none" => col.last = 0 /\ ~ col.fresh

CopiersOK == \A c \in DOMAIN columns : CopierOK(columns[c])

FreshOK ==
  \A c \in DOMAIN columns : columns[c].fresh =>
    /\ root.built
    /\ root.shape[c] = [array |-> columns[c].copier = "array",
                        type |-> columns[c].made]

(* A row that tells the truth about column c, and one of a given type.      *)
TrueRow(h, fill, c, row) ==
  row.value # 0 =>
    /\ row.value = row.event \/ (fill /\ row.value < row.event)
    /\ h[row.value][c].what \in {"scalar", "array"}
    /\ \A k \in row.value + 1 .. row.event : h[k][c].what = "none"

TypedRow(h, c, row, kind) ==
  row.value # 0 =>
    /\ h[row.value][c].type = kind.type
    /\ h[row.value][c].what = "array" => kind.array

IsPast(h, row) == row.event \in 1 .. Len(h) /\ row.value \in 0 .. Len(h)

RowOK(h, fill, c, row, kind) ==
  IsPast(h, row) /\ TrueRow(h, fill, c, row) /\ TypedRow(h, c, row, kind)

RootOK ==
  \A c \in DOMAIN root.data : \A i \in DOMAIN root.data[c] :
    RowOK(history, backFill, c, root.data[c][i], root.shape[c])

PvOK ==
  \A c \in DOMAIN pv.data : \A i \in DOMAIN pv.data[c] :
    RowOK(history, backFill, c, pv.data[c][i], pv.shape[c])

(* From its rebuild to the next change of type, the structure has the types *)
(* of the columns, and the same time stamps in all that are copied.         *)
Events(rows) == [i \in DOMAIN rows |-> rows[i].event]

ConsistentOK ==
  ~ early /\ state # "NeedRetype" /\ root.built =>
    /\ root.shape = Shape
    /\ \A c \in DOMAIN columns : columns[c].fresh =>
         Events(root.data[c]) = root.rows

CopyInv ==
  /\ TypeOK /\ BatchOK /\ LastOK /\ CopiersOK /\ FreshOK /\ RootOK /\ PvOK
  /\ ConsistentOK

-----------------------------------------------------------------------------
(* copy() as a loop over the events *)

Start(c) == [col |-> columns[c], rows |-> <<>>, verdict |-> "copied"]

(* The copy after each event, up to event n. *)
IsRun(c, b, n, g) ==
  g = [k \in b.from .. n |->
         CopyCell(c, IF k = b.from THEN Start(c) ELSE g[k - 1], k)]

Run(c, b) == CHOOSE g : IsRun(c, b, b.to, g)

LEMMA CopyUnfolds ==
  ASSUME NEW c, NEW b
  PROVE  Copy(c, b) = IF b.from > b.to THEN Start(c) ELSE Run(c, b)[b.to]
BY Zenon DEF Copy, Run, IsRun, Start

LEMMA RunGrows ==
  ASSUME NEW c, NEW b, b.from \in Nat, NEW n \in Nat, b.from < n,
         NEW g, IsRun(c, b, n - 1, g)
  PROVE  \E h : IsRun(c, b, n, h)
<1> DEFINE F(f, k) == CopyCell(c, IF k = b.from THEN Start(c) ELSE f[k - 1], k)
<1> DEFINE h == [k \in b.from .. n |-> IF k = n THEN F(g, n) ELSE g[k]]
<1>1. g = [k \in b.from .. n - 1 |-> F(g, k)]
  BY DEF IsRun
<1>2. ASSUME NEW k \in b.from .. n PROVE F(h, k) = F(g, k)
  <2>1. CASE k = b.from
    BY <2>1
  <2>2. CASE k # b.from
    <3>1. k - 1 \in b.from .. n /\ k - 1 # n
      BY <2>2
    <3>2. h[k - 1] = g[k - 1]
      BY <3>1
    <3> QED
      BY <3>2
  <2> QED
    BY <2>1, <2>2
<1>3. ASSUME NEW k \in b.from .. n PROVE h[k] = F(g, k)
  <2>1. CASE k = n
    BY <2>1
  <2>2. CASE k # n
    <3>1. k \in b.from .. n - 1
      BY <2>2
    <3> HIDE DEF F
    <3>2. g[k] = F(g, k)
      BY <1>1, <3>1
    <3> QED
      BY <2>2, <3>2
  <2> QED
    BY <2>1, <2>2
<1>4. h = [k \in b.from .. n |-> F(h, k)]
  <2> HIDE DEF F
  <2>1. h = [k \in b.from .. n |-> h[k]]
    OBVIOUS
  <2> HIDE DEF h
  <2>2. \A k \in b.from .. n : h[k] = F(h, k)
    BY <1>2, <1>3
  <2> QED
    BY <2>1, <2>2
<1>5. IsRun(c, b, n, h)
  <2> HIDE DEF h
  <2> QED
    BY <1>4 DEF IsRun
<1> QED
  BY <1>5

(* The least number in a set of numbers. *)
LEMMA HasLeast ==
  ASSUME NEW S, S # {}, S \subseteq Nat
  PROVE  \E x \in S : \A y \in S : x <= y
<1> DEFINE R == OpToRel(<, Nat)
<1>1. PICK x \in S : \A y \in S : ~ (<<y, x>> \in R)
  <2> HIDE DEF R
  <2>1. IsWellFoundedOn(R, Nat)
    BY NatLessThanWellFounded DEF R
  <2> QED
    BY <2>1, WFMin
<1>2. \A i, j \in Nat : i < j => <<i, j>> \in R
  BY DEF OpToRel
<1> HIDE DEF R
<1>3. \A y \in S : ~ (y < x)
  BY <1>1, <1>2
<1> QED
  BY <1>3

LEMMA RunExists ==
  ASSUME NEW c, NEW b, b.from \in Nat, NEW to \in Nat, b.from <= to
  PROVE  \E g : IsRun(c, b, to, g)
<1> DEFINE Bad == {n \in Nat : b.from <= n /\ ~ \E g : IsRun(c, b, n, g)}
<1> SUFFICES ASSUME Bad # {} PROVE FALSE
  BY DEF IsRun
<1>1. PICK n \in Bad : \A m \in Bad : n <= m
  <2> HIDE DEF Bad
  <2>1. Bad \subseteq Nat
    BY DEF Bad
  <2> QED
    BY <2>1, HasLeast
<1>2. CASE n = b.from
  <2> DEFINE g == [k \in b.from .. n |-> CopyCell(c, Start(c), k)]
  <2>1. IsRun(c, b, n, g)
    <3>1. \A k \in b.from .. n : k = b.from
      BY <1>2
    <3>2. g = [k \in b.from .. n |->
                 CopyCell(c, IF k = b.from THEN Start(c) ELSE g[k - 1], k)]
      BY <3>1
    <3> HIDE DEF g
    <3> QED
      BY <3>2 DEF IsRun
  <2> QED
    BY <2>1
<1>3. CASE n # b.from
  <2>1. n - 1 \in Nat /\ b.from <= n - 1 /\ ~ (n <= n - 1) /\ b.from < n
    BY <1>3
  <2>2. PICK g : IsRun(c, b, n - 1, g)
    BY <1>1, <2>1
  <2>3. \E h : IsRun(c, b, n, h)
    BY <2>1, <2>2, RunGrows
  <2> QED
    BY <2>3
<1> QED
  BY <1>2, <1>3

(* What the loop of a copier does, turn by turn. *)
LEMMA RunSteps ==
  ASSUME NEW c, NEW b, b.from \in Nat, b.to \in Nat, b.from <= b.to
  PROVE  /\ Run(c, b)[b.from] = CopyCell(c, Start(c), b.from)
         /\ \A k \in b.from + 1 .. b.to :
              Run(c, b)[k] = CopyCell(c, Run(c, b)[k - 1], k)
<1> DEFINE g == Run(c, b)
<1>1. IsRun(c, b, b.to, g)
  BY RunExists DEF Run
<1> HIDE DEF g
<1>2. \A k \in b.from .. b.to :
        g[k] = CopyCell(c, IF k = b.from THEN Start(c) ELSE g[k - 1], k)
  BY <1>1 DEF IsRun
<1>3. g[b.from] = CopyCell(c, Start(c), b.from)
  BY <1>2
<1>4. ASSUME NEW k \in b.from + 1 .. b.to PROVE g[k] = CopyCell(c, g[k - 1], k)
  BY <1>2
<1> QED
  BY <1>3, <1>4 DEF g

-----------------------------------------------------------------------------
(* What copy() does *)

(* What a value must be to go into a row of column c. *)
Made(c) == [array |-> columns[c].copier = "array", type |-> columns[c].made]

(* What holds of a copy whatever became of it. *)
CopyOK(c, s) ==
  /\ s \in [col : ColumnState, rows : Seq(Entry),
            verdict : {"copied", "retype", "assertion"}]
  /\ s.col.last <= Len(history)
  /\ s.col.copier = columns[c].copier
  /\ s.col.made = columns[c].made
  /\ s.col.fresh = columns[c].fresh
  /\ CopierOK(s.col)
  /\ s.verdict # "retype" =>
       s.col.type = columns[c].type /\ s.col.array = columns[c].array
  /\ s.verdict = "retype" => s.col.last = 0
  /\ s.verdict = "assertion" =>
       s.col.copier = "scalar" /\ s.col.type # s.col.made
  /\ \A i \in DOMAIN s.rows : RowOK(history, backFill, c, s.rows[i], Made(c))

(* One that was not stopped has a row for each event. *)
Copied(c, b, n, s) ==
  s.verdict = "copied" =>
    /\ Len(s.rows) = n + 1 - b.from
    /\ \A i \in DOMAIN s.rows : s.rows[i].event = b.from + i - 1
    /\ IsLast(history, c, s.col.last, n)

CopyContext(c, b) ==
  /\ TypeOK /\ CopiersOK
  /\ c \in HasCopier
  /\ b.from \in Nat \ {0} /\ b.to \in 0 .. Len(history)

LEMMA ColumnOK ==
  ASSUME TypeOK, NEW c \in DOMAIN columns
  PROVE  columns[c] \in ColumnState /\ c \in Column /\ Len(columns) = N
BY ReceiverAssumption DEF TypeOK, Column

LEMMA CellOK ==
  ASSUME TypeOK, NEW c \in Column, NEW k \in 1 .. Len(history)
  PROVE  history[k][c] \in Cell
BY DEF TypeOK

LEMMA StartOK ==
  ASSUME NEW c, NEW b, CopyContext(c, b)
  PROVE  CopyOK(c, Start(c))
<1>1. columns[c] \in ColumnState
  BY ColumnOK DEF CopyContext, HasCopier
<1>2. CopierOK(columns[c]) /\ columns[c].last <= Len(history)
  BY DEF CopyContext, HasCopier, CopiersOK, TypeOK
<1> QED
  BY <1>1, <1>2 DEF CopyOK, Start

LEMMA StartCopied ==
  ASSUME NEW c, NEW b, CopyContext(c, b),
         IsLast(history, c, columns[c].last, b.from - 1)
  PROVE  Copied(c, b, b.from - 1, Start(c))
BY DEF Copied, Start, CopyContext

-----------------------------------------------------------------------------
(* A row is appended. *)
RowAdded(s, k, value, last) ==
  [s EXCEPT !.rows = Append(@, [event |-> k, value |-> value]),
            !.col.last = last]

LEMMA RowAddedOK ==
  ASSUME NEW c, NEW b, CopyContext(c, b), NEW s, CopyOK(c, s),
         s.verdict = "copied",
         NEW k \in b.from .. b.to, Copied(c, b, k - 1, s),
         NEW value \in 0 .. Len(history), NEW last \in 0 .. Len(history),
         RowOK(history, backFill, c, [event |-> k, value |-> value], Made(c)),
         IsLast(history, c, last, k)
  PROVE  /\ CopyOK(c, RowAdded(s, k, value, last))
         /\ Copied(c, b, k, RowAdded(s, k, value, last))
<1> DEFINE row == [event |-> k, value |-> value]
           r == RowAdded(s, k, value, last)
<1>0. k \in Nat /\ b.from \in Nat /\ Len(history) \in Nat
  BY DEF CopyContext, TypeOK
<1>1. row \in Entry
  BY <1>0 DEF Entry
<1>2. /\ s \in [col : ColumnState, rows : Seq(Entry),
                verdict : {"copied", "retype", "assertion"}]
      /\ s.col \in ColumnState /\ s.rows \in Seq(Entry)
  BY DEF CopyOK
<1>3. r.col = [s.col EXCEPT !.last = last] /\ r.rows = Append(s.rows, row)
      /\ r.verdict = "copied"
  BY <1>2 DEF RowAdded
<1>4. r.col \in ColumnState /\ r.rows \in Seq(Entry)
  <2>1. [s.col EXCEPT !.last = last] \in ColumnState
    BY <1>0, <1>2 DEF ColumnState
  <2>2. Append(s.rows, row) \in Seq(Entry)
    BY <1>1, <1>2
  <2> HIDE DEF r, row
  <2> QED
    BY <1>3, <2>1, <2>2
<1>5. ASSUME r.col \in ColumnState, r.rows \in Seq(Entry)
      PROVE  r \in [col : ColumnState, rows : Seq(Entry),
                    verdict : {"copied", "retype", "assertion"}]
  <2> DEFINE col == [s.col EXCEPT !.last = last]
             rows == Append(s.rows, row)
  <2>1. r = [s EXCEPT !.rows = rows, !.col = col]
    BY <1>2 DEF RowAdded
  <2>2. col \in ColumnState /\ rows \in Seq(Entry)
    BY <1>3, <1>5
  <2> HIDE DEF col, rows, row, r
  <2> QED
    BY <1>2, <2>1, <2>2
<1>6. /\ r.col.last = last /\ r.col.copier = s.col.copier
      /\ r.col.made = s.col.made /\ r.col.fresh = s.col.fresh
      /\ r.col.type = s.col.type /\ r.col.array = s.col.array
  BY <1>2, <1>3 DEF ColumnState
<1>7. /\ Len(r.rows) = Len(s.rows) + 1
      /\ r.rows[Len(s.rows) + 1] = row
      /\ \A i \in DOMAIN s.rows : r.rows[i] = s.rows[i]
      /\ DOMAIN r.rows = DOMAIN s.rows \cup {Len(s.rows) + 1}
  BY <1>1, <1>2, <1>3
<1> HIDE DEF r, row
<1>8. CopierOK(r.col)
  <2>1. s.col.copier # "none"
    BY DEF CopyOK, CopyContext, HasCopier
  <2>2. CopierOK(s.col)
    BY DEF CopyOK
  <2> QED
    BY <1>6, <2>1, <2>2 DEF CopierOK
<1>9. \A i \in DOMAIN r.rows : RowOK(history, backFill, c, r.rows[i], Made(c))
  BY <1>7 DEF CopyOK, row
<1>10. CopyOK(c, r)
  <2>1. r \in [col : ColumnState, rows : Seq(Entry),
               verdict : {"copied", "retype", "assertion"}]
    BY <1>4, <1>5
  <2>2. /\ s.col.copier = columns[c].copier
        /\ s.col.made = columns[c].made
        /\ s.col.fresh = columns[c].fresh
        /\ s.col.type = columns[c].type /\ s.col.array = columns[c].array
    BY DEF CopyOK
  <2> QED
    BY <1>0, <1>3, <1>6, <1>8, <1>9, <2>1, <2>2 DEF CopyOK
<1>11. Copied(c, b, k, r)
  <2>1. Len(s.rows) = k - b.from
    BY <1>0 DEF Copied
  <2>2. Len(r.rows) = k + 1 - b.from
    BY <1>0, <1>7, <2>1
  <2>3. ASSUME NEW i \in DOMAIN r.rows PROVE r.rows[i].event = b.from + i - 1
    <3>1. CASE i \in DOMAIN s.rows
      BY <1>7, <3>1 DEF Copied
    <3>2. CASE i = Len(s.rows) + 1
      BY <1>0, <1>7, <2>1, <3>2 DEF row
    <3> QED
      BY <1>7, <3>1, <3>2
  <2> QED
    BY <1>6, <2>2, <2>3 DEF Copied
<1> QED
  BY <1>10, <1>11 DEF r

RetypeTo(s, cell) ==
  [s EXCEPT !.col = Retyped(s.col, cell), !.verdict = "retype"]

(* A value is not copied: the type changes, or the assertion fails. *)
LEMMA RetypedOK ==
  ASSUME NEW c, NEW b, CopyContext(c, b), NEW s, CopyOK(c, s),
         s.verdict = "copied", NEW cell \in Cell
  PROVE  CopyOK(c, RetypeTo(s, cell))
<1> DEFINE col == Retyped(s.col, cell)
           r == [s EXCEPT !.col = col, !.verdict = "retype"]
<1>2. /\ s \in [col : ColumnState, rows : Seq(Entry),
                verdict : {"copied", "retype", "assertion"}]
      /\ s.col \in ColumnState /\ s.rows \in Seq(Entry)
  BY DEF CopyOK
<1>3. s.col.copier \in {"scalar", "array"} /\ CopierOK(s.col)
      /\ Len(history) \in Nat
  BY <1>2 DEF CopyOK, CopyContext, HasCopier, ColumnState, TypeOK
<1>4. /\ col \in ColumnState /\ col.last = 0
      /\ col.copier = s.col.copier /\ col.made = s.col.made
      /\ col.fresh = s.col.fresh
      /\ col.copier = "array" => col.type = col.made /\ col.array = s.col.array
  BY <1>2, <1>3 DEF Retyped, ColumnState, Cell
<1>5. CopierOK(col)
  BY <1>3, <1>4 DEF CopierOK
<1> HIDE DEF col
<1>6. r \in [col : ColumnState, rows : Seq(Entry),
             verdict : {"copied", "retype", "assertion"}]
      /\ r.col = col /\ r.rows = s.rows /\ r.verdict = "retype"
  BY <1>2, <1>4
<1> HIDE DEF r
<1>7. CopyOK(c, r)
  BY <1>3, <1>4, <1>5, <1>6 DEF CopyOK
<1> QED
  BY <1>7 DEF r, col, RetypeTo

LEMMA AssertionOK ==
  ASSUME NEW c, NEW b, CopyContext(c, b), NEW s, CopyOK(c, s),
         s.verdict = "copied",
         s.col.copier = "scalar", s.col.type # s.col.made
  PROVE  CopyOK(c, [s EXCEPT !.verdict = "assertion"])
BY DEF CopyOK

(* One turn of the loop. *)
LEMMA CellStep ==
  ASSUME NEW c, NEW b, CopyContext(c, b), NEW s, CopyOK(c, s),
         NEW k \in b.from .. b.to, Copied(c, b, k - 1, s)
  PROVE  CopyOK(c, CopyCell(c, s, k)) /\ Copied(c, b, k, CopyCell(c, s, k))
<1> DEFINE source == Source(c, s.col, k)
           cell == history[source][c]
<1>0. /\ k \in 1 .. Len(history) /\ Len(history) \in Nat
      /\ c \in Column /\ TypeOK
      /\ s.col \in ColumnState /\ s.col.last \in 0 .. Len(history)
      /\ s.verdict \in {"copied", "retype", "assertion"}
      /\ s.col.copier # "none"
  <2>1. TypeOK /\ c \in DOMAIN columns /\ columns[c].copier # "none"
        /\ b.from \in Nat \ {0} /\ b.to \in 0 .. Len(history)
    BY DEF CopyContext, HasCopier
  <2>2. c \in Column
    BY <2>1, ColumnOK
  <2>3. Len(history) \in Nat
    BY <2>1 DEF TypeOK
  <2>4. s.col \in ColumnState /\ s.col.last <= Len(history)
        /\ s.verdict \in {"copied", "retype", "assertion"}
        /\ s.col.copier = columns[c].copier
    BY DEF CopyOK
  <2>5. s.col.last \in Nat
    BY <2>4 DEF ColumnState
  <2> QED
    BY <2>1, <2>2, <2>3, <2>4, <2>5
<1>1. CASE s.verdict # "copied"
  <2>1. CopyCell(c, s, k) = s
    BY <1>1 DEF CopyCell
  <2> QED
    BY <1>1, <2>1 DEF Copied
<1>2. CASE s.verdict = "copied"
  <2>1. IsLast(history, c, s.col.last, k - 1)
    BY <1>2 DEF Copied
  <2>2. /\ source \in 1 .. Len(history) /\ source <= k
        /\ source # k =>
             /\ backFill /\ history[source][c].what # "none"
             /\ \A j \in source + 1 .. k : history[j][c].what = "none"
    <3>1. CASE history[k][c].what = "none" /\ backFill /\ s.col.last # 0
      <4>1. source = s.col.last /\ s.col.last <= k - 1
            /\ history[s.col.last][c].what # "none"
            /\ \A j \in s.col.last + 1 .. k - 1 : history[j][c].what = "none"
        BY <2>1, <3>1 DEF Source, IsLast
      <4>2. \A j \in s.col.last + 1 .. k : j = k \/ j \in s.col.last + 1 .. k - 1
        BY <1>0
      <4> QED
        BY <1>0, <3>1, <4>1, <4>2
    <3>2. CASE ~ (history[k][c].what = "none" /\ backFill /\ s.col.last # 0)
      <4>1. source = k
        BY <3>2 DEF Source
      <4> QED
        BY <1>0, <4>1
    <3> QED
      BY <3>1, <3>2
  <2> HIDE DEF source
  <2>3. cell \in Cell
    BY <1>0, <2>2, CellOK
  <2>4. \A j \in source + 1 .. k : history[j][c].what = "none"
    <3>1. CASE source = k
      BY <1>0, <3>1
    <3> QED
      BY <2>2, <3>1
  <2>5. cell.what # "none" => IsLast(history, c, source, k)
    BY <1>0, <2>2, <2>4 DEF IsLast
  <2>6. /\ RowOK(history, backFill, c, [event |-> k, value |-> 0], Made(c))
        /\ IsLast(history, c, 0, k)
    BY <1>0 DEF RowOK, IsPast, TrueRow, TypedRow, IsLast
  <2>7. /\ CopyCell(c, s, k) =
             IF cell.what = "none" THEN RowAdded(s, k, 0, 0) ELSE
             IF cell.what = "disc" THEN RowAdded(s, k, 0, source) ELSE
             IF Misfits(s.col, cell) THEN RetypeTo(s, cell)
             ELSE IF s.col.copier = "scalar" /\ s.col.type # s.col.made
                  THEN [s EXCEPT !.verdict = "assertion"]
                  ELSE RowAdded(s, k, source, source)
    <3>1. cell.what \in {"none", "disc", "scalar", "array"}
      BY <2>3 DEF Cell
    <3> QED
      BY <1>2, <3>1 DEF CopyCell, RowAdded, RetypeTo, source
  <2>8. CASE cell.what = "none"
    <3>1. CopyCell(c, s, k) = RowAdded(s, k, 0, 0)
      BY <2>7, <2>8
    <3> QED
      BY <1>0, <1>2, <2>6, <3>1, RowAddedOK
  <2>9. CASE cell.what = "disc"
    <3>1. CopyCell(c, s, k) = RowAdded(s, k, 0, source)
      BY <2>7, <2>9
    <3>2. source \in 0 .. Len(history) /\ IsLast(history, c, source, k)
      BY <1>0, <2>2, <2>5, <2>9
    <3> HIDE DEF cell
    <3> QED
      BY <1>0, <1>2, <2>6, <3>1, <3>2, RowAddedOK
  <2>10. CASE cell.what \in {"scalar", "array"} /\ Misfits(s.col, cell)
    <3>1. CopyCell(c, s, k) = RetypeTo(s, cell)
      BY <2>7, <2>10
    <3> HIDE DEF cell
    <3>2. CopyOK(c, CopyCell(c, s, k))
      BY <1>2, <2>3, <3>1, RetypedOK
    <3>3. CopyCell(c, s, k).verdict = "retype"
      BY <3>1 DEF CopyOK, RetypeTo
    <3> QED
      BY <3>2, <3>3 DEF Copied
  <2>11. CASE /\ cell.what \in {"scalar", "array"} /\ ~ Misfits(s.col, cell)
              /\ s.col.copier = "scalar" /\ s.col.type # s.col.made
    <3>1. CopyCell(c, s, k) = [s EXCEPT !.verdict = "assertion"]
      BY <2>7, <2>11
    <3>2. CopyOK(c, CopyCell(c, s, k))
      BY <1>2, <2>11, <3>1, AssertionOK
    <3>3. CopyCell(c, s, k).verdict = "assertion"
      BY <3>1 DEF CopyOK
    <3> QED
      BY <3>2, <3>3 DEF Copied
  <2>12. CASE /\ cell.what \in {"scalar", "array"} /\ ~ Misfits(s.col, cell)
              /\ ~ (s.col.copier = "scalar" /\ s.col.type # s.col.made)
    <3>1. CopyCell(c, s, k) = RowAdded(s, k, source, source)
      BY <2>7, <2>12
    <3>2. source \in 0 .. Len(history) /\ IsLast(history, c, source, k)
      BY <1>0, <2>2, <2>5, <2>12
    <3>3. /\ cell.type = columns[c].made
          /\ cell.what = "array" => columns[c].copier = "array"
      <4>1. s.col.copier = columns[c].copier /\ s.col.made = columns[c].made
            /\ CopierOK(s.col)
        BY DEF CopyOK
      <4>2. s.col.copier \in {"scalar", "array"}
        BY <1>0 DEF ColumnState
      <4> QED
        BY <2>12, <4>1, <4>2 DEF Misfits, CopierOK
    <3>4. RowOK(history, backFill, c, [event |-> k, value |-> source], Made(c))
      <4>1. IsPast(history, [event |-> k, value |-> source])
        BY <1>0, <3>2 DEF IsPast
      <4>2. TrueRow(history, backFill, c, [event |-> k, value |-> source])
        BY <1>0, <2>2, <2>4, <2>12 DEF TrueRow
      <4>3. TypedRow(history, c, [event |-> k, value |-> source], Made(c))
        BY <3>3 DEF TypedRow, Made
      <4> QED
        BY <4>1, <4>2, <4>3 DEF RowOK
    <3> HIDE DEF cell
    <3> QED
      BY <1>0, <1>2, <3>1, <3>2, <3>4, RowAddedOK
  <2> QED
    BY <2>3, <2>8, <2>9, <2>10, <2>11, <2>12 DEF Cell
<1> QED
  BY <1>1, <1>2

(* Every turn of the loop. *)
LEMMA RunOK ==
  ASSUME NEW c, NEW b, CopyContext(c, b), b.from <= b.to,
         IsLast(history, c, columns[c].last, b.from - 1)
  PROVE  CopyOK(c, Run(c, b)[b.to]) /\ Copied(c, b, b.to, Run(c, b)[b.to])
<1> DEFINE OK(n) == CopyOK(c, Run(c, b)[n]) /\ Copied(c, b, n, Run(c, b)[n])
           Bad == {n \in b.from .. b.to : ~ OK(n)}
<1>0. b.from \in Nat /\ b.from # 0 /\ b.to \in Nat
  BY DEF CopyContext, TypeOK
<1>1. OK(b.from)
  <2>1. b.from \in b.from .. b.to
    BY <1>0
  <2> QED
    BY <1>0, <2>1, StartOK, StartCopied, CellStep, RunSteps
<1>2. ASSUME NEW n \in b.from + 1 .. b.to, OK(n - 1) PROVE OK(n)
  <2>1. Run(c, b)[n] = CopyCell(c, Run(c, b)[n - 1], n)
    BY <1>0, RunSteps
  <2>2. n \in b.from .. b.to
    BY <1>0
  <2> QED
    BY <1>2, <2>1, <2>2, CellStep
<1> HIDE DEF OK
<1> SUFFICES ASSUME Bad # {} PROVE FALSE
  <2>1. b.to \in b.from .. b.to
    BY <1>0
  <2> QED
    BY <2>1 DEF OK
<1>3. PICK n \in Bad : \A m \in Bad : n <= m
  <2>1. Bad \subseteq Nat
    BY <1>0
  <2> HIDE DEF Bad
  <2> QED
    BY <2>1, HasLeast
<1>4. n \in b.from + 1 .. b.to /\ n - 1 \in b.from .. b.to /\ ~ (n <= n - 1)
  BY <1>0, <1>1
<1> QED
  BY <1>2, <1>3, <1>4

(* What copier->copy() leaves behind. *)
LEMMA CopyResult ==
  ASSUME NEW c, NEW b, CopyContext(c, b), b.from <= b.to + 1,
         b.from <= b.to => IsLast(history, c, columns[c].last, b.from - 1)
  PROVE  /\ CopyOK(c, Copy(c, b))
         /\ Copy(c, b).verdict = "copied" =>
              /\ Len(Copy(c, b).rows) = b.to + 1 - b.from
              /\ \A i \in DOMAIN Copy(c, b).rows :
                   Copy(c, b).rows[i].event = b.from + i - 1
         /\ b.from <= b.to => Copied(c, b, b.to, Copy(c, b))
         /\ b.from > b.to => Copy(c, b) = Start(c)
<1>0. b.from \in Nat /\ b.from # 0 /\ b.to \in Nat
  BY DEF CopyContext, TypeOK
<1>1. CASE b.from <= b.to
  <2>1. Copy(c, b) = Run(c, b)[b.to]
    BY <1>0, <1>1, CopyUnfolds
  <2> QED
    BY <1>0, <1>1, <2>1, RunOK DEF Copied
<1>2. CASE b.from > b.to
  <2>1. Copy(c, b) = Start(c)
    BY <1>0, <1>2, CopyUnfolds
  <2>2. Start(c).rows = <<>> /\ b.to + 1 - b.from = 0
    BY <1>0, <1>2 DEF Start
  <2> QED
    BY <1>0, <1>2, <2>1, <2>2, StartOK
<1> QED
  BY <1>0, <1>1, <1>2

-----------------------------------------------------------------------------
(* What slices() does with the copies *)

(* Fill, column by column. *)
FilledColumn(b, c) ==
  IF c \in HasCopier THEN Copy(c, b).col ELSE columns[c]

FilledRows(b, c) ==
  IF c \in HasCopier /\ columns[c].fresh /\ Copy(c, b).verdict = "copied"
  THEN Copy(c, b).rows ELSE root.data[c]

Stamps(b) == [i \in 1 .. b.to + 1 - b.from |-> b.from + i - 1]

FilledRoot(b) ==
  [root EXCEPT !.rows = Stamps(b),
               !.data = [c \in DOMAIN @ |-> FilledRows(b, c)]]

LEMMA FillIs ==
  ASSUME NEW b, Fill(b)
  PROVE  /\ root' = IF root.built THEN FilledRoot(b) ELSE root
         /\ columns' = [c \in DOMAIN columns |-> FilledColumn(b, c)]
         /\ changed' \subseteq changed \cup {0} \cup HasCopier
         /\ state' \in {"Run", "NeedRetype"}
         /\ state' = "Run" => \A c \in HasCopier : Copy(c, b).verdict # "retype"
         /\ fate' \in {fate, "assertion"}
         /\ fate' # "assertion" =>
              \A c \in HasCopier : Copy(c, b).verdict # "assertion"
<1> DEFINE result == [c \in HasCopier |-> Copy(c, b)]
           Done == {c \in HasCopier : result[c].verdict = "copied"}
           Into == {c \in Done : columns[c].fresh}
           Verdicts == {result[c].verdict : c \in HasCopier}
<1>1. \A c \in HasCopier : result[c] = Copy(c, b)
  OBVIOUS
<1>2. \A c : c \in Into <=>
        c \in HasCopier /\ columns[c].fresh /\ Copy(c, b).verdict = "copied"
  BY <1>1
<1>3. \A c \in HasCopier : Copy(c, b).verdict \in Verdicts
  BY <1>1
<1>4. /\ root' = IF ~ root.built THEN root ELSE
             [root EXCEPT
                !.rows = [i \in 1 .. b.to + 1 - b.from |-> b.from + i - 1],
                !.data = [c \in DOMAIN @ |->
                            IF c \in Into THEN result[c].rows ELSE @[c]]]
      /\ columns' = [c \in DOMAIN columns |->
                       IF c \in HasCopier THEN result[c].col ELSE columns[c]]
      /\ changed' = changed \cup {0} \cup Done
      /\ state' = StateAfter(Verdicts)
      /\ fate' = IF "assertion" \in Verdicts THEN "assertion" ELSE fate
  BY DEF Fill
<1>5. Into \subseteq HasCopier /\ Done \subseteq HasCopier
  OBVIOUS
<1> HIDE DEF result, Done, Into, Verdicts
<1>6. root' = IF root.built THEN FilledRoot(b) ELSE root
  BY <1>1, <1>2, <1>4, <1>5 DEF FilledRoot, FilledRows, Stamps
<1>7. columns' = [c \in DOMAIN columns |-> FilledColumn(b, c)]
  BY <1>1, <1>4 DEF FilledColumn
<1> QED
  BY <1>3, <1>4, <1>5, <1>6, <1>7 DEF StateAfter

-----------------------------------------------------------------------------
PvType ==
  /\ pv \in [open : BOOLEAN, shape : Seq(Kind), rows : Seq(Nat),
             data : Seq(Seq(Entry))]
  /\ DOMAIN pv.shape = DOMAIN pv.data

(* A step that touches neither the columns nor the structure. *)
LEMMA PlainStep ==
  ASSUME CopyInv,
         UNCHANGED <<backFill, history, state, columns, root, batch>>,
         early' \in BOOLEAN, early => early',
         joined' \in BOOLEAN, stateRun' \in BOOLEAN,
         changed' \subseteq 0 .. N,
         fate' \in {"ok", "assertion", "null", "exception"},
         fate = "ok",
         pc'["processor"] \in Slicing <=> pc["processor"] \in Slicing,
         PvType', PvOK'
  PROVE  CopyInv'
<1>1. TypeOK'
  BY DEF CopyInv, TypeOK, PvType
<1>2. BatchOK'
  BY DEF CopyInv, BatchOK
<1>3. Processed' = Processed
  BY DEF Processed
<1>4. LastOK'
  BY <1>3 DEF CopyInv, LastOK
<1>5. CopiersOK' /\ FreshOK' /\ RootOK'
  BY DEF CopyInv, CopiersOK, FreshOK, RootOK
<1>6. ConsistentOK'
  BY DEF CopyInv, ConsistentOK, Shape, TypeOK
<1> QED
  BY <1>1, <1>2, <1>4, <1>5, <1>6 DEF CopyInv

LEMMA PvKept ==
  ASSUME CopyInv, UNCHANGED <<backFill, history, pv>>
  PROVE  PvType' /\ PvOK'
BY DEF CopyInv, TypeOK, PvType, PvOK

LEMMA MovesOn ==
  ASSUME IInv, NEW t \in Thread, NEW here, NEW there,
         At(t, here), Goto(t, there), here \in Slicing <=> there \in Slicing
  PROVE  pc'["processor"] \in Slicing <=> pc["processor"] \in Slicing
BY DEF IInv, Types

LEMMA QuietSteps ==
  ASSUME CopyInv, IInv, NEW t \in Thread,
         \/ Wait(t) \/ Clear(t) \/ Insert \/ Remove
         \/ Enter(t) /\ state = "RetypeInProg"
         \/ Woken(t) /\ state # "Run"
  PROVE  CopyInv'
<1>1. /\ UNCHANGED <<backFill, history, state, columns, root, batch>>
      /\ UNCHANGED <<early, fate, pv>>
      /\ joined' \in BOOLEAN /\ stateRun' \in BOOLEAN
      /\ changed' \subseteq 0 .. N
      /\ fate = "ok"
  BY DEF Wait, Clear, Insert, Remove, Enter, Woken, CopyInv, TypeOK
<1>2. pc'["processor"] \in Slicing <=> pc["processor"] \in Slicing
  <2>1. \/ \E u \in Thread, here, there \in Slicing :
              At(u, here) /\ Goto(u, there)
        \/ \E u \in Thread, here \in {"clear", "insert", "built"},
              there \in {"built", "idle", "names", "removed"} :
              At(u, here) /\ Goto(u, there)
    BY DEF Wait, Clear, Insert, Remove, Enter, Woken, Slicing
  <2> QED
    BY <2>1, MovesOn DEF Slicing
<1>3. early \in BOOLEAN /\ fate \in {"ok", "assertion", "null", "exception"}
  BY DEF CopyInv, TypeOK
<1> QED
  BY <1>1, <1>2, <1>3, PlainStep, PvKept

LEMMA Closed ==
  /\ NotOpen \in [open : BOOLEAN, shape : Seq(Kind), rows : Seq(Nat),
                  data : Seq(Seq(Entry))]
  /\ NotOpen.shape = <<>> /\ NotOpen.data = <<>>
BY DEF NotOpen

(* pv->close(), wherever it is called. *)
LEMMA CloseStep ==
  ASSUME CopyInv, IInv, NEW t \in Thread, NEW here, NEW there,
         Close(t, here, there),
         t = "owner" \/ (here \in Slicing <=> there \in Slicing)
  PROVE  CopyInv'
<1>1. /\ UNCHANGED <<backFill, history, state, columns, root, batch>>
      /\ UNCHANGED <<early, fate, joined, stateRun, changed>>
      /\ pv' = NotOpen /\ fate = "ok"
  BY DEF Close
<1>2. PvType' /\ PvOK'
  BY <1>1, Closed DEF PvType, PvOK
<1>3. pc'["processor"] \in Slicing <=> pc["processor"] \in Slicing
  BY DEF Close, IInv, Types
<1>4. /\ early \in BOOLEAN /\ joined \in BOOLEAN /\ stateRun \in BOOLEAN
      /\ changed \subseteq 0 .. N
      /\ fate \in {"ok", "assertion", "null", "exception"}
  BY DEF CopyInv, TypeOK
<1> QED
  BY <1>1, <1>2, <1>3, <1>4, PlainStep

(* What Open and Post leave alone. *)
LEMMA ServeStep ==
  ASSUME CopyInv, IInv, NEW t \in Thread, Open(t) \/ Post(t),
         PvType', PvOK'
  PROVE  CopyInv'
<1>1. /\ UNCHANGED <<backFill, history, state, columns, root, batch>>
      /\ UNCHANGED <<early, joined, stateRun, changed>>
      /\ fate = "ok" /\ fate' \in {"ok", "null", "exception"}
  BY DEF Open, Post
<1>2. pc'["processor"] \in Slicing <=> pc["processor"] \in Slicing
  <2>1. CASE pc' = pc
    BY <2>1
  <2>2. CASE At(t, "open") /\ Goto(t, "reopened")
    BY <2>2, MovesOn DEF Slicing
  <2>3. CASE At(t, "post") /\ Goto(t, "clear")
    BY <2>3, MovesOn DEF Slicing
  <2> QED
    BY <2>1, <2>2, <2>3 DEF Open, Post
<1>3. /\ early \in BOOLEAN /\ joined \in BOOLEAN /\ stateRun \in BOOLEAN
      /\ changed \subseteq 0 .. N
  BY DEF CopyInv, TypeOK
<1> QED
  BY <1>1, <1>2, <1>3, PlainStep

LEMMA OpenStep ==
  ASSUME CopyInv, IInv, NEW t \in Thread, Open(t) PROVE CopyInv'
<1>1. UNCHANGED <<backFill, history, root>>
  BY DEF Open
<1>2. /\ root \in [built : BOOLEAN, shape : Seq(Kind), rows : Seq(Nat),
                   data : Seq(Seq(Entry))]
      /\ DOMAIN root.shape = DOMAIN root.data
  BY DEF CopyInv, TypeOK
<1>3. CASE pv' = [open |-> TRUE, shape |-> root.shape, rows |-> root.rows,
                  data |-> root.data]
  <2>1. pv'.shape = root.shape /\ pv'.data = root.data
    BY <1>3
  <2>2. PvType'
    BY <1>2, <1>3 DEF PvType
  <2>3. PvOK'
    BY <1>1, <2>1 DEF CopyInv, RootOK, PvOK
  <2> QED
    BY <2>2, <2>3, ServeStep
<1>4. CASE pv' = pv
  BY <1>1, <1>4, PvKept, ServeStep
<1> QED
  BY <1>3, <1>4 DEF Open

LEMMA PostStep ==
  ASSUME CopyInv, IInv, NEW t \in Thread, Post(t) PROVE CopyInv'
<1>1. UNCHANGED <<backFill, history, root>>
  BY DEF Post
<1>2. /\ root \in [built : BOOLEAN, shape : Seq(Kind), rows : Seq(Nat),
                   data : Seq(Seq(Entry))]
      /\ DOMAIN root.shape = DOMAIN root.data
      /\ PvType
  BY DEF CopyInv, TypeOK, PvType
<1>3. CASE /\ pv.shape = root.shape
           /\ pv' = [pv EXCEPT
             !.rows = IF 0 \in changed THEN root.rows ELSE @,
             !.data = [c \in DOMAIN @ |->
                         IF c \in changed THEN root.data[c] ELSE @[c]]]
  <2> DEFINE rows == IF 0 \in changed THEN root.rows ELSE pv.rows
             data == [c \in DOMAIN pv.data |->
                        IF c \in changed THEN root.data[c] ELSE pv.data[c]]
  <2>1. pv' = [pv EXCEPT !.rows = rows, !.data = data]
    BY <1>3
  <2>2. rows \in Seq(Nat)
    BY <1>2 DEF PvType
  <2>3. data \in Seq(Seq(Entry)) /\ DOMAIN data = DOMAIN pv.data
    <3>1. /\ DOMAIN pv.data = DOMAIN root.data
          /\ pv.data \in Seq(Seq(Entry)) /\ root.data \in Seq(Seq(Entry))
      BY <1>2, <1>3 DEF PvType
    <3>2. \A c \in DOMAIN pv.data :
            root.data[c] \in Seq(Entry) /\ pv.data[c] \in Seq(Entry)
      BY <3>1
    <3>3. DOMAIN pv.data = 1 .. Len(pv.data) /\ Len(pv.data) \in Nat
      BY <3>1
    <3> QED
      BY <3>2, <3>3
  <2>4. \A c \in DOMAIN data : data[c] = root.data[c] \/ data[c] = pv.data[c]
    OBVIOUS
  <2> HIDE DEF rows, data
  <2>5. pv'.shape = pv.shape /\ pv'.data = data /\ PvType'
    BY <1>2, <2>1, <2>2, <2>3 DEF PvType
  <2>6. PvOK'
    <3> SUFFICES ASSUME NEW c \in DOMAIN data, NEW i \in DOMAIN data[c]
                 PROVE  RowOK(history, backFill, c, data[c][i], pv.shape[c])
      BY <1>1, <2>5 DEF PvOK
    <3>1. c \in DOMAIN pv.data /\ c \in DOMAIN root.data
      BY <1>2, <1>3, <2>3 DEF PvType
    <3> QED
      BY <1>3, <2>4, <3>1 DEF CopyInv, RootOK, PvOK
  <2> QED
    BY <2>5, <2>6, ServeStep
<1>4. CASE pv' = pv
  BY <1>1, <1>4, PvKept, ServeStep
<1> QED
  BY <1>3, <1>4 DEF Post

-----------------------------------------------------------------------------
(* The copies that thread t makes of its batch. *)
LEMMA CopiesOK ==
  ASSUME CopyInv, fate = "ok", NEW t \in Thread, pc[t] \in Slicing,
         NEW c \in HasCopier
  PROVE  /\ CopyOK(c, Copy(c, batch[t]))
         /\ Copy(c, batch[t]).verdict = "copied" =>
              /\ Len(Copy(c, batch[t]).rows) = batch[t].to + 1 - batch[t].from
              /\ \A i \in DOMAIN Copy(c, batch[t]).rows :
                   Copy(c, batch[t]).rows[i].event = batch[t].from + i - 1
              /\ t = "processor" =>
                   IsLast(history, c, Copy(c, batch[t]).col.last, Len(history))
         /\ t = "owner" => Copy(c, batch[t]) = Start(c)
<1> DEFINE b == batch[t]
<1>0. c \in DOMAIN columns /\ TypeOK /\ CopiersOK /\ BatchOK /\ LastOK
  BY DEF CopyInv, HasCopier
<1>1. CASE t = "owner"
  <2>1. b.from = 1 /\ b.to = 0
    BY <1>0, <1>1 DEF BatchOK, NoEvents
  <2>2. CopyContext(c, b)
    BY <1>0, <2>1 DEF CopyContext, TypeOK
  <2> HIDE DEF b
  <2>3. /\ CopyOK(c, Copy(c, b))
        /\ Copy(c, b).verdict = "copied" =>
             /\ Len(Copy(c, b).rows) = b.to + 1 - b.from
             /\ \A i \in DOMAIN Copy(c, b).rows :
                  Copy(c, b).rows[i].event = b.from + i - 1
        /\ Copy(c, b) = Start(c)
    BY <2>1, <2>2, CopyResult
  <2> QED
    BY <1>1, <2>3 DEF b
<1>2. CASE t = "processor"
  <2>1. /\ b.from \in Nat \ {0} /\ b.to \in 0 .. Len(history)
        /\ b.from <= b.to + 1 /\ b.to = Len(history) /\ Len(history) \in Nat
    BY <1>0, <1>2 DEF BatchOK, TypeOK
  <2>2. CopyContext(c, b)
    BY <1>0, <2>1 DEF CopyContext
  <2>3. IsLast(history, c, columns[c].last, b.from - 1)
    BY <1>0, <1>2 DEF LastOK, Processed
  <2> HIDE DEF b
  <2>4. /\ CopyOK(c, Copy(c, b))
        /\ Copy(c, b).verdict = "copied" =>
             /\ Len(Copy(c, b).rows) = b.to + 1 - b.from
             /\ \A i \in DOMAIN Copy(c, b).rows :
                  Copy(c, b).rows[i].event = b.from + i - 1
        /\ b.from <= b.to => Copied(c, b, b.to, Copy(c, b))
        /\ b.from > b.to => Copy(c, b) = Start(c)
    BY <2>1, <2>2, <2>3, CopyResult
  <2>5. Copy(c, b).verdict = "copied" =>
          IsLast(history, c, Copy(c, b).col.last, Len(history))
    <3>1. CASE b.from <= b.to
      BY <2>1, <2>4, <3>1 DEF Copied
    <3>2. CASE b.from > b.to
      <4>1. b.from - 1 = Len(history) /\ Copy(c, b).col = columns[c]
        BY <2>1, <2>4, <3>2 DEF Start
      <4> QED
        BY <2>3, <4>1
    <3> QED
      BY <2>1, <3>1, <3>2
  <2> QED
    BY <1>2, <2>4, <2>5 DEF b
<1> QED
  BY <1>1, <1>2

(* A call of slices() copies. *)
Copies(t) ==
  /\ fate = "ok" /\ pc[t] \in Slicing
  /\ Fill(batch[t])
  /\ Goto(t, "post")
  /\ stateRun' \in BOOLEAN
  /\ UNCHANGED <<outside, pv, batch>>

LEMMA CopiesColumns ==
  ASSUME CopyInv, NEW t \in Thread, Copies(t)
  PROVE  /\ columns' \in Seq(ColumnState) /\ Len(columns') = Len(columns)
         /\ DOMAIN columns' = DOMAIN columns
         /\ \A c \in DOMAIN columns :
              /\ columns'[c].last <= Len(history)
              /\ CopierOK(columns'[c])
              /\ columns'[c].copier = columns[c].copier
              /\ columns'[c].made = columns[c].made
              /\ columns'[c].fresh = columns[c].fresh
<1> DEFINE b == batch[t]
<1>1. columns' = [c \in DOMAIN columns |-> FilledColumn(b, c)]
  BY FillIs DEF Copies
<1>2. ASSUME NEW c \in DOMAIN columns
      PROVE  /\ FilledColumn(b, c) \in ColumnState
             /\ FilledColumn(b, c).last <= Len(history)
             /\ CopierOK(FilledColumn(b, c))
             /\ FilledColumn(b, c).copier = columns[c].copier
             /\ FilledColumn(b, c).made = columns[c].made
             /\ FilledColumn(b, c).fresh = columns[c].fresh
  <2>1. CASE c \in HasCopier
    <3>1. CopyOK(c, Copy(c, b)) /\ FilledColumn(b, c) = Copy(c, b).col
      BY <2>1, CopiesOK DEF Copies, FilledColumn
    <3> QED
      BY <3>1 DEF CopyOK
  <2>2. CASE c \notin HasCopier
    BY <2>2 DEF FilledColumn, CopyInv, TypeOK, CopiersOK
  <2> QED
    BY <2>1, <2>2
<1>3. columns \in Seq(ColumnState)
  BY DEF CopyInv, TypeOK
<1> HIDE DEF b
<1>4. columns' \in Seq(ColumnState) /\ Len(columns') = Len(columns)
      /\ DOMAIN columns' = DOMAIN columns
  <2>1. DOMAIN columns = 1 .. Len(columns) /\ Len(columns) \in Nat
    BY <1>3
  <2> QED
    BY <1>1, <1>2, <2>1
<1> QED
  BY <1>1, <1>2, <1>4

LEMMA FilledRowsOK ==
  ASSUME CopyInv, NEW t \in Thread, Copies(t), root.built,
         NEW c \in DOMAIN root.data
  PROVE  /\ FilledRows(batch[t], c) \in Seq(Entry)
         /\ \A i \in DOMAIN FilledRows(batch[t], c) :
              RowOK(history, backFill, c, FilledRows(batch[t], c)[i],
                    root.shape[c])
<1> DEFINE b == batch[t]
<1>1. CASE c \in HasCopier /\ columns[c].fresh /\ Copy(c, b).verdict = "copied"
  <2>1. CopyOK(c, Copy(c, b))
    BY <1>1, CopiesOK DEF Copies
  <2>2. root.shape[c] = Made(c)
    BY <1>1 DEF CopyInv, FreshOK, Made, HasCopier
  <2>3. FilledRows(b, c) = Copy(c, b).rows
    BY <1>1 DEF FilledRows
  <2> QED
    BY <2>1, <2>2, <2>3 DEF CopyOK
<1>2. CASE ~ (/\ c \in HasCopier /\ columns[c].fresh
              /\ Copy(c, b).verdict = "copied")
  <2>1. FilledRows(b, c) = root.data[c]
    BY <1>2 DEF FilledRows
  <2>2. root.data[c] \in Seq(Entry)
    BY DEF CopyInv, TypeOK
  <2> QED
    BY <2>1, <2>2 DEF CopyInv, RootOK
<1> QED
  BY <1>1, <1>2

LEMMA CopiesRoot ==
  ASSUME CopyInv, NEW t \in Thread, Copies(t)
  PROVE  /\ root' \in [built : BOOLEAN, shape : Seq(Kind), rows : Seq(Nat),
                       data : Seq(Seq(Entry))]
         /\ root'.built = root.built /\ root'.shape = root.shape
         /\ DOMAIN root'.data = DOMAIN root.data
         /\ root.built => /\ root'.rows = Stamps(batch[t])
                          /\ \A c \in DOMAIN root.data :
                               root'.data[c] = FilledRows(batch[t], c)
         /\ RootOK'
<1> DEFINE b == batch[t]
<1>0. /\ root \in [built : BOOLEAN, shape : Seq(Kind), rows : Seq(Nat),
                   data : Seq(Seq(Entry))]
      /\ UNCHANGED <<backFill, history>>
      /\ Len(history) \in Nat
  BY DEF CopyInv, TypeOK, Copies
<1>1. root' = IF root.built THEN FilledRoot(b) ELSE root
  BY FillIs DEF Copies
<1>2. CASE ~ root.built
  BY <1>0, <1>1, <1>2 DEF CopyInv, RootOK
<1>3. CASE root.built
  <2> DEFINE data == [c \in DOMAIN root.data |-> FilledRows(b, c)]
  <2>1. root' = [root EXCEPT !.rows = Stamps(b), !.data = data]
    BY <1>1, <1>3 DEF FilledRoot
  <2>2. Stamps(b) \in Seq(Nat)
    <3>1. b.from \in Nat \ {0} /\ b.to \in Nat
      BY <1>0 DEF CopyInv, BatchOK, NoEvents
    <3>2. b.to + 1 - b.from \in Int
      BY <3>1
    <3>3. \A i \in 1 .. b.to + 1 - b.from : b.from + i - 1 \in Nat
      BY <3>1
    <3> HIDE DEF b
    <3>4. CASE b.to + 1 - b.from \in Nat
      <4> DEFINE n == b.to + 1 - b.from
      <4>1. n \in Nat /\ Stamps(b) = [i \in 1 .. n |-> b.from + i - 1]
        BY <3>4 DEF Stamps
      <4>2. \A i \in 1 .. n : b.from + i - 1 \in Nat
        BY <3>3
      <4> HIDE DEF n
      <4> QED
        BY <4>1, <4>2
    <3>5. CASE b.to + 1 - b.from \notin Nat
      <4>1. Stamps(b) = <<>>
        BY <3>2, <3>5 DEF Stamps
      <4> QED
        BY <4>1
    <3> QED
      BY <3>4, <3>5
  <2>3. data \in Seq(Seq(Entry)) /\ DOMAIN data = DOMAIN root.data
    <3>1. DOMAIN root.data = 1 .. Len(root.data) /\ Len(root.data) \in Nat
      BY <1>0
    <3>2. \A c \in DOMAIN root.data : FilledRows(b, c) \in Seq(Entry)
      BY <1>3, FilledRowsOK
    <3> HIDE DEF b
    <3> QED
      BY <3>1, <3>2
  <2>4. \A c \in DOMAIN root.data : data[c] = FilledRows(b, c)
    OBVIOUS
  <2> HIDE DEF data, b
  <2>5. /\ root' \in [built : BOOLEAN, shape : Seq(Kind), rows : Seq(Nat),
                       data : Seq(Seq(Entry))]
        /\ root'.built = root.built /\ root'.shape = root.shape
        /\ root'.data = data /\ root'.rows = Stamps(b)
    BY <1>0, <2>1, <2>2, <2>3
  <2>6. RootOK'
    <3> SUFFICES ASSUME NEW c \in DOMAIN root.data, NEW i \in DOMAIN data[c]
                 PROVE  RowOK(history, backFill, c, data[c][i], root.shape[c])
      BY <1>0, <2>3, <2>5 DEF RootOK
    <3>1. data[c] = FilledRows(batch[t], c)
      BY <2>4 DEF b
    <3> QED
      BY <1>3, <3>1, FilledRowsOK
  <2> QED
    BY <1>3, <2>3, <2>4, <2>5, <2>6 DEF b
<1> QED
  BY <1>2, <1>3

LEMMA CopiesLast ==
  ASSUME CopyInv, IInv, NEW t \in Thread, Copies(t)
  PROVE  LastOK'
<1> DEFINE b == batch[t]
<1>0. UNCHANGED <<history, batch>> /\ DOMAIN pc = Thread
      /\ pc' = [pc EXCEPT ![t] = "post"] /\ pc[t] \in Slicing
  BY DEF Copies, IInv, Types
<1>1. /\ columns' = [c \in DOMAIN columns |-> FilledColumn(b, c)]
      /\ fate = "ok"
      /\ fate' # "assertion" =>
           \A c \in HasCopier : Copy(c, b).verdict # "assertion"
  BY FillIs DEF Copies
<1> SUFFICES ASSUME fate' = "ok", NEW c \in DOMAIN columns
             PROVE  IsLast(history, c, FilledColumn(b, c).last, Processed')
  BY <1>0, <1>1 DEF LastOK
<1>2. CASE c \notin HasCopier
  <2>1. FilledColumn(b, c).last = 0
    BY <1>2 DEF FilledColumn, HasCopier, CopyInv, CopiersOK, CopierOK
  <2> QED
    BY <2>1 DEF IsLast
<1>3. CASE c \in HasCopier /\ t = "owner"
  <2>1. Copy(c, b) = Start(c)
    BY <1>0, <1>1, <1>3, CopiesOK
  <2>2. FilledColumn(b, c) = columns[c]
    BY <1>3, <2>1 DEF FilledColumn, Start
  <2>3. Processed' = Processed
    BY <1>0, <1>3 DEF Processed
  <2> QED
    BY <1>1, <2>2, <2>3 DEF CopyInv, LastOK
<1>4. CASE c \in HasCopier /\ t = "processor"
  <2>1. Processed' = Len(history)
    BY <1>0, <1>4 DEF Processed, Slicing
  <2>2. FilledColumn(b, c) = Copy(c, b).col /\ Copy(c, b).verdict # "assertion"
    BY <1>1, <1>4 DEF FilledColumn
  <2>3. CopyOK(c, Copy(c, b))
    BY <1>0, <1>1, <1>4, CopiesOK
  <2>4. CASE Copy(c, b).verdict = "copied"
    <3>1. IsLast(history, c, Copy(c, b).col.last, Len(history))
      BY <1>0, <1>1, <1>4, <2>4, CopiesOK
    <3> QED
      BY <2>1, <2>2, <3>1
  <2>5. CASE Copy(c, b).verdict = "retype"
    <3>1. FilledColumn(b, c).last = 0
      BY <2>2, <2>3, <2>5 DEF CopyOK
    <3> QED
      BY <3>1 DEF IsLast
  <2> QED
    BY <2>2, <2>3, <2>4, <2>5 DEF CopyOK
<1> QED
  BY <1>2, <1>3, <1>4

(* While the structure has the types of the columns, its copiers fit, and   *)
(* the time stamps are those of every column.                               *)
LEMMA CopiesConsistent ==
  ASSUME CopyInv, IInv, NEW t \in Thread, Copies(t),
         ~ early => state # "NeedRetype"
  PROVE  ConsistentOK'
<1> DEFINE b == batch[t]
<1> SUFFICES ASSUME ~ early, state' # "NeedRetype", root'.built
             PROVE  /\ root'.shape = Shape'
                    /\ \A c \in DOMAIN columns' : columns'[c].fresh =>
                         Events(root'.data[c]) = root'.rows
  BY DEF ConsistentOK, Copies
<1>0. /\ columns' = [c \in DOMAIN columns |-> FilledColumn(b, c)]
      /\ \A c \in HasCopier : Copy(c, b).verdict # "retype"
      /\ fate = "ok" /\ pc[t] \in Slicing
  BY FillIs DEF Copies
<1>1. /\ root.built /\ root'.shape = root.shape
      /\ root'.rows = Stamps(b)
      /\ \A c \in DOMAIN root.data : root'.data[c] = FilledRows(b, c)
  BY CopiesRoot
<1>2. /\ root.shape = Shape
      /\ DOMAIN root.data = DOMAIN columns
      /\ \A c \in DOMAIN columns : columns[c].fresh =>
           Events(root.data[c]) = root.rows
  <2>1. root.shape = Shape
        /\ \A c \in DOMAIN columns : columns[c].fresh =>
             Events(root.data[c]) = root.rows
    BY <1>1 DEF CopyInv, ConsistentOK
  <2> QED
    BY <2>1 DEF CopyInv, TypeOK, Shape
<1>3. ASSUME NEW c \in DOMAIN columns
      PROVE  /\ FilledColumn(b, c).type = columns[c].type
             /\ FilledColumn(b, c).array = columns[c].array
  <2>1. CASE c \in HasCopier
    <3>1. CopyOK(c, Copy(c, b))
      BY <1>0, <2>1, CopiesOK
    <3> QED
      BY <1>0, <2>1, <3>1 DEF CopyOK, FilledColumn
  <2>2. CASE c \notin HasCopier
    BY <2>2 DEF FilledColumn
  <2> QED
    BY <2>1, <2>2
<1>4. Shape' = Shape
  <2> HIDE DEF b
  <2>1. DOMAIN columns' = DOMAIN columns
        /\ \A c \in DOMAIN columns : columns'[c] = FilledColumn(b, c)
    BY <1>0
  <2> QED
    BY <1>3, <2>1 DEF Shape
<1>5. ASSUME NEW c \in DOMAIN columns, columns'[c].fresh
      PROVE  Events(root'.data[c]) = root'.rows
  <2>1. columns[c].fresh
    BY <1>5, CopiesColumns
  <2>2. c \in HasCopier
    BY <2>1 DEF CopyInv, CopiersOK, CopierOK, HasCopier
  <2>3. CopyOK(c, Copy(c, b)) /\ Copy(c, b).verdict # "retype"
    BY <1>0, <2>2, CopiesOK
  <2>4. Copy(c, b).verdict = "copied"
    <3>1. root.shape[c] = Made(c)
      BY <2>1 DEF CopyInv, FreshOK, Made
    <3>2. root.shape[c].type = columns[c].type
      BY <1>2 DEF Shape
    <3>3. columns[c].made = columns[c].type
      BY <3>1, <3>2 DEF Made
    <3> QED
      BY <2>3, <3>3 DEF CopyOK
  <2>5. root'.data[c] = Copy(c, b).rows
    BY <1>1, <1>2, <2>1, <2>2, <2>4 DEF FilledRows
  <2>6. /\ Len(Copy(c, b).rows) = b.to + 1 - b.from
        /\ \A i \in DOMAIN Copy(c, b).rows :
             Copy(c, b).rows[i].event = b.from + i - 1
        /\ Copy(c, b).rows \in Seq(Entry)
    BY <1>0, <2>2, <2>3, <2>4, CopiesOK DEF CopyOK
  <2>7. DOMAIN Copy(c, b).rows = 1 .. b.to + 1 - b.from
    BY <2>6
  <2> HIDE DEF b
  <2>8. Events(Copy(c, b).rows) = Stamps(b)
    BY <2>6, <2>7 DEF Events, Stamps
  <2> QED
    BY <1>1, <2>5, <2>8
<1> QED
  BY <1>1, <1>2, <1>4, <1>5, CopiesColumns

LEMMA CopiesStep ==
  ASSUME CopyInv, IInv, NEW t \in Thread, Copies(t),
         ~ early => state # "NeedRetype"
  PROVE  CopyInv'
<1>1. /\ UNCHANGED <<backFill, history, joined, early, pv, batch>>
      /\ fate = "ok" /\ stateRun' \in BOOLEAN
  BY DEF Copies
<1>2. /\ state' \in {"Run", "NeedRetype"} /\ fate' \in {"ok", "assertion"}
      /\ changed' \subseteq changed \cup {0} \cup HasCopier
  BY <1>1, FillIs DEF Copies
<1>3. TypeOK'
  <2>1. changed' \subseteq 0 .. N
    BY <1>2, ColumnOK, ReceiverAssumption DEF CopyInv, TypeOK, HasCopier, Column
  <2>2. /\ columns' \in Seq(ColumnState) /\ Len(columns') = Len(columns)
        /\ \A c \in DOMAIN columns' : columns'[c].last <= Len(history)
    BY CopiesColumns
  <2>3. /\ root' \in [built : BOOLEAN, shape : Seq(Kind), rows : Seq(Nat),
                      data : Seq(Seq(Entry))]
        /\ root'.built = root.built /\ root'.shape = root.shape
        /\ DOMAIN root'.data = DOMAIN root.data
    BY CopiesRoot
  <2>4. TypeOK
    BY DEF CopyInv
  <2> QED
    BY <1>1, <1>2, <2>1, <2>2, <2>3, <2>4 DEF TypeOK
<1>4. BatchOK'
  <2>1. pc'["processor"] \in Slicing => pc["processor"] \in Slicing
    BY DEF Copies, IInv, Types, Slicing
  <2> QED
    BY <1>1, <2>1 DEF CopyInv, BatchOK
<1>5. CopiersOK'
  BY CopiesColumns DEF CopiersOK
<1>6. FreshOK'
  <2> SUFFICES ASSUME NEW c \in DOMAIN columns, columns'[c].fresh
               PROVE  /\ root'.built
                      /\ root'.shape[c] =
                           [array |-> columns'[c].copier = "array",
                            type |-> columns'[c].made]
    BY CopiesColumns DEF FreshOK
  <2>1. /\ columns[c].fresh
        /\ columns'[c].copier = columns[c].copier
        /\ columns'[c].made = columns[c].made
    BY CopiesColumns
  <2>2. root'.built = root.built /\ root'.shape = root.shape
    BY CopiesRoot
  <2> QED
    BY <2>1, <2>2 DEF CopyInv, FreshOK
<1>7. PvOK'
  BY <1>1, PvKept
<1> QED
  BY <1>3, <1>4, <1>5, <1>6, <1>7, CopiesLast, CopiesRoot, CopiesConsistent
  DEF CopyInv

-----------------------------------------------------------------------------
(* slices() copies: in any of three places. *)
LEMMA CopyingSteps ==
  ASSUME CopyInv, IInv, NEW t \in Thread,
         \/ Enter(t) /\ state = "Run"
         \/ Woken(t) /\ state = "Run"
         \/ Reopened(t)
  PROVE  CopyInv'
<1>1. Copies(t)
  <2>1. stateRun \in BOOLEAN
    BY DEF CopyInv, TypeOK
  <2> QED
    BY <2>1 DEF Copies, Enter, Woken, Reopened, Slicing
<1>2. ~ early => state # "NeedRetype"
  <2>1. CASE state = "Run"
    BY <2>1
  <2>2. CASE Reopened(t)
    BY <2>2 DEF IInv, Protocol, OneRebuilds, Rebuilding, Reopened
  <2> QED
    BY <2>1, <2>2
<1> QED
  BY <1>1, <1>2, CopiesStep

(* The structure is rebuilt, and a copier made for each column. *)
LEMMA WithCopierOK ==
  ASSUME NEW col \in ColumnState, CopierOK(col)
  PROVE  /\ WithCopier(col) \in ColumnState
         /\ CopierOK(WithCopier(col))
         /\ WithCopier(col).last = col.last
         /\ WithCopier(col).array = col.array /\ WithCopier(col).type = col.type
         /\ WithCopier(col).fresh =>
              /\ WithCopier(col).made = col.type
              /\ WithCopier(col).copier = "array" <=> col.array
<1>1. CASE col.array
  BY <1>1 DEF WithCopier, ColumnState, CopierOK
<1>2. CASE ~ col.array /\ col.type \in Scalar
  BY <1>2 DEF WithCopier, ColumnState, CopierOK
<1>3. CASE ~ col.array /\ col.type \notin Scalar
  BY <1>3 DEF WithCopier, ColumnState, CopierOK
<1> QED
  BY <1>1, <1>2, <1>3

LEMMA RetypeKeeps ==
  ASSUME CopyInv, IInv, NEW t \in Thread, Retype(t) PROVE CopyInv'
<1>0. /\ TypeOK /\ CopiersOK /\ BatchOK /\ LastOK
      /\ UNCHANGED <<backFill, history, joined, early, stateRun>>
      /\ UNCHANGED <<pv, batch, fate>>
      /\ columns' = [c \in DOMAIN columns |-> WithCopier(columns[c])]
      /\ root' = [built |-> TRUE, shape |-> Shape, rows |-> <<>>,
                  data |-> [c \in DOMAIN columns |-> <<>>]]
      /\ changed' = {} /\ state' = "RetypeInProg" /\ fate = "ok"
  BY DEF CopyInv, Retype
<1>1. /\ columns \in Seq(ColumnState)
      /\ DOMAIN columns = 1 .. Len(columns) /\ Len(columns) \in Nat
  BY <1>0 DEF TypeOK
<1>2. ASSUME NEW c \in DOMAIN columns
      PROVE  /\ columns'[c] \in ColumnState /\ CopierOK(columns'[c])
             /\ columns'[c].last = columns[c].last
             /\ columns'[c].array = columns[c].array
             /\ columns'[c].type = columns[c].type
             /\ columns'[c].fresh =>
                  /\ columns'[c].made = columns[c].type
                  /\ columns'[c].copier = "array" <=> columns[c].array
  <2>1. columns[c] \in ColumnState /\ CopierOK(columns[c])
    BY <1>0, <1>1 DEF CopiersOK
  <2>2. columns'[c] = WithCopier(columns[c])
    BY <1>0
  <2> QED
    BY <2>1, <2>2, WithCopierOK
<1>3. /\ columns' \in Seq(ColumnState) /\ Len(columns') = Len(columns)
      /\ DOMAIN columns' = DOMAIN columns
  <2>1. \A c \in 1 .. Len(columns) : WithCopier(columns[c]) \in ColumnState
    BY <1>0, <1>1, <1>2
  <2> QED
    BY <1>0, <1>1, <2>1
<1>4. /\ Shape \in Seq(Kind) /\ Len(Shape) = Len(columns)
      /\ DOMAIN Shape = DOMAIN columns
  <2>1. \A c \in 1 .. Len(columns) :
          [array |-> columns[c].array, type |-> columns[c].type] \in Kind
    <3>1. \A c \in 1 .. Len(columns) : columns[c] \in ColumnState
      BY <1>1
    <3> QED
      BY <3>1 DEF Kind, ColumnState
  <2> QED
    BY <1>1, <2>1 DEF Shape
<1>5. /\ [c \in DOMAIN columns |-> <<>>] \in Seq(Seq(Entry))
      /\ DOMAIN [c \in DOMAIN columns |-> <<>>] = DOMAIN columns
  <2>1. <<>> \in Seq(Entry)
    OBVIOUS
  <2> QED
    BY <1>1, <2>1
<1>6. /\ root'.built /\ root'.shape = Shape /\ root'.rows = <<>>
      /\ root'.data = [c \in DOMAIN columns |-> <<>>]
      /\ root' \in [built : BOOLEAN, shape : Seq(Kind), rows : Seq(Nat),
                    data : Seq(Seq(Entry))]
  BY <1>0, <1>4, <1>5
<1>7. TypeOK'
  <2>1. \A c \in DOMAIN columns' : columns'[c].last <= Len(history)
    BY <1>0, <1>2, <1>3 DEF TypeOK
  <2> QED
    BY <1>0, <1>3, <1>4, <1>5, <1>6, <2>1 DEF TypeOK
<1>8. pc'["processor"] \in Slicing <=> pc["processor"] \in Slicing
  BY MovesOn DEF Retype, Slicing
<1>9. BatchOK'
  BY <1>0, <1>8 DEF BatchOK
<1>10. LastOK'
  <2>1. Processed' = Processed
    BY <1>0, <1>8 DEF Processed
  <2> QED
    BY <1>0, <1>2, <1>3, <2>1 DEF LastOK
<1>11. CopiersOK'
  BY <1>2, <1>3 DEF CopiersOK
<1>12. FreshOK'
  <2> SUFFICES ASSUME NEW c \in DOMAIN columns, columns'[c].fresh
               PROVE  Shape[c] = [array |-> columns'[c].copier = "array",
                                  type |-> columns'[c].made]
    BY <1>3, <1>6 DEF FreshOK
  <2>1. Shape[c] = [array |-> columns[c].array, type |-> columns[c].type]
    BY DEF Shape
  <2>2. columns[c].array \in BOOLEAN
    BY <1>0, ColumnOK DEF ColumnState
  <2>3. columns[c].array = (columns'[c].copier = "array")
    BY <1>2, <2>2
  <2> QED
    BY <1>2, <2>1, <2>3
<1>13. RootOK'
  <2>1. \A c \in DOMAIN root'.data : DOMAIN root'.data[c] = {}
    BY <1>6
  <2> QED
    BY <2>1 DEF RootOK
<1>14. PvOK'
  BY <1>0, PvKept
<1>15. ConsistentOK'
  <2>1. Shape' = Shape
    BY <1>2, <1>3 DEF Shape
  <2>2. \A c \in DOMAIN columns : Events(root'.data[c]) = <<>>
    BY <1>6 DEF Events
  <2> QED
    BY <1>3, <1>6, <2>1, <2>2 DEF ConsistentOK
<1> QED
  BY <1>7, <1>9, <1>10, <1>11, <1>12, <1>13, <1>14, <1>15 DEF CopyInv

(* names() starts afresh. *)
LEMMA NamesStep == ASSUME CopyInv, IInv, Names PROVE CopyInv'
<1>0. /\ TypeOK /\ BatchOK
      /\ UNCHANGED <<backFill, history, joined, early, stateRun>>
      /\ UNCHANGED <<pv, batch, fate>>
      /\ columns' = [c \in Column |-> Unknown] /\ root' = NoRoot
      /\ changed' = {} /\ state' = "NeedRetype" /\ fate = "ok"
  BY DEF CopyInv, Names
<1>1. Unknown \in ColumnState /\ Unknown.last = 0 /\ CopierOK(Unknown)
      /\ ~ Unknown.fresh
  BY ReceiverAssumption DEF Unknown, ColumnState, CopierOK
<1>2. /\ columns' \in Seq(ColumnState) /\ Len(columns') = N
      /\ \A c \in DOMAIN columns' : columns'[c] = Unknown
  BY <1>0, <1>1, ReceiverAssumption DEF Column
<1>3. /\ root' \in [built : BOOLEAN, shape : Seq(Kind), rows : Seq(Nat),
                    data : Seq(Seq(Entry))]
      /\ ~ root'.built /\ root'.shape = <<>> /\ root'.data = <<>>
  BY <1>0 DEF NoRoot
<1>4. TypeOK'
  <2>1. Len(history) \in Nat
    BY <1>0 DEF TypeOK
  <2>2. \A c \in DOMAIN columns' : columns'[c].last <= Len(history)
    BY <1>1, <1>2, <2>1
  <2> QED
    BY <1>0, <1>2, <1>3, <2>2 DEF TypeOK
<1>5. BatchOK'
  <2>1. pc'["processor"] \in Slicing <=> pc["processor"] \in Slicing
    BY MovesOn DEF Names, Slicing
  <2> QED
    BY <1>0, <2>1 DEF BatchOK
<1>6. LastOK' /\ CopiersOK' /\ FreshOK'
  BY <1>1, <1>2 DEF LastOK, IsLast, CopiersOK, FreshOK
<1>7. RootOK'
  BY <1>3 DEF RootOK
<1>8. PvOK'
  BY <1>0, PvKept
<1>9. ConsistentOK'
  BY <1>0 DEF ConsistentOK
<1> QED
  BY <1>4, <1>5, <1>6, <1>7, <1>8, <1>9 DEF CopyInv

-----------------------------------------------------------------------------
(* More events come: what was true of the ones before stays true. *)
Extends(h, later) ==
  /\ Len(h) \in Nat /\ Len(later) \in Nat /\ Len(h) <= Len(later)
  /\ \A k \in 1 .. Len(h) : later[k] = h[k]

LEMMA RowKept ==
  ASSUME NEW h, NEW later, Extends(h, later),
         NEW fill, NEW c, NEW row, NEW kind,
         RowOK(h, fill, c, row, kind)
  PROVE  RowOK(later, fill, c, row, kind)
<1>1. IsPast(h, row) /\ TrueRow(h, fill, c, row) /\ TypedRow(h, c, row, kind)
  BY DEF RowOK
<1>2. IsPast(later, row)
  BY <1>1 DEF IsPast, Extends
<1>3. row.value # 0 => later[row.value] = h[row.value]
  BY <1>1 DEF IsPast, Extends
<1>4. \A k \in row.value + 1 .. row.event : later[k] = h[k]
  BY <1>1 DEF IsPast, Extends
<1>5. TrueRow(later, fill, c, row)
  BY <1>1, <1>3, <1>4 DEF TrueRow
<1>6. TypedRow(later, c, row, kind)
  BY <1>1, <1>3 DEF TypedRow
<1> QED
  BY <1>2, <1>5, <1>6 DEF RowOK

LEMMA LastKept ==
  ASSUME NEW h, NEW later, Extends(h, later), NEW c, NEW last \in Nat,
         IsLast(h, c, last, Len(h))
  PROVE  IsLast(later, c, last, Len(h))
<1> SUFFICES ASSUME last # 0 PROVE IsLast(later, c, last, Len(h))
  BY DEF IsLast
<1>1. last \in 1 .. Len(h) /\ \A k \in last + 1 .. Len(h) : later[k] = h[k]
  BY DEF IsLast, Extends
<1> QED
  BY <1>1 DEF IsLast, Extends

LEMMA DeliverKeeps == ASSUME CopyInv, IInv, Deliver PROVE CopyInv'
<1>0. /\ TypeOK /\ BatchOK /\ LastOK
      /\ UNCHANGED <<backFill, joined, state, stateRun, columns, root, changed,
                     pv, fate>>
      /\ fate = "ok" /\ pc["processor"] = "idle"
      /\ DOMAIN pc = Thread /\ DOMAIN batch = Thread
      /\ pc' = [pc EXCEPT !["processor"] = "enter"]
      /\ early' = (early \/ pc["owner"] = "names")
  BY DEF CopyInv, Deliver, IInv, Types
<1>1. PICK n \in 1 .. MaxRows :
        /\ \E events \in [1 .. n -> Event] : history' = history \o events
        /\ batch' = [batch EXCEPT !["processor"] =
                       [from |-> Len(history) + 1, to |-> Len(history) + n]]
  BY DEF Deliver
<1>12. PICK events \in [1 .. n -> Event] : history' = history \o events
  BY <1>1
<1>2. /\ n \in Nat /\ n # 0 /\ history \in Seq([Column -> Cell])
      /\ Len(history) \in Nat
  BY <1>0, ReceiverAssumption DEF TypeOK
<1>3. events \in Seq([Column -> Cell]) /\ Len(events) = n
  <2>1. \A i \in 1 .. n : events[i] \in [Column -> Cell]
    BY DEF Event
  <2>2. events = [i \in 1 .. n |-> events[i]]
    OBVIOUS
  <2> QED
    BY <1>2, <2>1, <2>2
<1>4. /\ history' \in Seq([Column -> Cell]) /\ Len(history') = Len(history) + n
      /\ \A k \in 1 .. Len(history) : history'[k] = history[k]
  <2> DEFINE Rows == [Column -> Cell]
  <2> HIDE DEF Rows
  <2>1. history \in Seq(Rows) /\ events \in Seq(Rows)
    BY <1>2, <1>3 DEF Rows
  <2>2. /\ history \o events \in Seq(Rows)
        /\ Len(history \o events) = Len(history) + Len(events)
        /\ \A k \in 1 .. Len(history) : (history \o events)[k] = history[k]
    BY <2>1
  <2> QED
    BY <1>12, <1>3, <2>2 DEF Rows
<1>5. Extends(history, history')
  BY <1>2, <1>4 DEF Extends
<1>6. TypeOK'
  <2>1. \A c \in DOMAIN columns : columns[c].last <= Len(history')
    <3>1. \A c \in DOMAIN columns : columns[c].last \in Nat
      BY <1>0, ColumnOK DEF ColumnState
    <3> QED
      BY <1>0, <1>2, <1>4, <3>1 DEF TypeOK
  <2>2. early' \in BOOLEAN
    BY <1>0 DEF TypeOK
  <2> QED
    BY <1>0, <1>4, <2>1, <2>2 DEF TypeOK
<1>7. BatchOK'
  BY <1>0, <1>1, <1>2, <1>4 DEF BatchOK
<1>8. LastOK'
  <2>1. Processed = Len(history) /\ Processed' = Len(history)
    BY <1>0, <1>1, <1>2 DEF Processed, Slicing
  <2> SUFFICES ASSUME NEW c \in DOMAIN columns
               PROVE  IsLast(history', c, columns[c].last, Len(history))
    BY <1>0, <2>1 DEF LastOK
  <2>2. columns[c].last \in Nat
    BY <1>0, ColumnOK DEF ColumnState
  <2>3. IsLast(history, c, columns[c].last, Len(history))
    BY <1>0, <2>1 DEF LastOK
  <2> QED
    BY <1>5, <2>2, <2>3, LastKept
<1>9. CopiersOK' /\ FreshOK' /\ ConsistentOK'
  <2>1. ~ early' => ~ early
    BY <1>0
  <2> QED
    BY <1>0, <2>1 DEF CopyInv, CopiersOK, FreshOK, ConsistentOK, Shape
<1>10. RootOK'
  <2> SUFFICES ASSUME NEW c \in DOMAIN root.data, NEW i \in DOMAIN root.data[c]
               PROVE  RowOK(history', backFill, c, root.data[c][i], root.shape[c])
    BY <1>0 DEF RootOK
  <2>1. RowOK(history, backFill, c, root.data[c][i], root.shape[c])
    BY DEF CopyInv, RootOK
  <2> QED
    BY <1>5, <2>1, RowKept
<1>11. PvOK'
  <2> SUFFICES ASSUME NEW c \in DOMAIN pv.data, NEW i \in DOMAIN pv.data[c]
               PROVE  RowOK(history', backFill, c, pv.data[c][i], pv.shape[c])
    BY <1>0 DEF PvOK
  <2>1. RowOK(history, backFill, c, pv.data[c][i], pv.shape[c])
    BY DEF CopyInv, PvOK
  <2> QED
    BY <1>5, <2>1, RowKept
<1> QED
  BY <1>6, <1>7, <1>8, <1>9, <1>10, <1>11 DEF CopyInv

-----------------------------------------------------------------------------
LEMMA InitCopyInv == Init => CopyInv
<1> SUFFICES ASSUME Init PROVE CopyInv
  OBVIOUS
<1>1. /\ backFill \in BOOLEAN /\ ~ stateRun /\ ~ joined /\ ~ early
      /\ history = <<>> /\ columns = <<>> /\ changed = {} /\ fate = "ok"
      /\ state = "NeedRetype" /\ root = NoRoot /\ pv = NotOpen
      /\ pc["processor"] = "idle"
      /\ batch["owner"] = NoEvents /\ batch["processor"] = NoEvents
      /\ stateRun = FALSE /\ joined = FALSE /\ early = FALSE
  BY DEF Init
<1>2. /\ root \in [built : BOOLEAN, shape : Seq(Kind), rows : Seq(Nat),
                   data : Seq(Seq(Entry))]
      /\ ~ root.built /\ root.shape = <<>> /\ root.data = <<>>
  BY <1>1 DEF NoRoot
<1>3. /\ pv \in [open : BOOLEAN, shape : Seq(Kind), rows : Seq(Nat),
                 data : Seq(Seq(Entry))]
      /\ pv.shape = <<>> /\ pv.data = <<>>
  BY <1>1 DEF NotOpen
<1>4. TypeOK
  <2>1. /\ history \in Seq([Column -> Cell]) /\ columns \in Seq(ColumnState)
        /\ Len(columns) = 0 /\ DOMAIN columns = {}
    BY <1>1
  <2> QED
    BY <1>1, <1>2, <1>3, <2>1 DEF TypeOK
<1>5. BatchOK
  BY <1>1 DEF BatchOK, NoEvents, Slicing
<1>6. LastOK /\ CopiersOK /\ FreshOK
  BY <1>1 DEF LastOK, CopiersOK, FreshOK
<1>7. RootOK /\ PvOK /\ ConsistentOK
  BY <1>1, <1>2, <1>3 DEF RootOK, PvOK, ConsistentOK
<1> QED
  BY <1>4, <1>5, <1>6, <1>7 DEF CopyInv

LEMMA CopyInvSlices ==
  ASSUME CopyInv, IInv, NEW t \in Thread, Slices(t) PROVE CopyInv'
<1>1. CASE Retype(t)
  BY <1>1, RetypeKeeps
<1>2. CASE Enter(t)
  BY <1>2, CopyingSteps, QuietSteps DEF Enter
<1>3. CASE Close(t, "reclose", "open")
  BY <1>3, CloseStep DEF Slicing
<1>4. CASE Open(t)
  BY <1>4, OpenStep
<1>5. CASE Reopened(t)
  BY <1>5, CopyingSteps
<1>6. CASE Wait(t) \/ Clear(t)
  BY <1>6, QuietSteps
<1>7. CASE Woken(t)
  BY <1>7, CopyingSteps, QuietSteps
<1>8. CASE Post(t)
  BY <1>8, PostStep
<1> QED
  BY <1>1, <1>2, <1>3, <1>4, <1>5, <1>6, <1>7, <1>8 DEF Slices

LEMMA CopyInvNext == CopyInv /\ IInv /\ [Next]_vars => CopyInv'
<1> SUFFICES ASSUME CopyInv, IInv, [Next]_vars PROVE CopyInv'
  OBVIOUS
<1>1. CASE Insert \/ Remove
  BY <1>1, QuietSteps
<1>2. CASE Names
  BY <1>2, NamesStep
<1>3. CASE \/ Close("owner", "namesClose", "enter")
           \/ Close("owner", "removed", "closed")
  BY <1>3, CloseStep
<1>4. CASE Deliver
  BY <1>4, DeliverKeeps
<1>5. CASE Slices("owner") \/ Slices("processor")
  BY <1>5, CopyInvSlices
<1>6. CASE UNCHANGED vars
  BY <1>6
  DEF CopyInv, TypeOK, BatchOK, LastOK, Processed, CopiersOK, FreshOK, RootOK,
      PvOK, ConsistentOK, Shape
<1> QED
  BY <1>1, <1>2, <1>3, <1>4, <1>5, <1>6 DEF Next, Construct

LEMMA CopyInvSuffices ==
  CopyInv => TypeOK /\ RowsAreTrue /\ TypedRows /\ RunIsConsistent
<1> SUFFICES ASSUME CopyInv
             PROVE  TypeOK /\ RowsAreTrue /\ TypedRows /\ RunIsConsistent
  OBVIOUS
<1>1. TypeOK
  BY DEF CopyInv
<1>2. RowsAreTrue
  BY DEF CopyInv, RootOK, RowOK, TrueRow, RowsAreTrue
<1>3. TypedRows
  BY DEF CopyInv, PvOK, RowOK, TypedRow, TypedRows
<1>4. RunIsConsistent
  BY DEF CopyInv, ConsistentOK, Events, RunIsConsistent
<1> QED
  BY <1>1, <1>2, <1>3, <1>4

(* Both invariants together: that of the rebuilds and that of the copying.  *)
THEOREM CopyInvariant == Spec => [](IInv /\ CopyInv)
<1>1. Init => IInv /\ CopyInv
  BY Initially, InitCopyInv
<1>2. IInv /\ CopyInv /\ [Next]_vars => (IInv /\ CopyInv)'
  BY NextStep, CopyInvNext
<1> QED
  BY <1>1, <1>2, PTL DEF Spec

(* Every variable of the receiver stays in its range: it has no columns or  *)
(* one for each PV, what is served has a column of rows for each column of  *)
(* the structure, and no column remembers an event that has not been.       *)
THEOREM TypeCorrect == Spec => []TypeOK
BY CopyInvariant, CopyInvSuffices, PTL

(* copy(): whatever events come, in whatever batches, with or without back  *)
(* fill, and whatever rebuilds come in between, a row holds the value of    *)
(* its own event or the last one before it that still stands.               *)
THEOREM ColumnsTellTheTruth == Spec => []RowsAreTrue
BY CopyInvariant, CopyInvSuffices, PTL

(* slices() and the rebuild: whatever types a PV changes to and fro, what   *)
(* is posted to the clients is of the type that the served structure has.   *)
THEOREM ClientsSeeTypedRows == Spec => []TypedRows
BY CopyInvariant, CopyInvSuffices, PTL

(* slices(): a receiver that need not be rebuilt has the structure of its   *)
(* columns, and in all that it copies a row for each time stamp.            *)
THEOREM StructureMatchesColumns == Spec => []RunIsConsistent
BY CopyInvariant, CopyInvSuffices, PTL
=============================================================================
