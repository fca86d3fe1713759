----------------------------- MODULE PVAReceiver -----------------------------
(***************************************************************************)
(* The PVAReceiver of a table (receiver_pva.cpp): it copies the events the  *)
(* Collector hands to slices() into one column per PV, serves them through  *)
(* a SharedPV, and rebuilds the served structure when a PV's type changes.  *)
(*                                                                         *)
(* Two threads call it: the one that constructs and closes it (the handler  *)
(* of the Coordinator), and the processor of the Collector, as soon as      *)
(* add_receiver has put it into the set of receivers.  pc[t] is where       *)
(* thread t is.  A step is one critical section of PVAReceiver::mutex, or   *)
(* one call on the SharedPV, which is made with the mutex released.         *)
(*                                                                         *)
(* Events are numbered; history keeps them, a batch is a range of them, and *)
(* a value is the number of the event it came with (0: no value).  The      *)
(* names of the PVs and the labels are left out.                            *)
(***************************************************************************)
EXTENDS Naturals, Sequences

CONSTANTS
  N,          \* the number of PVs
  Type,       \* element types
  Double,     \* the type assumed of every PV at first
  Scalar,     \* the types of scalars for which there is a copier
  Cells,      \* [1 .. N -> the cells that an event may hold of a PV]
  MaxEvents,  \* bound: events over all batches
  MaxRows     \* bound: events in a batch

Column == 1 .. N

(* A cell is empty, the marker of a disconnection, or a value of some type. *)
Cell == [what : {"none", "disc", "scalar", "array"}, type : Type]

ASSUME ReceiverAssumption ==
  /\ N \in Nat
  /\ Double \in Scalar /\ Scalar \subseteq Type
  /\ Cells \in [Column -> SUBSET Cell]
  /\ MaxEvents \in Nat /\ MaxRows \in Nat

Thread == {"owner", "processor"}

VARIABLES
  backFill,   \* bsasBackFill
  history,    \* all events so far
  (* under PVAReceiver::mutex *)
  state, stateRun,
  columns,    \* what is known of each PV, and its copier
  root,       \* the structure and what it holds
  changed,    \* fields to post: columns, and 0 for the two time columns
  (* outside *)
  pv,         \* the SharedPV and what its clients see
  joined,     \* the Collector has it in its set of receivers
  early,      \* the Collector delivered events before names() had run
  pc,         \* [Thread -> where it is]
  batch,      \* [Thread -> the argument of slices()]
  fate        \* "ok", or what the program died of

fields == <<columns, root, changed>>
outside == <<backFill, history, joined, early>>
vars == <<outside, state, stateRun, fields, pv, pc, batch, fate>>

(* A column before its copier is made.                                      *)
Unknown == [array |-> FALSE, type |-> Double, last |-> 0,
            copier |-> "none", made |-> Double, fresh |-> FALSE]

NoRoot == [built |-> FALSE, shape |-> <<>>, rows |-> <<>>, data |-> <<>>]
NotOpen == [open |-> FALSE, shape |-> <<>>, rows |-> <<>>, data |-> <<>>]

NoEvents == [from |-> 1, to |-> 0]

Init ==
  /\ backFill \in BOOLEAN
  /\ history = <<>>
  /\ state = "NeedRetype" /\ stateRun = FALSE
  /\ columns = <<>> /\ root = NoRoot /\ changed = {}
  /\ pv = NotOpen
  /\ joined = FALSE /\ early = FALSE
  /\ pc = [t \in Thread |-> IF t = "owner" THEN "insert" ELSE "idle"]
  /\ batch = [t \in Thread |-> NoEvents]
  /\ fate = "ok"

At(t, here) == fate = "ok" /\ pc[t] = here
Goto(t, there) == pc' = [pc EXCEPT ![t] = there]

-----------------------------------------------------------------------------
(* The copiers *)

(* A seeded fault: the size of a value is not looked at.                    *)
MisfitsInType(col, cell) == cell.type # col.type

(* When a value does not fit the column. *)
Misfits(col, cell) ==
  \/ cell.type # col.type
  \/ col.copier = "scalar" /\ cell.what = "array"

(* What the column is to become: a copier of arrays sets its own type.      *)
Retyped(col, cell) ==
  IF col.copier = "scalar"
  THEN [col EXCEPT !.type = cell.type, !.array = cell.what = "array", !.last = 0]
  ELSE [col EXCEPT !.type = col.made, !.last = 0]

(* A seeded fault: an empty cell does not clear the last value.             *)
SourceAlwaysFilled(c, col, k) ==
  IF history[k][c].what \in {"none", "disc"} /\ backFill /\ col.last # 0
  THEN col.last ELSE k

(* The event a row is filled from: its own, or with back fill an older one. *)
Source(c, col, k) ==
  IF history[k][c].what = "none" /\ backFill /\ col.last # 0 THEN col.last ELSE k

(* One turn of the loop over the events: the row for event k is appended,   *)
(* unless the type changes or the assertion (line 88) fails.                *)
CopyCell(c, copy, k) ==
  LET source == Source(c, copy.col, k)
      cell == history[source][c]
      Row(value, last) ==
        [copy EXCEPT !.rows = Append(@, [event |-> k, value |-> value]),
                     !.col.last = last]
  IN CASE copy.verdict # "copied" -> copy
       [] copy.verdict = "copied" /\ cell.what = "none" -> Row(0, 0)
       [] copy.verdict = "copied" /\ cell.what = "disc" -> Row(0, source)
       [] copy.verdict = "copied" /\ cell.what \in {"scalar", "array"} ->
            IF Misfits(copy.col, cell)
            THEN [copy EXCEPT !.col = Retyped(copy.col, cell), !.verdict = "retype"]
            ELSE IF copy.col.copier = "scalar" /\ copy.col.type # copy.col.made
                 THEN [copy EXCEPT !.verdict = "assertion"]
                 ELSE Row(source, source)

(* copier->copy(): what becomes of column c. *)
Copy(c, b) ==
  LET start == [col |-> columns[c], rows |-> <<>>, verdict |-> "copied"]
      copy[k \in b.from .. b.to] ==
        CopyCell(c, IF k = b.from THEN start ELSE copy[k - 1], k)
  IN IF b.from > b.to THEN start ELSE copy[b.to]

HasCopier == {c \in DOMAIN columns : columns[c].copier # "none"}

(* A seeded fault: the new type is noted, but no rebuild asked for.         *)
StateKept(verdicts) == "Run"

(* receiver.state after the copying *)
StateAfter(verdicts) == IF "retype" \in verdicts THEN "NeedRetype" ELSE "Run"

(* The part of slices() from the time columns to the post.  A copier that   *)
(* was not made for this root writes into the one it was made for.          *)
Fill(b) ==
  LET result == [c \in HasCopier |-> Copy(c, b)]
      Done == {c \in HasCopier : result[c].verdict = "copied"}
      Into == {c \in Done : columns[c].fresh}
      Verdicts == {result[c].verdict : c \in HasCopier}
  IN /\ root' = IF ~ root.built THEN root ELSE
          [root EXCEPT
             !.rows = [i \in 1 .. b.to + 1 - b.from |-> b.from + i - 1],
             !.data = [c \in DOMAIN @ |-> IF c \in Into THEN result[c].rows ELSE @[c]]]
     /\ columns' =
          [c \in DOMAIN columns |-> IF c \in HasCopier THEN result[c].col ELSE columns[c]]
     /\ changed' = changed \cup {0} \cup Done
     /\ state' = StateAfter(Verdicts)
     /\ fate' = IF "assertion" \in Verdicts THEN "assertion" ELSE fate

-----------------------------------------------------------------------------
(* slices(), by either thread *)

(* The copiers for the new root: there is none for some types of scalars,   *)
(* and then the column keeps the one it has.                                *)
WithCopier(col) ==
  CASE col.array ->
         [col EXCEPT !.copier = "array", !.made = col.type, !.fresh = TRUE]
    [] ~ col.array /\ col.type \in Scalar ->
         [col EXCEPT !.copier = "scalar", !.made = col.type, !.fresh = TRUE]
    [] OTHER -> [col EXCEPT !.fresh = FALSE]

Shape == [c \in DOMAIN columns |-> [array |-> columns[c].array, type |-> columns[c].type]]

Retype(t) ==
  /\ At(t, "enter")
  /\ state = "NeedRetype"
  /\ state' = "RetypeInProg"
  /\ root' = [built |-> TRUE, shape |-> Shape, rows |-> <<>>,
              data |-> [c \in DOMAIN columns |-> <<>>]]
  /\ columns' = [c \in DOMAIN columns |-> WithCopier(columns[c])]
  /\ changed' = {}
  /\ Goto(t, "reclose")
  /\ UNCHANGED <<outside, stateRun, pv, batch, fate>>

Enter(t) ==
  /\ At(t, "enter")
  /\ state # "NeedRetype"
  /\ \/ /\ state = "Run"
        /\ Fill(batch[t])
        /\ Goto(t, "post")
     \/ /\ state = "RetypeInProg"
        /\ Goto(t, "wait")
        /\ UNCHANGED <<state, fields, fate>>
  /\ UNCHANGED <<outside, stateRun, pv, batch>>

(* pv->close(); the same in names() and in close(). *)
Close(t, here, there) ==
  /\ At(t, here)
  /\ pv' = NotOpen
  /\ Goto(t, there)
  /\ UNCHANGED <<outside, state, stateRun, fields, batch, fate>>

(* pv->open of root and changed: not without a root, and not twice. *)
Open(t) ==
  /\ At(t, "open")
  /\ \/ /\ root.built /\ ~ pv.open
        /\ pv' = [open |-> TRUE, shape |-> root.shape, rows |-> root.rows,
                  data |-> root.data]
        /\ Goto(t, "reopened")
        /\ UNCHANGED fate
     \/ /\ ~ root.built \/ pv.open
        /\ fate' = IF root.built THEN "exception" ELSE "null"
        /\ UNCHANGED <<pv, pc>>
  /\ UNCHANGED <<outside, state, stateRun, fields, batch>>

(* A seeded fault: whoever waits for the rebuild is not told.               *)
ReopenedSilently(t) ==
  /\ At(t, "reopened")
  /\ Fill(batch[t])
  /\ Goto(t, "post")
  /\ UNCHANGED <<outside, stateRun, pv, batch>>

(* state = Run; stateRun.signal(); and on to the copying. *)
Reopened(t) ==
  /\ At(t, "reopened")
  /\ stateRun' = TRUE
  /\ Fill(batch[t])
  /\ Goto(t, "post")
  /\ UNCHANGED <<outside, pv, batch>>

(* stateRun.wait() *)
Wait(t) ==
  /\ At(t, "wait")
  /\ stateRun
  /\ stateRun' = FALSE
  /\ Goto(t, "woken")
  /\ UNCHANGED <<outside, state, fields, pv, batch, fate>>

(* while(state!=Run) *)
Woken(t) ==
  /\ At(t, "woken")
  /\ \/ /\ state = "Run"
        /\ Fill(batch[t])
        /\ Goto(t, "post")
     \/ /\ state # "Run"
        /\ Goto(t, "wait")
        /\ UNCHANGED <<state, fields, fate>>
  /\ UNCHANGED <<outside, stateRun, pv, batch>>

(* pv->post of root and changed: clients see the fields that changed.  The   *)
(* SharedPV has to be open, for a structure of this shape.                  *)
Post(t) ==
  /\ At(t, "post")
  /\ \/ /\ root.built /\ pv.open /\ pv.shape = root.shape
        /\ pv' = [pv EXCEPT
             !.rows = IF 0 \in changed THEN root.rows ELSE @,
             !.data = [c \in DOMAIN @ |-> IF c \in changed THEN root.data[c] ELSE @[c]]]
        /\ Goto(t, "clear")
        /\ UNCHANGED fate
     \/ /\ ~ (root.built /\ pv.open /\ pv.shape = root.shape)
        /\ fate' = IF root.built THEN "exception" ELSE "null"
        /\ UNCHANGED <<pv, pc>>
  /\ UNCHANGED <<outside, state, stateRun, fields, batch>>

(* changed.clear(), and slices() returns. *)
Clear(t) ==
  /\ At(t, "clear")
  /\ changed' = {}
  /\ Goto(t, IF t = "owner" THEN "built" ELSE "idle")
  /\ UNCHANGED <<outside, state, stateRun, columns, root, pv, batch, fate>>

Slices(t) ==
  \/ Retype(t) \/ Enter(t) \/ Close(t, "reclose", "open") \/ Open(t) \/ Reopened(t)
  \/ Wait(t) \/ Woken(t) \/ Post(t) \/ Clear(t)

-----------------------------------------------------------------------------
(* The owner's constructor and close(), and the processor *)

(* Collector::add_receiver *)
Insert ==
  /\ At("owner", "insert")
  /\ joined' = TRUE
  /\ Goto("owner", "names")
  /\ UNCHANGED <<backFill, history, early, state, stateRun, fields, pv, batch, fate>>

(* A seeded fault: the structure of a rebuild before stays.                 *)
NamesKeepsRoot ==
  /\ At("owner", "names")
  /\ columns' = [c \in Column |-> Unknown]
  /\ changed' = {}
  /\ state' = "NeedRetype"
  /\ Goto("owner", "namesClose")
  /\ UNCHANGED <<outside, stateRun, root, pv, batch, fate>>

(* names(), up to pv->close() *)
Names ==
  /\ At("owner", "names")
  /\ columns' = [c \in Column |-> Unknown]
  /\ root' = NoRoot
  /\ changed' = {}
  /\ state' = "NeedRetype"
  /\ Goto("owner", "namesClose")
  /\ UNCHANGED <<outside, stateRun, pv, batch, fate>>

Construct ==
  Insert \/ Names \/ Close("owner", "namesClose", "enter") \/ Slices("owner")

(* close(): collector.remove_receiver(this), then pv->close() *)
Remove ==
  /\ At("owner", "built")
  /\ joined' = FALSE
  /\ Goto("owner", "removed")
  /\ UNCHANGED <<backFill, history, early, state, stateRun, fields, pv, batch, fate>>

(* What an event may hold. *)
Event == {row \in [Column -> Cell] : \A c \in Column : row[c] \in Cells[c]}

(* The processor has a batch of events. *)
Deliver ==
  /\ At("processor", "idle")
  /\ joined
  /\ \E n \in 1 .. MaxRows :
       /\ Len(history) + n <= MaxEvents
       /\ \E events \in [1 .. n -> Event] : history' = history \o events
       /\ batch' = [batch EXCEPT !["processor"] =
                      [from |-> Len(history) + 1, to |-> Len(history) + n]]
  /\ Goto("processor", "enter")
  /\ early' = (early \/ pc["owner"] = "names")
  /\ UNCHANGED <<backFill, joined, state, stateRun, fields, pv, fate>>

Next ==
  \/ Construct \/ Remove \/ Close("owner", "removed", "closed")
  \/ Deliver \/ Slices("processor")

Spec == Init /\ [][Next]_vars

-----------------------------------------------------------------------------
ColumnState ==
  [array : BOOLEAN, type : Type, last : Nat,
   copier : {"none", "scalar", "array"}, made : Type, fresh : BOOLEAN]

Kind == [array : BOOLEAN, type : Type]
Entry == [event : Nat, value : Nat]

(* Every variable stays in its range: a structure has a column for each PV, *)
(* and what a column keeps as its last value is an event that has been.     *)
TypeOK ==
  /\ backFill \in BOOLEAN /\ stateRun \in BOOLEAN
  /\ joined \in BOOLEAN /\ early \in BOOLEAN
  /\ history \in Seq([Column -> Cell])
  /\ state \in {"NeedRetype", "RetypeInProg", "Run"}
  /\ columns \in Seq(ColumnState) /\ Len(columns) \in {0, N}
  /\ \A c \in DOMAIN columns : columns[c].last <= Len(history)
  /\ root \in [built : BOOLEAN, shape : Seq(Kind), rows : Seq(Nat),
               data : Seq(Seq(Entry))]
  /\ pv \in [open : BOOLEAN, shape : Seq(Kind), rows : Seq(Nat),
             data : Seq(Seq(Entry))]
  /\ DOMAIN root.shape = DOMAIN root.data
  /\ DOMAIN pv.shape = DOMAIN pv.data
  /\ root.built => Len(columns) = Len(root.shape)
  /\ changed \subseteq 0 .. N
  /\ fate \in {"ok", "assertion", "null", "exception"}

(* A value in a row is that of its event, or with back fill the last one    *)
(* before, with neither a disconnection nor another value in between: the   *)
(* value kept in Column::last survives no change of type and no marker.     *)
RowsAreTrue ==
  \A c \in DOMAIN root.data : \A i \in DOMAIN root.data[c] :
    LET row == root.data[c][i]
    IN row.value # 0 =>
         /\ row.value = row.event \/ (backFill /\ row.value < row.event)
         /\ history[row.value][c].what \in {"scalar", "array"}
         /\ \A k \in row.value + 1 .. row.event : history[k][c].what = "none"

(* Whatever types the PVs change to and fro, a column that clients see      *)
(* holds values of the type its structure says.                             *)
TypedRows ==
  \A c \in DOMAIN pv.data : \A i \in DOMAIN pv.data[c] :
    LET value == pv.data[c][i].value
    IN value # 0 =>
         /\ history[value][c].type = pv.shape[c].type
         /\ history[value][c].what = "array" => pv.shape[c].array

(* Unless a rebuild is due, the structure has the types of the columns, and *)
(* every column that can be copied has one row for each time stamp.         *)
RunIsConsistent ==
  ~ early /\ state = "Run" /\ root.built =>
    /\ root.shape = Shape
    /\ \A c \in DOMAIN columns : columns[c].fresh =>
         [i \in DOMAIN root.data[c] |-> root.data[c][i].event] = root.rows

Rebuilding(t) == pc[t] \in {"reclose", "open", "reopened"}

(* Nobody waits for ever for a rebuild: a thread in stateRun.wait() has     *)
(* been signalled, or will be by the other one, which is rebuilding.  The   *)
(* constructor may also wait for a rebuild that is due, with the next       *)
(* events; the processor never does.                                        *)
WaiterIsWoken ==
  ~ early => \A t, other \in Thread :
    pc[t] = "wait" /\ other # t =>
      \/ stateRun
      \/ Rebuilding(other)
      \/ t = "owner" /\ state = "NeedRetype"

-----------------------------------------------------------------------------
(* What the code says of it, which does not hold: receiver_pva.cpp:88,      *)
(* assert(column.ftype==...ScalarTypeID<value_type>::value).                *)
CopierFits == fate # "assertion"
=============================================================================
