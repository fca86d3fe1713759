----------------------------- MODULE EventStream -----------------------------
(***************************************************************************)
(* What a Collector promises its receivers: the values of all PVs, gathered *)
(* into one event per time stamp, come in batches that advance in time.     *)
(*   - A value, once it has its place in an event, keeps it, and no data    *)
(*     is gathered for events before the newest one sent.                   *)
(*   - A batch is everything gathered up to some time: no event is passed   *)
(*     over by a newer one.                                                 *)
(*   - An event is never silently lost: losses are counted, and they are    *)
(*     the oldest of what is not sent.                                      *)
(* Queues, threads, timeouts and what makes an event complete do not        *)
(* appear.                                                                  *)
(***************************************************************************)
EXTENDS Naturals, FiniteSets

CONSTANTS
  Column,  \* the PVs
  Key      \* the time stamps

VARIABLES
  held,    \* the events gathered: a function from keys to slices
  newest,  \* the newest key sent
  batch,   \* the events last sent
  count    \* events lost, or rounds given up for too many events

vars == <<held, newest, batch, count>>

Init ==
  /\ held = [k \in {} |-> {}]
  /\ newest = 0
  /\ batch = held
  /\ count = 0

Empty(k, c) == k \in DOMAIN held => held[k][c] = "none"

(* A value of PV c, or the mark of its disconnection, takes its place.      *)
Gather(k, c, cell) ==
  /\ Empty(k, c)
  /\ cell = "data" => k > newest
  /\ DOMAIN held' = DOMAIN held \cup {k}
  /\ held' = [j \in DOMAIN held' |->
                [d \in Column |->
                   IF j = k /\ d = c THEN cell
                   ELSE IF j \in DOMAIN held THEN held[j][d] ELSE "none"]]
  /\ UNCHANGED <<newest, batch, count>>

Before(S, T) == \A j \in S, k \in T : j < k

At(S) == [k \in S |-> held[k]]

(* The events of sent leave as a batch, and those of lost for good. *)
Send(sent, lost) ==
  LET kept == DOMAIN held \ (sent \cup lost) IN
  /\ Before({newest}, sent)
  /\ Before(sent, lost \cup kept)
  /\ Before(lost, kept)
  /\ batch' = At(sent)
  /\ held' = At(kept)
  /\ newest' \in (IF sent = {} THEN {newest} ELSE sent)
  /\ \A k \in sent : k <= newest'
  /\ count' = count + Cardinality(lost)

(* A round is given up with updates still queued. *)
GiveUp ==
  /\ count' = count + 1
  /\ UNCHANGED <<held, newest, batch>>

Next ==
  \/ \E k \in Key, c \in Column, cell \in {"data", "disc"} : Gather(k, c, cell)
  \/ \E sent \in SUBSET DOMAIN held :
       \E lost \in SUBSET (DOMAIN held \ sent) : Send(sent, lost)
  \/ GiveUp

Spec == Init /\ [][Next]_vars
=============================================================================
