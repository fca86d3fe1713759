----------------------------- MODULE WireBytes -----------------------------
(***************************************************************************)
(* The bandwidth estimate of Subscription::onEvent (collect_ca.cpp) against *)
(* the frame layout of its comment.  The comment takes the meta-data of an  *)
(* update as a part of the first header and what follows it as the body;    *)
(* the size that the code uses is that of the whole DBR_TIME structure, so  *)
(* that it has the meta-data as well.                                       *)
(***************************************************************************)
EXTENDS Integers

CONSTANTS
  FirstBody,     \* body bytes in the first frame (1402)
  FirstHeader,   \* header bytes of the first frame, meta-data included (98)
  NextBody,      \* body bytes in every further frame (1434)
  NextHeader,    \* header bytes of every further frame (66)
  Types,         \* the DBR types: their dbr_size and dbr_value_size
  LeastMeta,     \* the meta-data of a type is between this ...
  MostMeta,      \* ... and this, which is what the comment says (16)
  Counts,        \* numbers of elements received
  MaxUpdates     \* bound: updates between two resets

ASSUME WireAssumption ==
  /\ FirstBody \in Nat /\ FirstHeader \in Nat
  /\ NextBody \in Nat \ {0} /\ NextHeader \in Nat
  /\ LeastMeta \in Nat \ {0}
  /\ MostMeta \in Nat /\ MostMeta < NextBody
  /\ Types \subseteq [size : Nat, elem : Nat]
  /\ \A t \in Types : t.size - t.elem \in LeastMeta .. MostMeta
  /\ Counts \subseteq Nat
  /\ MaxUpdates \in Nat

VARIABLES
  nUpdates, nUpdateBytes,
  carried    \* what these updates come to in the layout of the comment

wireVars == <<nUpdates, nUpdateBytes, carried>>

(* dbr_size_n(): the structure has room for one element even if none comes. *)
dbr_size_n(t, count) == IF count = 0 THEN t.size ELSE t.size + (count - 1) * t.elem

(* The workaround for zero-length arrays. *)
Size(t, count) ==
  dbr_size_n(t, count)
    - (IF count = 0 /\ dbr_size_n(t, count) > t.elem THEN t.elem ELSE 0)

(* A seeded fault: the first further frame is only counted once it is full. *)
WireSizeFirstFrameLost(size) ==
  size + FirstHeader
    + (IF size > FirstBody
       THEN NextHeader * ((size - FirstBody) \div NextBody)
       ELSE 0)

(* nUpdateBytes += size + 98u; if(size > 1402u) nUpdateBytes += ... *)
WireSize(size) ==
  size + FirstHeader
    + (IF size > FirstBody
       THEN NextHeader * (1 + (size - FirstBody) \div NextBody)
       ELSE 0)

(* A number of further frames suffices when it carries the rest of the body.*)
Suffices(body, k) == body <= FirstBody + k * NextBody

(* The layout of the comment: k further frames, no more than needed. *)
LayoutSize(body, k) == body + FirstHeader + k * NextHeader

Minimal(body, k) ==
  /\ k \in Nat
  /\ Suffices(body, k)
  /\ k = 0 \/ ~ Suffices(body, k - 1)

-----------------------------------------------------------------------------
WireInit == nUpdates = 0 /\ nUpdateBytes = 0 /\ carried = 0

(* nUpdates++; nUpdateBytes += ...: the body is the elements, and the frames*)
(* are as few as suffice, at most one more than those that it could fill.   *)
Update(t, count) ==
  LET body == count * t.elem IN
  /\ nUpdates < MaxUpdates
  /\ nUpdates' = nUpdates + 1
  /\ nUpdateBytes' = nUpdateBytes + WireSize(Size(t, count))
  /\ \E k \in 0 .. 1 + body \div NextBody :
       Minimal(body, k) /\ carried' = carried + LayoutSize(body, k)

(* bsasStatReset *)
StatReset == nUpdates' = 0 /\ nUpdateBytes' = 0 /\ carried' = 0

WireNext ==
  \/ StatReset
  \/ \E t \in Types, count \in Counts : Update(t, count)

WireSpec == WireInit /\ [][WireNext]_wireVars

(* The estimate never undercounts: for each update it has the meta-data     *)
(* twice (collect_ca.cpp:342 and 415) and, at most, one header too many,    *)
(* when that crosses the end of a frame or a last frame is exactly full.    *)
(* These are all its errors, for empty arrays too.                          *)
EstimateIsClose ==
  /\ carried + nUpdates * LeastMeta <= nUpdateBytes
  /\ nUpdateBytes <= carried + nUpdates * (MostMeta + NextHeader)
=============================================================================
