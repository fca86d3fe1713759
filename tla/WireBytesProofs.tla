-------------------------- MODULE WireBytesProofs --------------------------
(***************************************************************************)
(* The bandwidth estimate is the cost of the frame layout, the meta-data    *)
(* once more, and at most one frame header: for every frame size, every     *)
(* type and every number of elements.                                       *)
(***************************************************************************)
EXTENDS WireBytes, TLAPS

(* Division by the body size of a frame. *)
LEMMA DivisionBounds ==
  ASSUME NEW n \in Nat, NEW d \in Nat \ {0}
  PROVE  /\ n \div d \in Nat
         /\ (n \div d) * d <= n
         /\ n < (n \div d) * d + d
  OBVIOUS

(* Multiplication by a natural number is monotone, and a product bound      *)
(* bounds the factor.                                                       *)
LEMMA TimesMonotone ==
  ASSUME NEW a \in Int, NEW b \in Int, NEW c \in Nat, a <= b
  PROVE  a * c <= b * c
<1>1. (b - a) * c >= 0
  OBVIOUS
<1> QED
  BY <1>1

(* The size of an update is that of its meta-data and of its elements, also *)
(* when there are none.                                                     *)
LEMMA SizeIsMetaAndBody ==
  ASSUME NEW t \in Types, NEW count \in Nat
  PROVE  /\ count * t.elem \in Nat
         /\ t.size - t.elem \in LeastMeta .. MostMeta
         /\ Size(t, count) = count * t.elem + (t.size - t.elem)
<1> USE WireAssumption
<1>1. t.size \in Nat /\ t.elem \in Nat /\ t.size - t.elem \in LeastMeta .. MostMeta
  OBVIOUS
<1>2. t.size > t.elem
  BY <1>1
<1>3. count * t.elem \in Nat /\ (count - 1) * t.elem = count * t.elem - t.elem
  BY <1>1
<1>4. CASE count = 0
  <2>1. dbr_size_n(t, count) = t.size /\ count * t.elem = 0
    BY <1>1, <1>4 DEF dbr_size_n
  <2> QED
    BY <1>1, <1>2, <1>4, <2>1 DEF Size
<1>5. CASE count # 0
  <2>1. dbr_size_n(t, count) = t.size + (count * t.elem - t.elem)
    BY <1>3, <1>5 DEF dbr_size_n
  <2> HIDE DEF dbr_size_n
  <2>2. Size(t, count) = dbr_size_n(t, count) - 0
    BY <1>5 DEF Size
  <2> QED
    BY <1>1, <1>3, <2>1, <2>2
<1> QED
  BY <1>1, <1>3, <1>4, <1>5

(* The number of further frames that the code counts for the whole size is  *)
(* the least one for the body, or one more.                                 *)
LEMMA FurtherFrames ==
  ASSUME NEW body \in Nat, NEW meta \in LeastMeta .. MostMeta, NEW k \in Nat,
         Minimal(body, k), body + meta > FirstBody
  PROVE  /\ (body + meta - FirstBody) \div NextBody \in Nat
         /\ k - 1 <= (body + meta - FirstBody) \div NextBody
         /\ (body + meta - FirstBody) \div NextBody <= k
<1> USE WireAssumption
<1> DEFINE q == (body + meta - FirstBody) \div NextBody
<1>1. /\ q \in Nat
      /\ q * NextBody <= body + meta - FirstBody
      /\ body + meta - FirstBody < q * NextBody + NextBody
  BY DivisionBounds
<1> HIDE DEF q
<1>2. body <= FirstBody + k * NextBody
  BY DEF Minimal, Suffices
<1>3. k * NextBody \in Int /\ q * NextBody \in Int
  BY <1>1
<1>4. q <= k
  <2> SUFFICES ASSUME k + 1 <= q PROVE FALSE
    BY <1>1
  <2>1. (k + 1) * NextBody <= q * NextBody
    BY <1>1, TimesMonotone
  <2>2. (k + 1) * NextBody = k * NextBody + NextBody
    OBVIOUS
  <2> QED
    BY <1>1, <1>2, <1>3, <2>1, <2>2
<1>5. k - 1 <= q
  <2> SUFFICES ASSUME q + 2 <= k PROVE FALSE
    BY <1>1
  <2>1. body > FirstBody + (k - 1) * NextBody
    BY <1>1 DEF Minimal, Suffices
  <2>2. (q + 1) * NextBody <= (k - 1) * NextBody
    BY <1>1, TimesMonotone
  <2>3. (q + 1) * NextBody = q * NextBody + NextBody
    BY <1>1
  <2>4. (k - 1) * NextBody \in Int
    OBVIOUS
  <2> QED
    BY <1>1, <1>3, <2>1, <2>2, <2>3, <2>4
<1> QED
  BY <1>1, <1>4, <1>5 DEF q

(* For one update the estimate is the cost of the layout, the meta-data     *)
(* once more, and no header or one.                                         *)
LEMMA UpdateEstimate ==
  ASSUME NEW body \in Nat, NEW meta \in LeastMeta .. MostMeta, NEW k \in Nat,
         Minimal(body, k)
  PROVE  /\ WireSize(body + meta) \in Nat /\ LayoutSize(body, k) \in Nat
         /\ LayoutSize(body, k) + meta <= WireSize(body + meta)
         /\ WireSize(body + meta) <= LayoutSize(body, k) + meta + NextHeader
<1> USE WireAssumption
<1>1. meta \in Nat /\ body + meta \in Nat
  OBVIOUS
<1>2. /\ k * NextHeader \in Nat
      /\ (k + 1) * NextHeader = k * NextHeader + NextHeader
  OBVIOUS
<1>3. CASE body + meta <= FirstBody
  <2>1. k = 0
    <3> SUFFICES ASSUME k >= 1 PROVE FALSE
      OBVIOUS
    <3>1. body > FirstBody + (k - 1) * NextBody
      BY DEF Minimal, Suffices
    <3>2. (k - 1) * NextBody \in Nat
      OBVIOUS
    <3> QED
      BY <1>1, <1>3, <3>1, <3>2
  <2>2. WireSize(body + meta) = body + meta + FirstHeader
    BY <1>1, <1>3 DEF WireSize
  <2>3. 0 * NextHeader = 0
    OBVIOUS
  <2> QED
    BY <1>1, <2>1, <2>2, <2>3 DEF LayoutSize
<1>4. CASE body + meta > FirstBody
  <2> DEFINE q == (body + meta - FirstBody) \div NextBody
  <2>1. q \in Nat /\ k - 1 <= q /\ q <= k
    BY <1>4, FurtherFrames
  <2>2. WireSize(body + meta) = body + meta + FirstHeader + NextHeader * (1 + q)
    BY <1>1, <1>4 DEF WireSize
  <2> HIDE DEF q
  <2>3. k * NextHeader <= (1 + q) * NextHeader
    BY <2>1, TimesMonotone
  <2>4. (1 + q) * NextHeader <= (k + 1) * NextHeader
    BY <2>1, TimesMonotone
  <2>5. NextHeader * (1 + q) = (1 + q) * NextHeader /\ (1 + q) * NextHeader \in Nat
    BY <2>1
  <2> QED
    BY <1>1, <1>2, <2>2, <2>3, <2>4, <2>5 DEF LayoutSize
<1> QED
  BY <1>1, <1>3, <1>4

(* The counters are natural numbers and the estimate is close. *)
WireInv ==
  /\ nUpdates \in Nat /\ nUpdateBytes \in Nat /\ carried \in Nat
  /\ EstimateIsClose

LEMMA UpdateKeepsInv ==
  ASSUME WireInv, NEW t \in Types, NEW count \in Counts, Update(t, count)
  PROVE  WireInv'
<1> USE WireAssumption
<1> DEFINE body == count * t.elem
           meta == t.size - t.elem
           least == nUpdates * LeastMeta
           most == nUpdates * (MostMeta + NextHeader)
<1>1. count \in Nat
  OBVIOUS
<1>2. /\ body \in Nat /\ meta \in LeastMeta .. MostMeta
      /\ Size(t, count) = body + meta
  BY <1>1, SizeIsMetaAndBody
<1>3. PICK k \in 0 .. 1 + body \div NextBody :
        Minimal(body, k) /\ carried' = carried + LayoutSize(body, k)
  BY DEF Update
<1>4. /\ nUpdates' = nUpdates + 1
      /\ nUpdateBytes' = nUpdateBytes + WireSize(body + meta)
  BY <1>2 DEF Update
<1> HIDE DEF body, meta
<1>5. k \in Nat
  BY <1>3 DEF Minimal
<1>6. /\ WireSize(body + meta) \in Nat /\ LayoutSize(body, k) \in Nat
      /\ LayoutSize(body, k) + meta <= WireSize(body + meta)
      /\ WireSize(body + meta) <= LayoutSize(body, k) + meta + NextHeader
  BY <1>2, <1>3, <1>5, UpdateEstimate
<1>7. nUpdates \in Nat /\ nUpdateBytes \in Nat /\ carried \in Nat
  BY DEF WireInv
<1>8. /\ least \in Nat /\ (nUpdates + 1) * LeastMeta = least + LeastMeta
      /\ most \in Nat
      /\ (nUpdates + 1) * (MostMeta + NextHeader) = most + (MostMeta + NextHeader)
  BY <1>7
<1>9. carried + least <= nUpdateBytes /\ nUpdateBytes <= carried + most
  BY DEF WireInv, EstimateIsClose
<1> HIDE DEF least, most
<1>10. /\ carried' + (least + LeastMeta) <= nUpdateBytes'
       /\ nUpdateBytes' <= carried' + (most + (MostMeta + NextHeader))
  BY <1>2, <1>3, <1>4, <1>6, <1>7, <1>8, <1>9
<1> QED
  BY <1>3, <1>4, <1>6, <1>7, <1>8, <1>10 DEF WireInv, EstimateIsClose

(* For all sizes of frames and headers, all types and numbers of elements,  *)
(* and any number of updates: the estimate of onEvent() has the meta-data   *)
(* of each update once more than the frames of its comment, at most one     *)
(* header too many for each, and no other error.                            *)
THEOREM EstimateWithinHeaders == WireSpec => []EstimateIsClose
<1> USE WireAssumption
<1>1. WireInit => WireInv
  BY DEF WireInit, WireInv, EstimateIsClose
<1>2. WireInv /\ [WireNext]_wireVars => WireInv'
  <2> SUFFICES ASSUME WireInv, [WireNext]_wireVars PROVE WireInv'
    OBVIOUS
  <2>1. CASE StatReset
    BY <2>1 DEF StatReset, WireInv, EstimateIsClose
  <2>2. CASE UNCHANGED wireVars
    BY <2>2 DEF wireVars, WireInv, EstimateIsClose
  <2> QED
    BY <2>1, <2>2, UpdateKeepsInv DEF WireNext
<1>3. WireInv => EstimateIsClose
  BY DEF WireInv
<1> QED
  BY <1>1, <1>2, <1>3, PTL DEF WireSpec
=============================================================================
