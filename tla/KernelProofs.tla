---------------------------- MODULE KernelProofs ----------------------------
(***************************************************************************)
(* The work items of a launch reach every nonce of its batch once, and     *)
(* their claims on the buffer stay distinct, complete and in their slots,  *)
(* for every batch size, item width and buffer capacity.                   *)
(***************************************************************************)
EXTENDS KernelProperties, TLAPS

(* Two lanes with one offset are one lane.                                 *)
LEMMA OffsetUnique ==
  ASSUME NEW i \in Nat, NEW j \in Nat,
         NEW l \in 0 .. NoncesPerItem - 1, NEW k \in 0 .. NoncesPerItem - 1,
         i * NoncesPerItem + l = j * NoncesPerItem + k
  PROVE  i = j /\ l = k
<1> DEFINE W == NoncesPerItem
<1>1. W \in Nat \ {0}
  BY KernelAssumption
<1>2. ASSUME NEW a \in Nat, NEW b \in Nat, a < b
      PROVE  a * W + W <= b * W
  <2>1. PICK d \in Nat : b = a + 1 + d
    <3>1. b - a - 1 \in Nat /\ b = a + 1 + (b - a - 1)
      BY <1>2
    <3> QED
      BY <3>1
  <2>2. b * W = a * W + W + d * W
    BY <2>1, <1>1
  <2>3. d * W \in Nat /\ a * W \in Nat /\ b * W \in Nat
    BY <1>1
  <2> HIDE DEF W
  <2> QED
    BY <2>2, <2>3, <1>1
<1>3. i * W \in Nat /\ j * W \in Nat
  BY <1>1
<1>4. ~(i < j)
  <2>1. ASSUME i < j PROVE FALSE
    <3>1. i * W + W <= j * W
      BY <2>1, <1>2
    <3> QED
      BY <3>1, <1>1, <1>3
  <2> QED
    BY <2>1
<1>5. ~(j < i)
  <2>1. ASSUME j < i PROVE FALSE
    <3>1. j * W + W <= i * W
      BY <2>1, <1>2
    <3> QED
      BY <3>1, <1>1, <1>3
  <2> QED
    BY <2>1
<1> QED
  BY <1>3, <1>4, <1>5

(* Rounding up covers what is rounded.                                     *)
LEMMA CeilDivCovers ==
  ASSUME NEW a \in Nat, NEW b \in Nat \ {0}
  PROVE  CeilDiv(a, b) \in Nat /\ a <= CeilDiv(a, b) * b
  BY DEF CeilDiv

(* Every offset of the batch is a lane of an item that is launched.        *)
LEMMA OffsetCovered ==
  ASSUME NEW offset \in Offsets
  PROVE  \E i \in Items, l \in 0 .. NoncesPerItem - 1 :
           offset = i * NoncesPerItem + l
<1> DEFINE W == NoncesPerItem
           workItems == CeilDiv(BatchSize, W)
           i == offset \div W
           l == offset % W
<1>1. /\ W \in Nat \ {0} /\ BatchSize \in Nat \ {0} /\ LocalSize \in Nat \ {0}
      /\ offset \in Nat /\ offset < BatchSize
  BY KernelAssumption DEF Offsets
<1>2. i \in Nat /\ l \in 0 .. W - 1 /\ offset = i * W + l
  BY <1>1
<1>3. workItems \in Nat /\ BatchSize <= workItems * W
  BY <1>1, CeilDivCovers
<1>4. GlobalSize \in Nat /\ workItems <= GlobalSize
  BY <1>1, <1>3, CeilDivCovers DEF GlobalSize
<1>5. i < workItems
  <2>1. ASSUME workItems <= i PROVE FALSE
    <3>1. workItems * W <= i * W
      <4>1. PICK d \in Nat : i = workItems + d
        <5>1. i - workItems \in Nat /\ i = workItems + (i - workItems)
          BY <2>1, <1>2, <1>3
        <5> QED
          BY <5>1
      <4>2. i * W = workItems * W + d * W /\ d * W \in Nat
        BY <4>1, <1>1, <1>3
      <4> QED
        BY <4>2, <1>1, <1>3
    <3> QED
      BY <3>1, <1>1, <1>2, <1>3
  <2> QED
    BY <2>1, <1>2, <1>3
<1>6. i \in Items
  BY <1>2, <1>4, <1>5, <1>3 DEF Items
<1> QED
  BY <1>2, <1>6

(* A batch is no longer than the nonce space, so nonces are distinct too.  *)
LEMMA NonceInjective ==
  ASSUME NEW s \in Nonces, NEW a \in Offsets, NEW b \in Offsets,
         Nonce(s, a) = Nonce(s, b)
  PROVE  a = b
  BY KernelAssumption DEF Nonces, Offsets, Nonce

LEMMA NonceType ==
  ASSUME NEW s \in Nonces, NEW a \in Nat
  PROVE  Nonce(s, a) \in Nonces
  BY KernelAssumption DEF Nonces, Nonce

LEMMA GeometryType ==
  /\ GlobalSize \in Nat /\ Items \subseteq Nat /\ Offsets \subseteq Nat
  /\ 0 \in Nonces /\ Nonces \subseteq Nat
<1>1. CeilDiv(BatchSize, NoncesPerItem) \in Nat
  BY KernelAssumption, CeilDivCovers
<1>2. GlobalSize \in Nat
  BY <1>1, KernelAssumption, CeilDivCovers DEF GlobalSize
<1> QED
  BY <1>2, KernelAssumption DEF Items, Offsets, Nonces

LEMMA OffsetType ==
  ASSUME KernelTypeOK, NEW i \in Items
  PROVE  Offset(i) \in Nat /\ (~Ended(i) => Offset(i) \in Offsets
                                          /\ lane[i] \in 0 .. NoncesPerItem - 1)
<1>1. i \in Nat /\ NoncesPerItem \in Nat \ {0} /\ BatchSize \in Nat
  BY GeometryType, KernelAssumption
<1>2. lane[i] \in 0 .. NoncesPerItem
  BY DEF KernelTypeOK
<1>3. i * NoncesPerItem \in Nat
  BY <1>1
<1> QED
  BY <1>1, <1>2, <1>3 DEF Offset, Ended, Offsets
----------------------------------------------------------------------------
(* The steps of a work item.                                               *)

(* An item uses its slot: Store, and Metal's emit_result.                  *)
Uses(i, s, dev) ==
  /\ slot[i] # None
  /\ results' = IF slot[i] < Capacity
                  THEN [results EXCEPT ![slot[i]] = Nonce(s, Offset(i))]
                  ELSE results
  /\ overflow' = IF slot[i] < Capacity \/ dev = "metal" THEN overflow
                                                        ELSE overflow + 1
  /\ slot' = [slot EXCEPT ![i] = None]
  /\ Advance(i)
  /\ UNCHANGED <<words, count, claims>>

Moves(i, j, s, dev) == Skip(i, j, s) \/ Claim(i, j, s) \/ Uses(i, s, dev)

LEMMA StoreUses ==
  ASSUME KernelTypeOK, NEW i \in Items, NEW s, NEW dev, dev # "metal", Store(i, s)
  PROVE  Uses(i, s, dev)
<1>1. slot[i] \in Nat /\ Capacity \in Nat
  BY KernelAssumption DEF KernelTypeOK, Store
<1> QED
  BY <1>1 DEF Store, Uses

LEMMA MoveTypes ==
  ASSUME KernelTypeOK, SlotsInLane, NEW i \in Items, NEW j, NEW s \in Nonces,
         NEW dev, Moves(i, j, s, dev)
  PROVE  KernelTypeOK'
<1>1. ASSUME ~Ended(i), Advance(i)
      PROVE  lane' \in [Items -> 0 .. NoncesPerItem]
  <2>1. lane[i] + 1 \in 0 .. NoncesPerItem
    BY <1>1, OffsetType, KernelAssumption
  <2>2. lane \in [Items -> 0 .. NoncesPerItem]
    BY DEF KernelTypeOK
  <2> QED
    BY <1>1, <2>1, <2>2 DEF Advance
<1>2. CASE Skip(i, j, s)
  BY <1>2, <1>1 DEF Skip, KernelTypeOK, memory
<1>3. CASE Claim(i, j, s)
  BY <1>3, OffsetType DEF Claim, KernelTypeOK
<1>4. CASE Uses(i, s, dev)
  <2>1. Nonce(s, Offset(i)) \in Nonces
    BY OffsetType, NonceType
  <2>2. slot[i] \in Nat
    BY <1>4 DEF Uses, KernelTypeOK
  <2>3. results' \in [0 .. Capacity - 1 -> Nonces \cup {None}]
    BY <1>4, <2>1, <2>2 DEF Uses, KernelTypeOK
  <2>4. overflow' \in Nat
    BY <1>4 DEF Uses, KernelTypeOK
  <2>5. lane' \in [Items -> 0 .. NoncesPerItem]
    BY <1>4, <1>1 DEF Uses, SlotsInLane
  <2> QED
    BY <1>4, <2>3, <2>4, <2>5 DEF Uses, KernelTypeOK
<1> QED
  BY <1>2, <1>3, <1>4 DEF Moves

LEMMA MoveSlots ==
  ASSUME KernelTypeOK, SlotsInLane, NEW i \in Items, NEW j, NEW s, NEW dev,
         Moves(i, j, s, dev)
  PROVE  SlotsInLane'
<1> SUFFICES ASSUME NEW n \in Items, slot'[n] # None PROVE ~Ended(n)'
  BY DEF SlotsInLane
<1>1. CASE n # i
  <2>1. slot'[n] = slot[n] /\ lane'[n] = lane[n]
    BY <1>1 DEF Moves, Skip, Claim, Uses, Advance, KernelTypeOK
  <2> QED
    BY <2>1 DEF SlotsInLane, Ended, Offset
<1>2. CASE n = i
  <2>1. Claim(i, j, s)
    BY <1>2 DEF Moves, Skip, Uses, KernelTypeOK
  <2> QED
    BY <2>1, <1>2 DEF Claim, Ended, Offset
<1> QED
  BY <1>1, <1>2

(* A lane is passed once: the item at it has not passed it.                *)
LEMMA NotPassed ==
  ASSUME KernelTypeOK, NEW i \in Items, ~Ended(i), slot[i] = None
  PROVE  ~Passed(Offset(i))
<1> SUFFICES ASSUME NEW n \in Items, NEW l \in 0 .. NoncesPerItem - 1,
                    Offset(i) = n * NoncesPerItem + l,
                    l < lane[n] \/ (l = lane[n] /\ slot[n] # None)
             PROVE  FALSE
  BY DEF Passed
<1>1. lane[i] \in 0 .. NoncesPerItem - 1 /\ i \in Nat /\ n \in Nat
  BY OffsetType, GeometryType
<1>2. i * NoncesPerItem + lane[i] = n * NoncesPerItem + l
  BY DEF Offset
<1>3. n = i /\ l = lane[i]
  BY <1>1, <1>2, OffsetUnique
<1> QED
  BY <1>1, <1>3

(* What one step of a work item adds to what is passed.                    *)
LEMMA MovePasses ==
  ASSUME KernelTypeOK, SlotsInLane, NEW i \in Items, NEW j, NEW s, NEW dev,
         Moves(i, j, s, dev)
  PROVE  \A offset : Passed(offset)' <=> Passed(offset) \/ offset = Offset(i)
<1> DEFINE At(n, l) == l < lane[n] \/ (l = lane[n] /\ slot[n] # None)
<1>1. /\ ~Ended(i) /\ lane[i] \in 0 .. NoncesPerItem - 1
      /\ Offset(i) = i * NoncesPerItem + lane[i]
  BY OffsetType DEF Moves, Skip, Claim, Uses, Offset, SlotsInLane
<1>2. ASSUME NEW n \in Items, NEW l \in 0 .. NoncesPerItem - 1
      PROVE  At(n, l)' <=> At(n, l) \/ (n = i /\ l = lane[i])
  <2>1. CASE n # i
    BY <2>1 DEF Moves, Skip, Claim, Uses, Advance, KernelTypeOK
  <2>2. CASE n = i
    <3>1. l \in Int /\ lane[i] \in Int
      BY <1>1
    <3>2. CASE Skip(i, j, s) \/ Uses(i, s, dev)
      <4>1. lane'[i] = lane[i] + 1 /\ slot'[i] = None
        BY <3>2 DEF Skip, Uses, Advance, KernelTypeOK
      <4> QED
        BY <2>2, <3>1, <4>1
    <3>3. CASE Claim(i, j, s)
      <4>1. lane'[i] = lane[i] /\ slot'[i] # None
        BY <3>3, KernelAssumption DEF Claim, KernelTypeOK
      <4>2. slot[i] = None
        BY <3>3 DEF Claim
      <4> QED
        BY <2>2, <3>1, <4>1, <4>2
    <3> QED
      BY <3>2, <3>3 DEF Moves
  <2> QED
    BY <2>1, <2>2
<1> HIDE DEF At
<1>3. ASSUME NEW offset
      PROVE  Passed(offset)' <=> \E n \in Items, l \in 0 .. NoncesPerItem - 1 :
                                   offset = n * NoncesPerItem + l /\ At(n, l)'
  BY DEF Passed, At
<1>4. ASSUME NEW offset
      PROVE  Passed(offset) <=> \E n \in Items, l \in 0 .. NoncesPerItem - 1 :
                                  offset = n * NoncesPerItem + l /\ At(n, l)
  BY DEF Passed, At
<1> QED
  BY <1>1, <1>2, <1>3, <1>4
----------------------------------------------------------------------------
(* The claims.                                                             *)

(* A nonce that is none of the batch's is passed and not claimed.          *)
LEMMA SkipKeepsClaims ==
  ASSUME KernelTypeOK, NEW j, NEW s, NEW dev, NEW i \in Items,
         words = Header(j), ClaimsAre(j, s, dev), ClaimsFollow(j, s),
         Skip(i, j, s),
         \A offset : Passed(offset)' <=> Passed(offset) \/ offset = Offset(i)
  PROVE  ClaimsAre(j, s, dev)' /\ ClaimsFollow(j, s)'
<1>1. /\ slot[i] = None
      /\ UNCHANGED <<count, overflow, results, claims, slot>>
      /\ \A n \in Items : n # i => lane'[n] = lane[n]
  BY DEF Skip, Advance, memory, KernelTypeOK
<1>2. \A n \in Items : slot[n] # None => Offset(n)' = Offset(n)
  BY <1>1 DEF Offset
<1>3. \A k \in DOMAIN claims :
        (Held(k) => Held(k)') /\ (Stored(k, s, dev) => Stored(k, s, dev)')
  <2>1. \A k \in DOMAIN claims : Stored(k, s, dev) => Stored(k, s, dev)'
    BY <1>1 DEF Stored
  <2>2. ASSUME NEW k \in DOMAIN claims, Held(k) PROVE Held(k)'
    <3>1. PICK n \in Items : slot[n] = k - 1 /\ Offset(n) = claims[k]
      BY <2>2 DEF Held
    <3>2. k - 1 \in Nat
      BY DEF KernelTypeOK
    <3>3. slot[n] # None
      BY <3>1, <3>2, KernelAssumption
    <3> QED
      BY <1>1, <1>2, <3>1, <3>3 DEF Held
  <2> QED
    BY <2>1, <2>2
<1>4. Offset(i) \notin CandidateOffsets(j, s)
  BY DEF Skip, CandidateOffsets
<1>5. ClaimsAre(j, s, dev)'
  BY <1>1, <1>2, <1>3 DEF ClaimsAre
<1>6. ClaimsFollow(j, s)'
  BY <1>1, <1>4 DEF ClaimsFollow, Claimed
<1> QED
  BY <1>5, <1>6

(* A candidate takes the next slot.                                        *)
LEMMA ClaimKeepsClaims ==
  ASSUME KernelTypeOK, NEW j, NEW s, NEW dev, NEW i \in Items,
         words = Header(j), ClaimsAre(j, s, dev), ClaimsFollow(j, s),
         Claim(i, j, s),
         \A offset : Passed(offset)' <=> Passed(offset) \/ offset = Offset(i)
  PROVE  ClaimsAre(j, s, dev)' /\ ClaimsFollow(j, s)'
<1>1. /\ ~Ended(i) /\ slot[i] = None
      /\ slot' = [slot EXCEPT ![i] = count] /\ count' = count + 1
      /\ claims' = Append(claims, Offset(i))
      /\ UNCHANGED <<overflow, results, lane>>
  BY DEF Claim
<1>2. Offset(i) \in CandidateOffsets(j, s)
  BY <1>1, OffsetType DEF Claim, CandidateOffsets
<1>3. Len(claims) = count /\ count \in Nat /\ claims \in Seq(Offsets)
  BY DEF ClaimsAre, KernelTypeOK
<1>4. /\ DOMAIN claims = 1 .. count /\ DOMAIN claims' = 1 .. count + 1
      /\ \A k \in DOMAIN claims : claims'[k] = claims[k]
      /\ claims'[count + 1] = Offset(i)
      /\ Len(claims') = count + 1
  BY <1>1, <1>2, <1>3 DEF CandidateOffsets
<1>5. \A k \in DOMAIN claims : claims[k] # Offset(i)
  BY <1>1, NotPassed DEF ClaimsFollow
<1>6. /\ \A n \in Items : Offset(n)' = Offset(n)
      /\ slot'[i] = count
      /\ \A n \in Items : n # i => slot'[n] = slot[n]
  BY <1>1 DEF Offset, KernelTypeOK
<1>7. \A k \in DOMAIN claims : Held(k)' \/ Stored(k, s, dev)'
  <2> SUFFICES ASSUME NEW k \in DOMAIN claims
               PROVE  Held(k)' \/ Stored(k, s, dev)'
    OBVIOUS
  <2>1. CASE Stored(k, s, dev)
    BY <2>1, <1>1, <1>4 DEF Stored
  <2>2. CASE Held(k)
    <3>1. PICK n \in Items : slot[n] = k - 1 /\ Offset(n) = claims[k]
      BY <2>2 DEF Held
    <3>2. k - 1 \in Nat
      BY <1>4
    <3>3. n # i
      BY <1>1, <3>1, <3>2, KernelAssumption
    <3> QED
      BY <1>4, <1>6, <3>1, <3>3 DEF Held
  <2> QED
    BY <2>1, <2>2 DEF ClaimsAre
<1>8. ASSUME NEW k \in Nat, k = count + 1 PROVE Held(k)'
  <2>1. k - 1 = count
    BY <1>3, <1>8
  <2> QED
    BY <2>1, <1>4, <1>6, <1>8 DEF Held
<1>9. \A n \in Items : slot'[n] # None =>
        slot'[n] < count' /\ claims'[slot'[n] + 1] = Offset(n)'
  <2> SUFFICES ASSUME NEW n \in Items, slot'[n] # None
               PROVE  slot'[n] < count' /\ claims'[slot'[n] + 1] = Offset(n)'
    OBVIOUS
  <2>1. CASE n = i
    BY <2>1, <1>1, <1>3, <1>4, <1>6
  <2>2. CASE n # i
    <3>1. slot[n] \in Nat /\ slot[n] < count /\ claims[slot[n] + 1] = Offset(n)
      BY <2>2, <1>6 DEF ClaimsAre, KernelTypeOK
    <3>2. slot[n] + 1 \in DOMAIN claims
      BY <3>1, <1>3, <1>4
    <3> QED
      BY <2>2, <3>1, <3>2, <1>1, <1>3, <1>4, <1>6
  <2> QED
    BY <2>1, <2>2
<1>10. \A k \in DOMAIN claims' : k \in DOMAIN claims \/ k = count + 1
  BY <1>3, <1>4
<1>11. \A k, n \in DOMAIN claims' : claims'[k] = claims'[n] => k = n
  BY <1>4, <1>5, <1>10 DEF ClaimsAre
<1>12. \A k \in DOMAIN claims' :
         /\ claims'[k] \in CandidateOffsets(j, s)
         /\ Held(k)' \/ Stored(k, s, dev)'
  <2> SUFFICES ASSUME NEW k \in DOMAIN claims'
               PROVE  /\ claims'[k] \in CandidateOffsets(j, s)
                      /\ Held(k)' \/ Stored(k, s, dev)'
    OBVIOUS
  <2>1. CASE k \in DOMAIN claims
    BY <2>1, <1>4, <1>7 DEF ClaimsAre
  <2>2. CASE k = count + 1
    <3>1. k \in Nat
      BY <2>2, <1>3
    <3> QED
      BY <2>2, <3>1, <1>2, <1>4, <1>8
  <2> QED
    BY <2>1, <2>2, <1>10
<1>13. ClaimsAre(j, s, dev)'
  BY <1>1, <1>4, <1>9, <1>11, <1>12 DEF ClaimsAre
<1>14. ASSUME NEW k \in DOMAIN claims' PROVE Passed(claims[k])'
  <2>1. PICK offset : offset = claims'[k]
    OBVIOUS
  <2>2. Passed(offset) \/ offset = Offset(i)
    BY <2>1, <1>4, <1>10 DEF ClaimsFollow
  <2>3. Passed(offset)'
    BY <2>2
  <2> QED
    BY <2>1, <2>3 DEF Passed
<1>15. \A offset : Claimed(offset) \/ offset = Offset(i) => Claimed(offset)'
  <2>1. count + 1 \in DOMAIN claims' /\ \A k \in DOMAIN claims : k \in DOMAIN claims'
    BY <1>3, <1>4
  <2> QED
    BY <2>1, <1>4 DEF Claimed
<1>16. ClaimsFollow(j, s)'
  BY <1>14, <1>15 DEF ClaimsFollow
<1> QED
  BY <1>13, <1>16

(* The nonce of a claim goes to its slot, or its loss is counted.          *)
LEMMA UseKeepsClaims ==
  ASSUME KernelTypeOK, NEW j, NEW s, NEW dev, NEW i \in Items,
         ClaimsAre(j, s, dev), ClaimsFollow(j, s), Uses(i, s, dev),
         \A offset : Passed(offset)' <=> Passed(offset) \/ offset = Offset(i)
  PROVE  ClaimsAre(j, s, dev)' /\ ClaimsFollow(j, s)'
<1>1. /\ slot[i] # None /\ slot' = [slot EXCEPT ![i] = None]
      /\ UNCHANGED <<count, claims>>
      /\ \A n \in Items : n # i => lane'[n] = lane[n] /\ slot'[n] = slot[n]
  BY DEF Uses, Advance, KernelTypeOK
<1>2. /\ slot[i] \in Nat /\ slot[i] < count
      /\ claims[slot[i] + 1] = Offset(i) /\ slot'[i] = None
  BY <1>1 DEF ClaimsAre, KernelTypeOK
<1>3. \A n \in Items : n # i => Offset(n)' = Offset(n)
  BY <1>1 DEF Offset
<1>4. /\ DOMAIN claims = 1 .. count /\ count \in Nat
      /\ overflow \in Nat /\ Capacity \in Nat
  BY KernelAssumption DEF ClaimsAre, KernelTypeOK
<1>5. ASSUME NEW k \in DOMAIN claims PROVE Held(k)' \/ Stored(k, s, dev)'
  <2>1. k \in Nat /\ k - 1 \in Nat /\ (k - 1) + 1 = k
    BY <1>4
  <2>2. CASE slot[i] = k - 1
    <3>1. claims[k] = Offset(i)
      BY <1>2, <2>1, <2>2
    <3>2. CASE k - 1 < Capacity
      <4>1. results' = [results EXCEPT ![k - 1] = Nonce(s, Offset(i))]
        BY <2>1, <2>2, <3>2, <1>4 DEF Uses
      <4>2. results'[k - 1] = Nonce(s, Offset(i))
        BY <4>1, <2>1, <3>2, <1>4 DEF KernelTypeOK
      <4> QED
        BY <3>1, <3>2, <4>2, <1>1 DEF Stored
    <3>3. CASE ~(k - 1 < Capacity)
      <4>1. dev # "metal" => overflow' = overflow + 1
        BY <2>1, <2>2, <3>3, <1>4 DEF Uses
      <4>2. dev # "metal" => overflow' > 0
        BY <4>1, <1>4
      <4> QED
        BY <3>3, <4>2 DEF Stored
    <3> QED
      BY <3>2, <3>3
  <2>3. CASE slot[i] # k - 1
    <3>1. CASE Stored(k, s, dev)
      <4>1. k - 1 < Capacity => results'[k - 1] = results[k - 1]
        BY <2>1, <2>3, <1>2, <1>4 DEF Uses, KernelTypeOK
      <4>2. overflow > 0 => overflow' > 0
        BY <1>4 DEF Uses
      <4> QED
        BY <3>1, <4>1, <4>2, <1>1 DEF Stored
    <3>2. CASE Held(k)
      <4>1. PICK n \in Items : slot[n] = k - 1 /\ Offset(n) = claims[k]
        BY <3>2 DEF Held
      <4>2. n # i
        BY <2>3, <4>1
      <4> QED
        BY <1>1, <1>3, <4>1, <4>2 DEF Held
    <3> QED
      BY <3>1, <3>2 DEF ClaimsAre
  <2> QED
    BY <2>2, <2>3
<1>6. \A n \in Items : slot'[n] # None =>
        slot'[n] < count' /\ claims'[slot'[n] + 1] = Offset(n)'
  BY <1>1, <1>2, <1>3 DEF ClaimsAre
<1>7. ClaimsAre(j, s, dev)'
  BY <1>1, <1>5, <1>6 DEF ClaimsAre
<1>8. Claimed(Offset(i))
  <2>1. slot[i] + 1 \in DOMAIN claims
    BY <1>2, <1>4
  <2> QED
    BY <2>1, <1>2 DEF Claimed
<1>9. ClaimsFollow(j, s)'
  BY <1>1, <1>8 DEF ClaimsFollow, Claimed
<1> QED
  BY <1>7, <1>9

(* No step of an item loses, doubles or invents a claim.                   *)
LEMMA MoveKeepsClaims ==
  ASSUME KernelTypeOK, SlotsInLane, NEW i \in Items, NEW j, NEW s, NEW dev,
         Moves(i, j, s, dev), words = Header(j),
         ClaimsAre(j, s, dev), ClaimsFollow(j, s)
  PROVE  ClaimsAre(j, s, dev)' /\ ClaimsFollow(j, s)'
<1>1. \A offset : Passed(offset)' <=> Passed(offset) \/ offset = Offset(i)
  BY MovePasses
<1>2. CASE Skip(i, j, s)
  BY <1>1, <1>2, SkipKeepsClaims
<1>3. CASE Claim(i, j, s)
  BY <1>1, <1>3, ClaimKeepsClaims
<1>4. CASE Uses(i, s, dev)
  BY <1>1, <1>4, UseKeepsClaims
<1> QED
  BY <1>2, <1>3, <1>4 DEF Moves

(* The steps of a host that move no item keep what is known of the claims. *)
LEMMA StandingClaims ==
  ASSUME UNCHANGED <<items, count, overflow, results, claims>>,
         NEW j, NEW s, NEW dev
  PROVE  /\ ClaimsAre(j, s, dev) => ClaimsAre(j, s, dev)'
         /\ ClaimsFollow(j, s) => ClaimsFollow(j, s)'
         /\ AllClaimed(j, s) => AllClaimed(j, s)'
  BY DEF items, ClaimsAre, ClaimsFollow, AllClaimed, Held, Stored, Passed,
         Claimed, Offset, CandidateOffsets

(* Cleared counters: no claim, and nothing passed by items at their start. *)
LEMMA ClearedClaims ==
  ASSUME ItemsAtStart, UNCHANGED items, claims' = <<>>, count' = 0,
         NEW j, NEW s, NEW dev
  PROVE  ClaimsAre(j, s, dev)' /\ ClaimsFollow(j, s)'
<1>1. DOMAIN claims' = {} /\ Len(claims') = 0
  OBVIOUS
<1>2. \A i \in Items : lane'[i] = 0 /\ slot'[i] = None
  BY DEF items, ItemsAtStart
<1>3. ASSUME NEW offset PROVE ~Passed(offset)'
  <2>1. \A l \in 0 .. NoncesPerItem - 1 : ~(l < 0)
    OBVIOUS
  <2> QED
    BY <1>2, <2>1 DEF Passed
<1>4. ClaimsAre(j, s, dev)'
  BY <1>1, <1>2 DEF ClaimsAre
<1>5. ClaimsFollow(j, s)'
  BY <1>1, <1>3 DEF ClaimsFollow
<1> QED
  BY <1>4, <1>5

(* When every item has ended, every candidate is claimed and in its slot.  *)
LEMMA EndedClaims ==
  ASSUME KernelTypeOK, AllEnded, NEW j, NEW s, NEW dev,
         ClaimsAre(j, s, dev), ClaimsFollow(j, s)
  PROVE  /\ AllClaimed(j, s)
         /\ \A k \in DOMAIN claims : Stored(k, s, dev)
<1>1. ASSUME NEW offset \in Offsets PROVE Passed(offset)
  <2>1. PICK i \in Items, l \in 0 .. NoncesPerItem - 1 :
          offset = i * NoncesPerItem + l
    BY OffsetCovered
  <2>2. /\ lane[i] \in 0 .. NoncesPerItem /\ NoncesPerItem \in Nat \ {0}
        /\ i \in Nat /\ BatchSize \in Nat
    BY KernelAssumption, GeometryType DEF KernelTypeOK
  <2>3. l < lane[i]
    <3>1. CASE lane[i] = NoncesPerItem
      BY <2>2, <3>1
    <3>2. CASE i * NoncesPerItem + lane[i] >= BatchSize
      <4>1. i * NoncesPerItem \in Nat
        BY <2>2
      <4>2. i * NoncesPerItem + l < BatchSize
        BY <2>1, <2>2 DEF Offsets
      <4> HIDE <2>1
      <4> QED
        BY <2>2, <3>2, <4>1, <4>2
    <3> QED
      BY <3>1, <3>2 DEF AllEnded, Ended, Offset
  <2> QED
    BY <2>1, <2>3 DEF Passed
<1>2. AllClaimed(j, s)
  BY <1>1 DEF ClaimsFollow, AllClaimed, CandidateOffsets
<1>3. ASSUME NEW k \in DOMAIN claims PROVE Stored(k, s, dev)
  <2>1. ASSUME Held(k) PROVE FALSE
    <3>1. k - 1 \in Nat /\ \E i \in Items : slot[i] = k - 1
      BY <2>1 DEF KernelTypeOK, Held
    <3> QED
      BY <3>1, KernelAssumption DEF AllEnded
  <2> QED
    BY <2>1 DEF ClaimsAre
<1> QED
  BY <1>2, <1>3

(* The next launch starts with items at their start and all claims stored. *)
LEMMA EndedLaunch ==
  ASSUME KernelTypeOK, AllEnded, ResetItems, UNCHANGED memory,
         NEW j, NEW s, NEW dev,
         ClaimsAre(j, s, dev), ClaimsFollow(j, s)
  PROVE  ClaimsAre(j, s, dev)' /\ AllClaimed(j, s)'
<1>1. AllClaimed(j, s) /\ \A k \in DOMAIN claims : Stored(k, s, dev)
  BY EndedClaims
<1>2. /\ \A i \in Items : slot'[i] = None
      /\ UNCHANGED <<count, overflow, results, claims>>
  BY DEF AllEnded, ResetItems, memory
<1>3. \A k \in DOMAIN claims : Stored(k, s, dev)'
  BY <1>1, <1>2 DEF Stored
<1>4. ClaimsAre(j, s, dev)'
  BY <1>2, <1>3 DEF ClaimsAre, CandidateOffsets
<1>5. AllClaimed(j, s)'
  BY <1>1, <1>2 DEF AllClaimed, Claimed, CandidateOffsets
<1> QED
  BY <1>4, <1>5

LEMMA LaunchItems ==
  ASSUME AllEnded, ResetItems
  PROVE  ItemsAtStart'
  BY DEF AllEnded, ResetItems, ItemsAtStart

LEMMA StartedItems == ItemsAtStart => SlotsInLane
  BY DEF ItemsAtStart, SlotsInLane

(* The buffer as far as it is counted.                                     *)
Buffer == [k \in 1 .. count |-> results[k - 1]]

(* The buffer then lists the batch, if every claim found a slot.           *)
LEMMA BufferLists ==
  ASSUME KernelTypeOK, NEW j, NEW s \in Nonces, NEW dev,
         ClaimsAre(j, s, dev), AllClaimed(j, s), ItemsAtStart,
         count <= Capacity
  PROVE  /\ {Buffer[k] : k \in DOMAIN Buffer} = Candidates(j, s)
         /\ \A k, n \in DOMAIN Buffer : Buffer[k] = Buffer[n] => k = n
<1>1. /\ Len(claims) = count /\ count \in Nat /\ claims \in Seq(Offsets)
      /\ Capacity \in Nat
  BY KernelAssumption DEF KernelTypeOK, ClaimsAre
<1>2. DOMAIN claims = 1 .. count /\ DOMAIN Buffer = 1 .. count
  BY <1>1 DEF Buffer
<1>3. ASSUME NEW k \in 1 .. count
      PROVE  Buffer[k] = Nonce(s, claims[k]) /\ claims[k] \in CandidateOffsets(j, s)
  <2>1. k - 1 \in Nat /\ k - 1 < Capacity
    BY <1>1
  <2>2. ~Held(k)
    BY <2>1, KernelAssumption DEF Held, ItemsAtStart
  <2>3. Stored(k, s, dev) /\ claims[k] \in CandidateOffsets(j, s)
    BY <1>2, <2>2 DEF ClaimsAre
  <2> QED
    BY <2>1, <2>3 DEF Stored, Buffer
<1>4. {Buffer[k] : k \in DOMAIN Buffer} = Candidates(j, s)
  <2>1. ASSUME NEW k \in DOMAIN Buffer PROVE Buffer[k] \in Candidates(j, s)
    BY <1>2, <1>3 DEF Candidates
  <2>2. ASSUME NEW offset \in CandidateOffsets(j, s)
        PROVE  \E k \in DOMAIN Buffer : Buffer[k] = Nonce(s, offset)
    BY <1>2, <1>3 DEF AllClaimed, Claimed
  <2> QED
    BY <2>1, <2>2 DEF Candidates
<1>5. ASSUME NEW k \in DOMAIN Buffer, NEW n \in DOMAIN Buffer, Buffer[k] = Buffer[n]
      PROVE  k = n
  <2>1. claims[k] \in Offsets /\ claims[n] \in Offsets
        /\ Nonce(s, claims[k]) = Nonce(s, claims[n])
    BY <1>2, <1>3, <1>5 DEF CandidateOffsets
  <2>2. claims[k] = claims[n]
    BY <2>1, NonceInjective
  <2> QED
    BY <1>2, <1>5, <2>2 DEF ClaimsAre
<1> QED
  BY <1>4, <1>5
=============================================================================
