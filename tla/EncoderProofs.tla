---------------------------- MODULE EncoderProofs ----------------------------
(***************************************************************************)
(* Theorems about Encoder, for any pictures and any number of them: that   *)
(* the decoder's slots are the encoder's, that pictures come out as they   *)
(* were sent, and that the manager's history is in order.                  *)
(***************************************************************************)
EXTENDS Encoder, TLAPS

-----------------------------------------------------------------------------
(* The inductive invariant. *)

\* The n slots written last, the newest first; and how long ago a slot was written.
Ring(latest, n) == [k \in 1 .. n |-> (latest + 1 - k) % 8]
Age(latest, s) == (latest - s) % 8

\* The history is a ring through the slots, and older slots hold earlier frames.
InRing(n) ==
  /\ mgr.history = Ring(mgr.latest, n)
  /\ mgr.next = (mgr.latest + 1) % 8
  /\ \A s, u \in Slots :
       Age(mgr.latest, s) < Age(mgr.latest, u) =>
         /\ refs[s] >= refs[u]
         /\ Age(mgr.latest, u) < n => refs[s] > refs[u]
RingOrdered ==
  /\ mgr.ready <=> frameNum > 0
  /\ frameNum > 0 => /\ \E n \in 1 .. 8 : InRing(n)
                     /\ \A s \in Slots : refs[s] \in 0 .. frameNum - 1

\* Every picture sent is shown or waits, until Close throws those away.
Counted ==
  /\ Len(inputs) = frameNum
  /\ Len(shown) <= frameNum
  /\ closed => packets = <<>>
  /\ ~closed => Len(shown) + Len(packets) = frameNum

\* The newest slot has the last picture, so that a repeat can show it.
LatestIsLast == ~closed /\ frameNum > 0 => inputs[refs[mgr.latest] + 1] = last

\* What a packet makes of a decoder's slots, which it must find as they were
\* when it was coded.
Fits(pkt, pts, before, after, pictures) ==
  /\ pkt.pts = pts
  /\ \/ /\ pkt.kind = "key" /\ pkt.frame = pts
        /\ after = [s \in Slots |-> pts]
     \/ /\ pkt.kind = "inter" /\ pkt.frame = pts
        /\ \A i \in RefTypes : pkt.refIdx[i] \in Slots /\ before[pkt.refIdx[i]] = pkt.from[i]
        /\ after = [s \in Slots |-> IF s \in pkt.refresh THEN pts ELSE before[s]]
     \/ /\ pkt.kind = "show" /\ pkt.slot \in Slots
        /\ before[pkt.slot] \in 0 .. pts - 1
        /\ pictures[before[pkt.slot] + 1] = pictures[pts + 1]
        /\ before[pkt.slot] = 0 => before = [s \in Slots |-> 0]
        /\ after = before

\* The waiting packets lead from the decoder's slots to the encoder's.
Leads(trail) ==
  /\ trail[0] = decoded
  /\ trail[Len(packets)] = refs
  /\ \A i \in 1 .. Len(packets) : Fits(packets[i], Len(shown) + i - 1, trail[i - 1], trail[i], inputs)
InStep == ~closed => \E trail \in [0 .. Len(packets) -> [Slots -> Recons \cup {Nil}]] : Leads(trail)

ShownInOrder ==
  \A i \in DOMAIN shown :
    /\ shown[i].pts = i - 1
    /\ shown[i].frame \in 0 .. i - 1
    /\ inputs[shown[i].frame + 1] = inputs[i]

IInv == TypeOK /\ RingOrdered /\ Counted /\ LatestIsLast /\ InStep /\ ShownInOrder

-----------------------------------------------------------------------------
(* The history. *)

\* Slots are counted modulo eight.
LEMMA Wraps ==
  ASSUME NEW t \in 0 .. 7, NEW n \in 1 .. 7
  PROVE  /\ t % 8 = t /\ (t - 8) % 8 = t
         /\ (t - n) % 8 # t /\ (t - n) % 8 \in 0 .. 7
         /\ t + 1 - (n + 1) = t - n
OBVIOUS

\* One older slot makes a ring longer.
LEMMA RingExtends ==
  ASSUME NEW t \in 0 .. 7, NEW n \in 1 .. 7
  PROVE  /\ Append(Ring(t, n), (t - n) % 8) = Ring(t, n + 1)
         /\ Len(Ring(t, n)) = n
<1>1. Ring(t, n) \in Seq(0 .. 7) /\ Len(Ring(t, n)) = n
  BY DEF Ring
<1>3. Append(Ring(t, n), (t - n) % 8) = [k \in 1 .. n + 1 |-> (t + 1 - k) % 8]
  BY <1>1, Wraps DEF Ring
<1> QED
  BY <1>1, <1>3 DEF Ring

\* A ring of one is the newest slot.
LEMMA RingStarts == ASSUME NEW t \in 0 .. 7 PROVE Ring(t, 1) = <<t>>
<1>1. Ring(t, 1) = [k \in 1 .. 1 |-> t]
  BY Wraps DEF Ring
<1> QED
  BY <1>1

\* The loop of CommitInter puts the target before what is in the history, and
\* drops the oldest slot, the target itself, from a full one.
LEMMA RotatedRing ==
  ASSUME NEW t \in 0 .. 7, NEW n \in 1 .. 8, NEW h, h = [i \in 1 .. n |-> (t - i) % 8]
  PROVE  Rotated(h, t) = Ring(t, IF n = 8 THEN 8 ELSE n + 1)
<1> DEFINE Step(f) == [i \in 0 .. Len(h) |->
             IF i = 0 THEN <<t>>
             ELSE IF h[i] # t /\ Len(f[i - 1]) < 8 THEN Append(f[i - 1], h[i])
             ELSE f[i - 1]]
           kept == CHOOSE f : f = Step(f)
           rings == [i \in 0 .. n |-> Ring(t, IF i = 8 THEN 8 ELSE i + 1)]
<1>1. Len(h) = n /\ \A i \in 1 .. n : h[i] = (t - i) % 8
  OBVIOUS
<1>2. Rotated(h, t) = kept[Len(h)]
  BY DEF Rotated
<1>3. rings[0] = <<t>>
  BY RingStarts
<1>4. ASSUME NEW i \in 1 .. n, i # 8
      PROVE  h[i] # t /\ Len(rings[i - 1]) < 8 /\ Append(rings[i - 1], h[i]) = rings[i]
  <2>1. i \in 1 .. 7 /\ i - 1 \in 0 .. n /\ i - 1 # 8
    BY <1>4
  <2>2. rings[i - 1] = Ring(t, i) /\ rings[i] = Ring(t, i + 1)
    BY <2>1
  <2> HIDE DEF rings
  <2> QED
    BY <2>1, <2>2, <1>1, RingExtends, Wraps
<1>5. ASSUME n = 8
      PROVE  h[8] = t /\ rings[8] = rings[7]
  <2>1. h[8] = t
    BY <1>1, <1>5, Wraps
  <2> QED
    BY <2>1, <1>5
<1>6. rings = Step(rings)
  <2>1. ASSUME NEW i \in 0 .. n
        PROVE  rings[i] = Step(rings)[i]
    <3> HIDE DEF rings
    <3>1. CASE i = 0
      BY <3>1, <1>1, <1>3
    <3>2. CASE i # 0 /\ i # 8
      <4>1. i \in 1 .. n /\ i # 8
        BY <3>2
      <4>2. Step(rings)[i] = IF h[i] # t /\ Len(rings[i - 1]) < 8 THEN Append(rings[i - 1], h[i]) ELSE rings[i - 1]
        BY <4>1, <1>1
      <4> QED
        BY <4>1, <4>2, <1>4
    <3>3. CASE i = 8
      BY <3>3, <1>1, <1>5
    <3> QED
      BY <3>1, <3>2, <3>3
  <2>2. rings = [i \in 0 .. n |-> rings[i]] /\ Step(rings) = [i \in 0 .. n |-> Step(rings)[i]]
    BY <1>1
  <2> HIDE DEF rings, Step
  <2> QED
    BY <2>1, <2>2
<1>7. kept = Step(kept)
  <2> HIDE DEF rings
  <2> QED
    BY <1>6
<1> HIDE DEF kept, rings
<1>8. ASSUME NEW i \in 0 .. n
      PROVE  kept[i] = IF i = 0 THEN <<t>>
                       ELSE IF h[i] # t /\ Len(kept[i - 1]) < 8 THEN Append(kept[i - 1], h[i]) ELSE kept[i - 1]
  <2>1. kept[i] = Step(kept)[i]
    <3> HIDE DEF Step
    <3> QED
      BY <1>7
  <2> QED
    BY <2>1, <1>1
<1> HIDE DEF Step
<1>9. ASSUME NEW i \in 1 .. n, kept[i - 1] = rings[i - 1]
      PROVE  kept[i] = rings[i]
  <2>0. kept[i] = IF h[i] # t /\ Len(kept[i - 1]) < 8 THEN Append(kept[i - 1], h[i]) ELSE kept[i - 1]
    <3>1. i \in 0 .. n /\ i # 0
      OBVIOUS
    <3> QED
      BY <3>1, <1>8
  <2>1. CASE i # 8
    BY <2>0, <2>1, <1>9, <1>4
  <2>2. CASE i = 8
    BY <2>0, <2>2, <1>9, <1>5
  <2> QED
    BY <2>1, <2>2
<1>10. kept[n] = rings[n]
  <2> DEFINE Same(i) == i <= n => kept[i] = rings[i]
  <2>0. 0 \in 0 .. n
    OBVIOUS
  <2>1. Same(0)
    BY <2>0, <1>8, <1>3
  <2>2. ASSUME NEW i \in 1 .. 8, Same(i - 1)
        PROVE  Same(i)
    <3>1. i \in 1 .. n => i - 1 <= n
      OBVIOUS
    <3> QED
      BY <2>2, <1>9, <3>1
  <2> HIDE DEF Same
  <2>3. Same(1) /\ Same(2) /\ Same(3) /\ Same(4)
    BY <2>1, <2>2
  <2>4. Same(5) /\ Same(6) /\ Same(7) /\ Same(8)
    BY <2>3, <2>2
  <2>5. Same(n)
    BY <2>3, <2>4
  <2> QED
    BY <2>5 DEF Same
<1> QED
  BY <1>1, <1>2, <1>10 DEF rings

\* What one more slot does to the others' ages.
LEMMA AgesAdvance ==
  ASSUME NEW l \in Slots, NEW s \in Slots
  PROVE  /\ Age(l, s) \in 0 .. 7
         /\ (l + 1) % 8 \in Slots
         /\ Age(l, (l + 1) % 8) = 7
         /\ Age((l + 1) % 8, s) = IF s = (l + 1) % 8 THEN 0 ELSE Age(l, s) + 1
         /\ Age(l, s) = 7 <=> s = (l + 1) % 8
BY DEF Age, Slots

\* Only the newest slot has age zero.
LEMMA NewestAge ==
  ASSUME NEW l \in Slots, NEW s \in Slots
  PROVE  Age(l, l) = 0 /\ (Age(l, s) = 0 => s = l)
BY DEF Age, Slots

\* The k-th slot of a ring is the one of that age.
LEMMA AgesInRing ==
  ASSUME NEW l \in Slots, NEW n \in 1 .. 8, NEW k \in 1 .. n
  PROVE  /\ Ring(l, n)[k] \in Slots
         /\ Age(l, Ring(l, n)[k]) = k - 1
         /\ Ring(l, n)[1] = l
<1>1. Ring(l, n)[k] = (l + 1 - k) % 8 /\ Ring(l, n)[1] = (l + 1 - 1) % 8
  <2>1. 1 \in 1 .. n
    OBVIOUS
  <2> QED
    BY <2>1 DEF Ring
<1>2. k \in 1 .. 8
  OBVIOUS
<1>3. (l + 1 - k) % 8 \in Slots /\ (l - ((l + 1 - k) % 8)) % 8 = k - 1 /\ (l + 1 - 1) % 8 = l
  BY <1>2 DEF Slots
<1>4. Age(l, Ring(l, n)[k]) = (l - ((l + 1 - k) % 8)) % 8
  BY <1>1 DEF Age
<1> QED
  BY <1>1, <1>3, <1>4

\* A ring is a history.
LEMMA RingType ==
  ASSUME NEW l \in Slots, NEW n \in 1 .. 8
  PROVE  Ring(l, n) \in Seq(Slots) /\ Len(Ring(l, n)) = n
BY DEF Ring, Slots

\* The loop again, for the history that the invariant describes.
LEMMA RotatedHistory ==
  ASSUME NEW l \in Slots, NEW n \in 1 .. 8
  PROVE  Rotated(Ring(l, n), (l + 1) % 8) = Ring((l + 1) % 8, IF n = 8 THEN 8 ELSE n + 1)
<1>1. (l + 1) % 8 \in 0 .. 7
  BY DEF Slots
<1>2. ASSUME NEW i \in 1 .. n
      PROVE  (l + 1 - i) % 8 = (((l + 1) % 8) - i) % 8
  <2>1. i \in 1 .. 8
    OBVIOUS
  <2> QED
    BY <2>1 DEF Slots
<1>3. Ring(l, n) = [i \in 1 .. n |-> (((l + 1) % 8) - i) % 8]
  BY <1>2 DEF Ring
<1> QED
  BY <1>1, <1>3, RotatedRing

-----------------------------------------------------------------------------
(* Typing. *)

\* What the invariant says of the manager and its next plan.
LEMMA ManagerType ==
  ASSUME TypeOK, RingOrdered, frameNum > 0, NEW n \in 1 .. 8, InRing(n)
  PROVE  /\ mgr.latest \in Slots /\ mgr.next \in Slots
         /\ mgr.history = Ring(mgr.latest, n) /\ Len(mgr.history) = n
         /\ \A i \in RefTypes : /\ PlanInter(mgr).refIdx[i] \in Slots
                                /\ PlanInter(mgr).refIdx[i] # mgr.next
         /\ PlanInter(mgr).refIdx \in [RefTypes -> Slots]
         /\ PlanInter(mgr).refresh = {mgr.next} /\ PlanInter(mgr).target = mgr.next
<1>1. mgr.latest \in Slots /\ mgr.next \in Slots
  BY DEF TypeOK, Manager
<1>2. mgr.history = Ring(mgr.latest, n) /\ Len(mgr.history) = n
  BY <1>1, RingType DEF InRing
<1>3. ASSUME NEW i \in RefTypes
      PROVE  /\ PlanInter(mgr).refIdx[i] \in Slots
             /\ PlanInter(mgr).refIdx[i] # mgr.next
  <2> DEFINE k == IF i <= n THEN i ELSE n
  <2>1. k \in 1 .. n /\ k \in 1 .. 7 \cup {8} /\ (i \in 1 .. 7 => k - 1 # 7)
    BY DEF RefTypes
  <2>2. PlanInter(mgr).refIdx[i] = Ring(mgr.latest, n)[k]
    BY <1>2 DEF PlanInter
  <2> HIDE DEF k
  <2>3. Ring(mgr.latest, n)[k] \in Slots /\ Age(mgr.latest, Ring(mgr.latest, n)[k]) = k - 1
    BY <1>1, <2>1, AgesInRing
  <2>4. Age(mgr.latest, mgr.next) = 7
    BY <1>1, AgesAdvance DEF InRing
  <2> QED
    BY <2>1, <2>2, <2>3, <2>4 DEF RefTypes
<1>4. PlanInter(mgr).refIdx = [i \in RefTypes |-> PlanInter(mgr).refIdx[i]]
  BY DEF PlanInter
<1>5. PlanInter(mgr).refresh = {mgr.next} /\ PlanInter(mgr).target = mgr.next
  BY DEF PlanInter
<1> HIDE DEF PlanInter
<1> QED
  BY <1>1, <1>2, <1>3, <1>4, <1>5

\* The newest slot holds the newest frame.
LEMMA NewestFrame ==
  ASSUME TypeOK, RingOrdered, frameNum > 0
  PROVE  /\ mgr.ready /\ mgr.latest \in Slots
         /\ \A s \in Slots : refs[s] \in 0 .. frameNum - 1 /\ refs[s] <= refs[mgr.latest]
<1>1. PICK n \in 1 .. 8 : InRing(n)
  BY DEF RingOrdered
<1>2. mgr.ready /\ mgr.latest \in Slots
  BY DEF RingOrdered, TypeOK, Manager
<1>3. \A s \in Slots : refs[s] \in 0 .. frameNum - 1
  BY DEF RingOrdered
<1>4. ASSUME NEW s \in Slots
      PROVE  refs[s] <= refs[mgr.latest]
  <2>1. Age(mgr.latest, mgr.latest) = 0 /\ Age(mgr.latest, s) \in 0 .. 7
    BY <1>2, AgesAdvance, NewestAge
  <2>2. Age(mgr.latest, s) = 0 => s = mgr.latest
    BY <1>2, NewestAge
  <2> QED
    BY <1>1, <1>2, <1>3, <2>1, <2>2 DEF InRing
<1> QED
  BY <1>2, <1>3, <1>4

-----------------------------------------------------------------------------
(* Every step keeps the invariant. *)

\* Nothing is sent: the invariant holds.
LEMMA InvariantStarts == Init => IInv
<1> SUFFICES ASSUME Init PROVE IInv
  OBVIOUS
<1> USE EncoderAssumption
<1>1. TypeOK
  <2>1. mgr \in Manager
    BY DEF Init, Manager, Slots
  <2>2. frameNum \in 0 .. MaxFrames /\ packets \in Seq(Key \cup Inter \cup Show) /\ inputs \in Seq(Pictures)
        /\ shown \in Seq([frame : Recons \cup {Nil, Drift}, pts : Nat])
    BY DEF Init
  <2> QED
    BY <2>1, <2>2 DEF Init, TypeOK
<1>2. RingOrdered /\ Counted /\ LatestIsLast /\ ShownInOrder
  BY DEF Init, RingOrdered, Counted, LatestIsLast, ShownInOrder
<1>3. InStep
  <2> DEFINE trail == [k \in 0 .. Len(packets) |-> decoded]
  <2>1. Len(packets) = 0
    BY DEF Init
  <2>2. trail \in [0 .. Len(packets) -> [Slots -> Recons \cup {Nil}]]
    BY DEF Init
  <2>3. Leads(trail)
    BY <2>1 DEF Init, Leads
  <2> QED
    BY <2>2, <2>3 DEF InStep
<1> QED
  BY <1>1, <1>2, <1>3 DEF IInv

\* A packet that fits where the others lead to is one more step of the way.
LEMMA TrailExtended ==
  ASSUME IInv, ~closed, NEW pkt, NEW p \in Pictures,
         packets' = Append(packets, pkt), inputs' = Append(inputs, p),
         refs' \in [Slots -> Recons \cup {Nil}],
         Fits(pkt, frameNum, refs, refs', inputs'),
         UNCHANGED <<decoded, shown>>
  PROVE  InStep'
<1>1. PICK trail \in [0 .. Len(packets) -> [Slots -> Recons \cup {Nil}]] : Leads(trail)
  BY DEF IInv, InStep
<1> DEFINE n == Len(packets)
           longer == [k \in 0 .. n + 1 |-> IF k = n + 1 THEN refs' ELSE trail[k]]
<1>2. packets \in Seq(Key \cup Inter \cup Show) /\ inputs \in Seq(Pictures)
  BY DEF IInv, TypeOK
<1>3. n \in Nat /\ Len(packets') = n + 1 /\ packets'[n + 1] = pkt
  BY <1>2
<1>4. \A i \in 1 .. n : packets'[i] = packets[i]
  BY <1>2
<1>5. Len(shown) + n = frameNum /\ Len(inputs) = frameNum /\ Len(shown) \in Nat /\ frameNum \in Nat
  BY DEF IInv, Counted, TypeOK
<1>6. \A k \in 1 .. frameNum : inputs'[k] = inputs[k]
  BY <1>2, <1>5
<1>7. trail[0] = decoded /\ trail[n] = refs
  BY <1>1 DEF Leads
<1>8. ASSUME NEW i \in 1 .. n
      PROVE  Fits(packets'[i], Len(shown) + i - 1, longer[i - 1], longer[i], inputs')
  <2> DEFINE pts == Len(shown) + i - 1
  <2>1. Fits(packets[i], pts, trail[i - 1], trail[i], inputs)
    BY <1>1 DEF Leads
  <2>2. longer[i - 1] = trail[i - 1] /\ longer[i] = trail[i]
    BY <1>3
  <2>3. pts \in Nat /\ pts + 1 \in 1 .. frameNum /\ \A f \in 0 .. pts - 1 : f + 1 \in 1 .. frameNum
    BY <1>3, <1>5
  <2> HIDE DEF pts, longer, n
  <2>4. Fits(packets[i], pts, trail[i - 1], trail[i], inputs')
    BY <1>6, <2>1, <2>3 DEF Fits
  <2> QED
    BY <1>4, <2>2, <2>4 DEF pts, n
<1>9. Fits(packets'[n + 1], Len(shown) + (n + 1) - 1, longer[(n + 1) - 1], longer[n + 1], inputs')
  <2>1. longer[n] = refs /\ longer[n + 1] = refs' /\ (n + 1) - 1 = n /\ Len(shown) + (n + 1) - 1 = frameNum
    BY <1>3, <1>5, <1>7
  <2> QED
    BY <1>3, <2>1
<1>10. longer \in [0 .. Len(packets') -> [Slots -> Recons \cup {Nil}]]
  BY <1>1, <1>3
<1>11. longer[0] = decoded /\ longer[n + 1] = refs'
  BY <1>3, <1>7
<1>12. PICK way : way = longer
  OBVIOUS
<1>13. Leads(way)'
  <2>1. \A i \in 1 .. n + 1 : i \in 1 .. n \/ i = n + 1
    BY <1>3
  <2>2. \A i \in 1 .. n + 1 : Fits(packets'[i], Len(shown) + i - 1, way[i - 1], way[i], inputs')
    BY <1>8, <1>9, <1>12, <2>1
  <2>3. way[0] = decoded /\ way[n + 1] = refs'
    BY <1>11, <1>12
  <2> HIDE DEF longer, n
  <2> QED
    BY <1>3, <2>2, <2>3 DEF Leads
<1> QED
  BY <1>10, <1>12, <1>13 DEF InStep

\* What the three kinds of packets have in common.
LEMMA Sent ==
  ASSUME IInv, NEW p \in Pictures, SendPicture(p),
         NEW pkt \in Key \cup Inter \cup Show, packets' = Append(packets, pkt),
         refs' \in [Slots -> Recons \cup {Nil}], mgr' \in Manager, RingOrdered',
         Fits(pkt, frameNum, refs, refs', inputs'),
         inputs'[refs'[mgr'.latest] + 1] = p
  PROVE  IInv'
<1>1. /\ ~closed /\ ~closed' /\ frameNum \in 0 .. MaxFrames - 1 /\ frameNum' = frameNum + 1
      /\ inputs' = Append(inputs, p) /\ last' = p
      /\ UNCHANGED <<flushing, closed, decoded, shown>>
  BY EncoderAssumption DEF SendPicture, Open, IInv, TypeOK
<1>2. packets \in Seq(Key \cup Inter \cup Show) /\ inputs \in Seq(Pictures)
      /\ shown \in Seq([frame : Recons \cup {Nil, Drift}, pts : Nat])
  BY DEF IInv, TypeOK
<1>3. TypeOK'
  <2>1. frameNum' \in 0 .. MaxFrames
    BY <1>1, EncoderAssumption
  <2>2. packets' \in Seq(Key \cup Inter \cup Show) /\ inputs' \in Seq(Pictures)
    BY <1>1, <1>2
  <2> QED
    BY <1>1, <2>1, <2>2 DEF IInv, TypeOK
<1>4. Counted'
  <2>1. Len(inputs') = Len(inputs) + 1 /\ Len(packets') = Len(packets) + 1 /\ Len(shown') = Len(shown)
    BY <1>1, <1>2
  <2> QED
    BY <1>1, <1>2, <2>1 DEF IInv, Counted
<1>5. LatestIsLast'
  BY <1>1 DEF LatestIsLast
<1>6. InStep'
  BY <1>1, TrailExtended
<1>7. ShownInOrder'
  <2>1. \A k \in 1 .. frameNum : inputs'[k] = inputs[k]
    BY <1>1, <1>2 DEF IInv, Counted
  <2>2. ASSUME NEW i \in DOMAIN shown
        PROVE  i \in 1 .. frameNum /\ \A f \in 0 .. i - 1 : f + 1 \in 1 .. frameNum
    BY <1>1, <1>2 DEF IInv, Counted
  <2> QED
    BY <1>1, <2>1, <2>2 DEF IInv, ShownInOrder
<1> QED
  BY <1>3, <1>4, <1>5, <1>6, <1>7 DEF IInv

\* The first picture is a key frame.
LEMMA SendKeyKeeps ==
  ASSUME IInv, NEW p \in Pictures, SendPicture(p), frameNum = 0
  PROVE  IInv'
<1> DEFINE pkt == [kind |-> "key", frame |-> frameNum, pts |-> frameNum]
<1>1. frameNum' = 1 /\ inputs' = Append(inputs, p) /\ inputs \in Seq(Pictures) /\ Len(inputs) = 0
  BY DEF SendPicture, IInv, TypeOK, Counted
<1>2. 0 \in Recons
  BY EncoderAssumption DEF SendPicture, Recons
<1>3. packets' = Append(packets, pkt) /\ refs' = [s \in Slots |-> frameNum] /\ mgr' = ResetKey
  BY DEF SendPicture, Repeated, EncodeFrame
<1>4. pkt \in Key
  BY <1>2 DEF Key
<1>5. mgr' \in Manager
  BY <1>3 DEF ResetKey, Manager, Slots
<1>6. RingOrdered'
  <2>1. mgr'.history = Ring(0, 1) /\ mgr'.next = (0 + 1) % 8 /\ mgr'.latest = 0 /\ mgr'.ready = TRUE
    BY <1>3, RingStarts DEF ResetKey
  <2>2. \A s \in Slots : refs'[s] = 0
    BY <1>3
  <2>3. ASSUME NEW s \in Slots, NEW u \in Slots, Age(0, s) < Age(0, u)
        PROVE  ~(Age(0, u) < 1)
    <3>1. 0 \in Slots
      BY DEF Slots
    <3> QED
      BY <2>3, <3>1, AgesAdvance
  <2>4. InRing(1)'
    BY <2>1, <2>2, <2>3 DEF InRing
  <2>5. 1 \in 1 .. 8
    OBVIOUS
  <2> QED
    BY <1>1, <2>1, <2>2, <2>4, <2>5 DEF RingOrdered
<1>7. Fits(pkt, frameNum, refs, refs', inputs')
  BY <1>3 DEF Fits
<1>8. inputs'[refs'[mgr'.latest] + 1] = p
  <2>1. refs'[mgr'.latest] = 0
    BY <1>3 DEF ResetKey, Slots
  <2> QED
    BY <1>1, <2>1
<1>9. refs' \in [Slots -> Recons \cup {Nil}]
  BY <1>2, <1>3
<1> HIDE DEF pkt
<1> QED
  BY <1>3, <1>4, <1>5, <1>6, <1>7, <1>8, <1>9, Sent

\* A repeated picture is shown from the newest slot.
LEMMA SendShowKeeps ==
  ASSUME IInv, NEW p \in Pictures, SendPicture(p), Repeated(p)
  PROVE  IInv'
<1> DEFINE pkt == [kind |-> "show", slot |-> Latest(mgr), pts |-> frameNum]
<1>1. /\ frameNum > 0 /\ last = p /\ ~closed /\ frameNum \in Nat /\ frameNum' = frameNum + 1
      /\ inputs' = Append(inputs, p) /\ inputs \in Seq(Pictures) /\ Len(inputs) = frameNum
  BY DEF SendPicture, Repeated, Open, IInv, TypeOK, Counted
<1>2. packets' = Append(packets, pkt) /\ UNCHANGED <<refs, mgr>>
  BY DEF SendPicture, EncodeShowExisting
<1>3. /\ Latest(mgr) = mgr.latest /\ mgr.latest \in Slots
      /\ \A s \in Slots : refs[s] \in 0 .. frameNum - 1 /\ refs[s] <= refs[mgr.latest]
  BY <1>1, NewestFrame DEF IInv, Latest
<1>4. pkt \in Show
  BY <1>1, <1>3 DEF Show
<1>5. inputs[refs[mgr.latest] + 1] = p
  BY <1>1 DEF IInv, LatestIsLast
<1>6. inputs'[refs[mgr.latest] + 1] = p /\ inputs'[frameNum + 1] = p
  <2>1. refs[mgr.latest] + 1 \in 1 .. frameNum
    BY <1>1, <1>3
  <2> QED
    BY <1>1, <1>5, <2>1
<1>7. refs[mgr.latest] = 0 => refs = [s \in Slots |-> 0]
  <2>1. refs = [s \in Slots |-> refs[s]]
    BY DEF IInv, TypeOK
  <2>2. refs[mgr.latest] = 0 => \A s \in Slots : refs[s] = 0
    BY <1>1, <1>3
  <2> QED
    BY <2>1, <2>2
<1>8. Fits(pkt, frameNum, refs, refs', inputs')
  BY <1>2, <1>3, <1>6, <1>7 DEF Fits
<1>9. refs' \in [Slots -> Recons \cup {Nil}] /\ mgr' \in Manager
  BY <1>2 DEF IInv, TypeOK
<1>10. RingOrdered'
  <2>1. PICK n \in 1 .. 8 : InRing(n)
    BY <1>1 DEF IInv, RingOrdered
  <2>2. InRing(n)'
    BY <1>2, <2>1 DEF InRing
  <2>3. mgr'.ready /\ \A s \in Slots : refs'[s] \in 0 .. frameNum' - 1
    BY <1>1, <1>2, <1>3 DEF IInv, RingOrdered
  <2> QED
    BY <1>1, <2>2, <2>3 DEF RingOrdered
<1> HIDE DEF pkt
<1> QED
  BY <1>2, <1>4, <1>6, <1>8, <1>9, <1>10, Sent

\* Any other picture refreshes the oldest slot.
LEMMA SendInterKeeps ==
  ASSUME IInv, NEW p \in Pictures, SendPicture(p), frameNum # 0, ~Repeated(p)
  PROVE  IInv'
<1> DEFINE plan == PlanInter(mgr)
           pkt == [kind |-> "inter", frame |-> frameNum, pts |-> frameNum,
                   refresh |-> plan.refresh, refIdx |-> plan.refIdx,
                   from |-> [i \in RefTypes |-> refs[plan.refIdx[i]]]]
           new == (mgr.latest + 1) % 8
<1>1. /\ frameNum \in 0 .. MaxFrames - 1 /\ frameNum > 0 /\ frameNum' = frameNum + 1
      /\ inputs' = Append(inputs, p) /\ inputs \in Seq(Pictures) /\ Len(inputs) = frameNum
  BY EncoderAssumption DEF SendPicture, IInv, TypeOK, Counted
<1>2. PICK n \in 1 .. 8 : InRing(n)
  BY <1>1 DEF IInv, RingOrdered
<1>3. /\ mgr.latest \in Slots /\ mgr.next \in Slots /\ mgr.next = new
      /\ plan.refIdx \in [RefTypes -> Slots] /\ plan.refresh = {new} /\ plan.target = new
      /\ mgr.history = Ring(mgr.latest, n)
  BY <1>1, <1>2, ManagerType DEF IInv, InRing
<1>4. /\ packets' = Append(packets, pkt) /\ refs' = [refs EXCEPT ![plan.target] = frameNum]
      /\ mgr' = CommitInter(mgr, plan.target)
  BY <1>1 DEF SendPicture, EncodeInterFrame
<1> HIDE DEF plan
<1>5. refs \in [Slots -> Recons \cup {Nil}] /\ frameNum \in Recons /\ frameNum \in Nat
  BY <1>1, EncoderAssumption DEF IInv, TypeOK, Recons
<1>6. refs' \in [Slots -> Recons \cup {Nil}] /\ refs' = [s \in Slots |-> IF s = new THEN frameNum ELSE refs[s]]
  BY <1>3, <1>4, <1>5
<1>7. pkt \in Inter
  BY <1>3, <1>5 DEF Inter
<1>8. Fits(pkt, frameNum, refs, refs', inputs')
  <2>1. \A i \in RefTypes : plan.refIdx[i] \in Slots
    BY <1>3
  <2> QED
    BY <1>3, <1>6, <2>1 DEF Fits
<1> DEFINE size == IF n = 8 THEN 8 ELSE n + 1
<1>9. /\ mgr'.latest = new /\ mgr'.next = (new + 1) % 8 /\ mgr'.ready = TRUE
      /\ mgr'.history = Ring(new, size) /\ new \in Slots /\ size \in 1 .. 8
      /\ mgr' = [latest |-> new, next |-> (new + 1) % 8, history |-> Ring(new, size), ready |-> TRUE]
  <2>1. Rotated(mgr.history, new) = Ring(new, size)
    BY <1>3, RotatedHistory
  <2>2. new \in Slots /\ size \in 1 .. 8
    BY <1>3
  <2> HIDE DEF new, size
  <2>3. mgr' = [latest |-> new, next |-> (new + 1) % 8, history |-> Ring(new, size), ready |-> TRUE]
    BY <1>3, <1>4, <2>1 DEF CommitInter
  <2> QED
    BY <2>2, <2>3
<1>10. mgr' \in Manager
  <2>1. Ring(new, size) \in Seq(Slots) /\ (new + 1) % 8 \in Slots
    BY <1>9, RingType, AgesAdvance
  <2> HIDE DEF new, size
  <2> QED
    BY <1>9, <2>1 DEF Manager
<1>11. RingOrdered'
  <2>1. \A s \in Slots : refs[s] \in 0 .. frameNum - 1
    BY <1>1 DEF IInv, RingOrdered
  <2>2. ASSUME NEW s \in Slots, NEW u \in Slots, Age(new, s) < Age(new, u)
        PROVE  refs'[s] >= refs'[u] /\ (Age(new, u) < size => refs'[s] > refs'[u])
    <3>1. /\ Age(new, s) = IF s = new THEN 0 ELSE Age(mgr.latest, s) + 1
          /\ Age(new, u) = IF u = new THEN 0 ELSE Age(mgr.latest, u) + 1
          /\ Age(mgr.latest, s) \in 0 .. 7 /\ Age(mgr.latest, u) \in 0 .. 7
      BY <1>3, AgesAdvance
    <3>2. u # new
      <4>1. Age(new, s) \in 0 .. 7
        BY <1>9, AgesAdvance
      <4> QED
        BY <2>2, <3>1, <4>1
    <3>3. CASE s = new
      BY <1>1, <1>6, <2>1, <3>2, <3>3
    <3>4. CASE s # new
      <4>1. refs'[s] = refs[s] /\ refs'[u] = refs[u]
        BY <1>6, <3>2, <3>4
      <4>2. Age(mgr.latest, s) < Age(mgr.latest, u)
        BY <2>2, <3>1, <3>2, <3>4
      <4>3. refs[s] >= refs[u] /\ (Age(mgr.latest, u) < n => refs[s] > refs[u])
        BY <1>2, <4>2 DEF InRing
      <4>4. Age(new, u) < size => Age(mgr.latest, u) < n
        BY <3>1, <3>2
      <4> QED
        BY <4>1, <4>3, <4>4
    <3> QED
      BY <3>3, <3>4
  <2>3. \A s \in Slots : refs'[s] \in 0 .. frameNum' - 1
    BY <1>1, <1>6, <2>1
  <2> HIDE DEF new, size
  <2>4. PICK m \in 1 .. 8 : m = size
    BY <1>9
  <2>5. InRing(m)'
    BY <1>9, <2>2, <2>4 DEF InRing
  <2> QED
    BY <1>1, <1>9, <2>3, <2>5 DEF RingOrdered
<1>12. inputs'[refs'[mgr'.latest] + 1] = p
  <2>1. refs'[mgr'.latest] = frameNum
    BY <1>6, <1>9
  <2> QED
    BY <1>1, <2>1
<1> HIDE DEF pkt, new, size
<1> QED
  BY <1>4, <1>6, <1>7, <1>8, <1>10, <1>11, <1>12, Sent

\* The decoder makes of a packet that fits what the encoder made, and shows
\* the picture that was sent.
LEMMA Decoded ==
  ASSUME IInv, NEW pkt \in Key \cup Inter \cup Show, NEW pts \in 0 .. frameNum - 1,
         NEW after \in [Slots -> Recons \cup {Nil}], Fits(pkt, pts, decoded, after, inputs),
         DecodeKey(pkt) \/ DecodeInter(pkt) \/ DecodeShow(pkt)
  PROVE  /\ decoded' = after
         /\ \E f \in 0 .. pts : /\ shown' = Append(shown, [frame |-> f, pts |-> pts])
                                /\ inputs[f + 1] = inputs[pts + 1]
<1>1. decoded \in [Slots -> Recons \cup {Nil, Drift}]
  BY DEF IInv, TypeOK
<1>2. CASE DecodeKey(pkt)
  <2>1. pkt.kind = "key" /\ pkt.frame = pts /\ pkt.pts = pts /\ after = [s \in Slots |-> pts]
    BY <1>2 DEF DecodeKey, Fits
  <2> QED
    BY <1>2, <2>1 DEF DecodeKey, Refreshed, Shows
<1>3. CASE DecodeInter(pkt)
  <2>1. /\ pkt.kind = "inter" /\ pkt.frame = pts /\ pkt.pts = pts
        /\ \A i \in RefTypes : decoded[pkt.refIdx[i]] = pkt.from[i]
        /\ after = [s \in Slots |-> IF s \in pkt.refresh THEN pts ELSE decoded[s]]
    BY <1>3 DEF DecodeInter, Fits
  <2> QED
    BY <1>3, <2>1 DEF DecodeInter, Refreshed, Shows
<1>4. CASE DecodeShow(pkt)
  <2>1. /\ pkt.kind = "show" /\ pkt.slot \in Slots /\ pkt.pts = pts
        /\ decoded[pkt.slot] \in 0 .. pts - 1
        /\ inputs[decoded[pkt.slot] + 1] = inputs[pts + 1]
        /\ decoded[pkt.slot] = 0 => decoded = [s \in Slots |-> 0]
        /\ after = decoded
    BY <1>4 DEF DecodeShow, Fits
  <2>2. decoded' = decoded
    <3>1. CASE UNCHANGED decoded
      BY <3>1
    <3>2. CASE decoded[pkt.slot] = 0 /\ decoded' = Refreshed(Slots, decoded[pkt.slot])
      BY <2>1, <3>2 DEF Refreshed
    <3> QED
      BY <1>4, <3>1, <3>2 DEF DecodeShow
  <2>3. shown' = Append(shown, [frame |-> decoded[pkt.slot], pts |-> pts])
    BY <1>4, <2>1 DEF DecodeShow, Shows
  <2>4. decoded[pkt.slot] \in 0 .. pts
    BY <2>1
  <2> QED
    BY <2>1, <2>2, <2>3, <2>4
<1> QED
  BY <1>2, <1>3, <1>4

\* The first packet is decoded.
LEMMA ReceiveKeeps ==
  ASSUME IInv, ReceivePacket
  PROVE  IInv'
<1> DEFINE n == Len(packets)
           pts == Len(shown)
<1>1. /\ ~closed /\ packets # <<>> /\ packets' = Tail(packets)
      /\ DecodeKey(packets[1]) \/ DecodeInter(packets[1]) \/ DecodeShow(packets[1])
      /\ UNCHANGED <<frameNum, flushing, closed, last, refs, mgr, inputs>>
  BY DEF ReceivePacket, Open
<1>2. packets \in Seq(Key \cup Inter \cup Show) /\ inputs \in Seq(Pictures)
      /\ shown \in Seq([frame : Recons \cup {Nil, Drift}, pts : Nat])
      /\ frameNum \in 0 .. MaxFrames
  BY DEF IInv, TypeOK
<1>3. n \in Nat /\ n >= 1 /\ Len(packets') = n - 1 /\ \A i \in 1 .. n - 1 : packets'[i] = packets[i + 1]
  BY <1>1, <1>2
<1>4. packets[1] \in Key \cup Inter \cup Show /\ packets' \in Seq(Key \cup Inter \cup Show)
  BY <1>1, <1>2, <1>3
<1>5. pts + n = frameNum /\ pts \in 0 .. frameNum - 1 /\ Len(inputs) = frameNum
  BY <1>1, <1>2, <1>3 DEF IInv, Counted
<1>6. PICK trail \in [0 .. n -> [Slots -> Recons \cup {Nil}]] : Leads(trail)
  BY <1>1 DEF IInv, InStep
<1>7. Fits(packets[1], pts, decoded, trail[1], inputs) /\ trail[1] \in [Slots -> Recons \cup {Nil}]
  <2>1. 1 \in 1 .. n /\ 1 \in 0 .. n /\ pts + 1 - 1 = pts /\ 1 - 1 = 0
    BY <1>2, <1>3
  <2> HIDE DEF n, pts
  <2> QED
    BY <1>6, <2>1 DEF Leads, n, pts
<1>8. decoded' = trail[1]
  BY <1>1, <1>4, <1>5, <1>7, Decoded
<1>9. PICK f \in 0 .. pts : /\ shown' = Append(shown, [frame |-> f, pts |-> pts])
                            /\ inputs[f + 1] = inputs[pts + 1]
  BY <1>1, <1>4, <1>5, <1>7, Decoded
<1>10. Len(shown') = pts + 1 /\ shown'[pts + 1] = [frame |-> f, pts |-> pts]
       /\ DOMAIN shown' = 1 .. pts + 1 /\ \A i \in 1 .. pts : shown'[i] = shown[i]
  BY <1>2, <1>9
<1>11. TypeOK'
  <2>1. f \in Recons /\ pts \in Nat
    BY <1>2, <1>5, EncoderAssumption DEF Recons
  <2>2. shown' \in Seq([frame : Recons \cup {Nil, Drift}, pts : Nat])
    BY <1>2, <1>9, <2>1
  <2>3. decoded' \in [Slots -> Recons \cup {Nil, Drift}]
    BY <1>7, <1>8
  <2> QED
    BY <1>1, <1>4, <2>2, <2>3 DEF IInv, TypeOK
<1>12. RingOrdered'
  BY <1>1 DEF IInv, RingOrdered, InRing
<1>13. Counted'
  BY <1>1, <1>3, <1>5, <1>10 DEF Counted
<1>14. LatestIsLast'
  BY <1>1 DEF IInv, LatestIsLast
<1>15. ShownInOrder'
  <2>1. \A i \in 1 .. pts : shown[i].pts = i - 1 /\ shown[i].frame \in 0 .. i - 1 /\ inputs[shown[i].frame + 1] = inputs[i]
    BY <1>2 DEF IInv, ShownInOrder
  <2>2. ASSUME NEW i \in 1 .. pts + 1
        PROVE  /\ shown'[i].pts = i - 1 /\ shown'[i].frame \in 0 .. i - 1
               /\ inputs'[shown'[i].frame + 1] = inputs'[i]
    <3>1. CASE i \in 1 .. pts
      BY <1>1, <1>10, <2>1, <3>1
    <3>2. CASE i = pts + 1
      BY <1>1, <1>5, <1>9, <1>10, <3>2
    <3> QED
      BY <1>5, <3>1, <3>2
  <2> HIDE DEF pts
  <2> QED
    BY <1>10, <2>2 DEF ShownInOrder
<1>16. InStep'
  <2> DEFINE shorter == [k \in 0 .. n - 1 |-> trail[k + 1]]
  <2>1. shorter \in [0 .. n - 1 -> [Slots -> Recons \cup {Nil}]]
    BY <1>3, <1>6
  <2>2. shorter[0] = decoded' /\ shorter[n - 1] = refs'
    BY <1>1, <1>3, <1>6, <1>8 DEF Leads
  <2>3. ASSUME NEW i \in 1 .. n - 1
        PROVE  Fits(packets'[i], Len(shown') + i - 1, shorter[i - 1], shorter[i], inputs')
    <3>1. i + 1 \in 1 .. n /\ (i + 1) - 1 = i /\ pts + (i + 1) - 1 = (pts + 1) + i - 1
      BY <1>3, <1>5
    <3>2. Fits(packets[i + 1], pts + (i + 1) - 1, trail[(i + 1) - 1], trail[i + 1], inputs)
      BY <1>6, <3>1 DEF Leads
    <3>3. shorter[i - 1] = trail[i] /\ shorter[i] = trail[i + 1]
      BY <1>3
    <3> HIDE DEF shorter, n, pts
    <3> QED
      BY <1>1, <1>3, <1>10, <3>1, <3>2, <3>3
  <2>4. PICK way : way = shorter
    OBVIOUS
  <2>5. Leads(way)'
    <3> HIDE DEF shorter, n, pts
    <3> QED
      BY <1>3, <2>2, <2>3, <2>4 DEF Leads
  <2>6. way \in [0 .. Len(packets') -> [Slots -> Recons \cup {Nil}]]
    BY <1>3, <2>1, <2>4
  <2> QED
    BY <2>5, <2>6 DEF InStep
<1> QED
  BY <1>11, <1>12, <1>13, <1>14, <1>15, <1>16 DEF IInv

\* Steps that touch neither packets nor slots.
LEMMA OthersKeep ==
  ASSUME IInv, Flush \/ Close \/ UNCHANGED vars
  PROVE  IInv'
<1>1. CASE Flush \/ UNCHANGED vars
  <2>1. flushing' \in BOOLEAN /\ UNCHANGED <<frameNum, closed, packets, last, refs, mgr, inputs, decoded, shown>>
    BY <1>1 DEF Flush, vars, encVars, IInv, TypeOK
  <2>2. TypeOK'
    BY <2>1 DEF IInv, TypeOK
  <2>3. InStep' /\ ShownInOrder'
    BY <2>1 DEF IInv, InStep, Leads, ShownInOrder
  <2>4. RingOrdered' /\ Counted' /\ LatestIsLast'
    BY <2>1 DEF IInv, RingOrdered, InRing, Counted, LatestIsLast
  <2> QED
    BY <2>2, <2>3, <2>4 DEF IInv
<1>2. CASE Close
  <2>1. closed' = TRUE /\ packets' = <<>> /\ last' = Nil
        /\ UNCHANGED <<frameNum, flushing, refs, mgr, inputs, decoded, shown>>
    BY <1>2 DEF Close
  <2>2. TypeOK'
    BY <2>1 DEF IInv, TypeOK
  <2>3. InStep' /\ ShownInOrder'
    BY <2>1 DEF IInv, InStep, ShownInOrder
  <2>4. RingOrdered' /\ Counted' /\ LatestIsLast'
    BY <2>1 DEF IInv, RingOrdered, InRing, Counted, LatestIsLast
  <2> QED
    BY <2>2, <2>3, <2>4 DEF IInv
<1> QED
  BY <1>1, <1>2

-----------------------------------------------------------------------------
(* The theorems. *)

\* The manager's history, the packets on their way and what the decoder has
\* shown stay as IInv says, whatever is sent and however late it is received.
THEOREM EncoderInvariant == Spec => []IInv
<1>1. Init => IInv
  BY InvariantStarts
<1>2. IInv /\ [Next]_vars => IInv'
  <2> SUFFICES ASSUME IInv, [Next]_vars PROVE IInv'
    OBVIOUS
  <2>1. ASSUME NEW p \in Pictures, SendPicture(p) PROVE IInv'
    BY <2>1, SendKeyKeeps, SendShowKeeps, SendInterKeeps
  <2>2. CASE ReceivePacket
    BY <2>2, ReceiveKeeps
  <2>3. CASE Flush \/ Close \/ UNCHANGED vars
    BY <2>3, OthersKeep
  <2> QED
    BY <2>1, <2>2, <2>3 DEF Next
<1> QED
  BY <1>1, <1>2, PTL DEF Spec

\* Every variable of Encoder keeps its type.
THEOREM EncoderTypes == Spec => []TypeOK
<1>1. IInv => TypeOK
  BY DEF IInv
<1> QED
  BY <1>1, EncoderInvariant, PTL

\* The decoder's slots are those core.FrameEncoder predicts from, once all
\* packets are taken.
THEOREM SlotsStayInSync == Spec => []SlotsInSync
<1>1. IInv => SlotsInSync
  <2> SUFFICES ASSUME IInv, packets = <<>>, ~closed PROVE decoded = refs
    BY DEF SlotsInSync
  <2>1. PICK trail \in [0 .. Len(packets) -> [Slots -> Recons \cup {Nil}]] : Leads(trail)
    BY DEF IInv, InStep
  <2>2. Len(packets) = 0
    OBVIOUS
  <2> QED
    BY <2>1, <2>2 DEF Leads
<1> QED
  BY <1>1, EncoderInvariant, PTL

\* What SendPicture was given comes out of the decoder, in order, each once.
THEOREM OutputIsFaithful == Spec => []OutputFaithful
<1>1. IInv => OutputFaithful
  <2> SUFFICES ASSUME IInv, NEW i \in DOMAIN shown
               PROVE  /\ shown[i].pts = i - 1
                      /\ shown[i].frame \in Recons
                      /\ inputs[shown[i].frame + 1] = inputs[i]
    BY DEF OutputFaithful
  <2>1. /\ shown[i].pts = i - 1 /\ shown[i].frame \in 0 .. i - 1
        /\ inputs[shown[i].frame + 1] = inputs[i]
    BY DEF IInv, ShownInOrder
  <2>2. i \in Nat /\ i <= MaxFrames
    BY EncoderAssumption DEF IInv, Counted, TypeOK
  <2> QED
    BY <2>1, <2>2, EncoderAssumption DEF Recons
<1> QED
  BY <1>1, EncoderInvariant, PTL

\* reference.Manager's history is ordered by age, and the slot that the next
\* frame takes is the oldest and none of its references.
THEOREM HistoryStaysOrdered == Spec => []HistoryOrdered
<1>1. IInv => HistoryOrdered
  <2> SUFFICES ASSUME IInv, mgr.ready PROVE HistoryOrdered
    BY DEF HistoryOrdered
  <2>1. frameNum > 0
    BY DEF IInv, RingOrdered
  <2>2. PICK n \in 1 .. 8 : InRing(n)
    BY <2>1 DEF IInv, RingOrdered
  <2>3. /\ mgr.latest \in Slots /\ mgr.next \in Slots /\ Len(mgr.history) = n
        /\ mgr.history = Ring(mgr.latest, n)
        /\ \A i \in RefTypes : PlanInter(mgr).refIdx[i] # mgr.next
    BY <2>1, <2>2, ManagerType DEF IInv
  <2>4. mgr.history[1] = mgr.latest /\ DOMAIN mgr.history = 1 .. n
    <3>1. 1 \in 1 .. n
      OBVIOUS
    <3>2. Ring(mgr.latest, n)[1] = mgr.latest
      BY <2>3, <3>1, AgesInRing
    <3> QED
      BY <2>3, <3>2 DEF Ring
  <2>5. ASSUME NEW i \in 1 .. n, NEW j \in 1 .. n, i < j
        PROVE  refs[mgr.history[i]] > refs[mgr.history[j]]
    <3>1. /\ mgr.history[i] \in Slots /\ Age(mgr.latest, mgr.history[i]) = i - 1
          /\ mgr.history[j] \in Slots /\ Age(mgr.latest, mgr.history[j]) = j - 1
      <4>1. mgr.latest \in Slots /\ mgr.history = Ring(mgr.latest, n)
        BY <2>3
      <4>2. ASSUME NEW k \in 1 .. n
            PROVE  mgr.history[k] \in Slots /\ Age(mgr.latest, mgr.history[k]) = k - 1
        <5>1. Ring(mgr.latest, n)[k] \in Slots /\ Age(mgr.latest, Ring(mgr.latest, n)[k]) = k - 1
          BY <4>1, AgesInRing
        <5> QED
          BY <4>1, <5>1
      <4> QED
        BY <4>2
    <3>2. i - 1 < j - 1 /\ j - 1 < n
      BY <2>5
    <3> QED
      BY <2>2, <3>1, <3>2 DEF InRing
  <2>6. ASSUME NEW s \in Slots
        PROVE  refs[mgr.next] <= refs[s]
    <3>1. /\ Age(mgr.latest, s) \in 0 .. 7 /\ Age(mgr.latest, mgr.next) = 7
          /\ Age(mgr.latest, s) = 7 => s = mgr.next
      BY <2>2, <2>3, AgesAdvance DEF InRing
    <3>2. refs[s] \in Nat /\ refs[mgr.next] \in Nat
      BY <2>1, <2>3 DEF IInv, RingOrdered
    <3>3. CASE Age(mgr.latest, s) = 7
      BY <3>1, <3>2, <3>3
    <3>4. CASE Age(mgr.latest, s) < 7
      BY <2>2, <2>3, <3>1, <3>2, <3>4 DEF InRing
    <3> QED
      BY <3>1, <3>3, <3>4
  <2> QED
    BY <2>3, <2>4, <2>5, <2>6 DEF HistoryOrdered
<1> QED
  BY <1>1, EncoderInvariant, PTL
=============================================================================
