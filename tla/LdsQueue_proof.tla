--------------------------- MODULE LdsQueue_proof ---------------------------
(***************************************************************************)
(* Proofs about LdsQueue for every number of lidars, ring size and index   *)
(* width: the types, that the two threads never meet in a slot, that a     *)
(* ring is a channel, and what a missed wake-up leaves in the rings.       *)
(***************************************************************************)
EXTENDS LdsQueue, SequenceTheorems, TLAPS

-----------------------------------------------------------------------------
(* Arithmetic of the free-running indices. *)

(* Stepping an index adds one or wraps to zero. *)
LEMMA IncValue ==
  ASSUME NEW i \in Indices
  PROVE  Inc(i) = IF i = IndexModulus - 1 THEN 0 ELSE i + 1
  BY RingAssumption DEF Inc, Indices

(* The distance of two indices, with at most one wrap between them. *)
LEMMA UsedValue ==
  ASSUME NEW w \in Indices, NEW r \in Indices
  PROVE  Used(w, r) = IF w >= r THEN w - r ELSE w - r + IndexModulus
  BY RingAssumption DEF Used, Indices

(* Division with remainder. *)
LEMMA Division ==
  ASSUME NEW a \in Nat, NEW n \in Nat \ {0}
  PROVE  /\ a \div n \in Int
         /\ a % n \in Int
         /\ a = n * (a \div n) + (a % n)
  BY SMT

(* A multiple of n that is positive and smaller than n does not exist. *)
LEMMA NoSmallMultiple ==
  ASSUME NEW n \in Nat \ {0}, NEW q \in Int, n * q > 0
  PROVE  n * q >= n
  <1>1. CASE q <= 0
    BY <1>1
  <1>2. CASE q >= 1
    BY <1>2
  <1> QED BY <1>1, <1>2

(* Two indices less than a ring apart, and not equal, name different slots. *)
LEMMA SlotsDiffer ==
  ASSUME NEW w \in Indices, NEW r \in Indices, Used(w, r) > 0, Used(w, r) < Size
  PROVE  SlotOf(w) # SlotOf(r)
  <1> SUFFICES ASSUME w % Size = r % Size PROVE FALSE
    BY DEF SlotOf
  <1> DEFINE M == IndexModulus
             qw == w \div Size
             qr == r \div Size
             qm == M \div Size
  <1>1. Size \in Nat \ {0} /\ M \in Nat /\ M % Size = 0 /\ w \in Nat /\ r \in Nat
    BY RingAssumption DEF Indices
  <1>2. qw \in Int /\ w = Size * qw + (w % Size) /\ w % Size \in Int
    BY <1>1, Division
  <1>3. qr \in Int /\ r = Size * qr + (r % Size) /\ r % Size \in Int
    BY <1>1, Division
  <1>4. qm \in Int /\ M = Size * qm
    <2>1. qm \in Int /\ M = Size * qm + (M % Size)
      BY <1>1, Division
    <2> QED BY <1>1, <2>1
  <1> HIDE DEF qw, qr, qm, M
  <1>5. w - r = Size * (qw - qr)
    BY <1>1, <1>2, <1>3
  <1>6. w - r + M = Size * (qw - qr + qm)
    BY <1>1, <1>2, <1>3, <1>4, <1>5
  <1>7. CASE w >= r
    <2>1. Used(w, r) = Size * (qw - qr)
      BY <1>5, <1>7, UsedValue
    <2>2. qw - qr \in Int
      BY <1>2, <1>3
    <2>3. Size * (qw - qr) >= Size
      BY <1>1, <2>1, <2>2, NoSmallMultiple
    <2> QED BY <1>1, <1>5, <1>7, <2>1, <2>3
  <1>8. CASE ~(w >= r)
    <2>1. Used(w, r) = Size * (qw - qr + qm)
      BY <1>6, <1>8, UsedValue DEF M
    <2>2. qw - qr + qm \in Int
      BY <1>2, <1>3, <1>4
    <2>3. Size * (qw - qr + qm) >= Size
      BY <1>1, <2>1, <2>2, NoSmallMultiple
    <2> QED BY <1>1, <1>6, <1>8, <2>1, <2>3
  <1> QED BY <1>7, <1>8

-----------------------------------------------------------------------------
(* The inductive invariant. *)

Fill(l) == Used(wr[l], rd[l])

(* No ring holds more than Size packets, the one whose index step is still *)
(* in the store buffer included. *)
RingInv == \A l \in Lidars : Fill(l) <= Size /\ (pending = l => Fill(l) < Size)

(* The producer writes only where it saw room, and its last store of an    *)
(* index has become visible before. *)
ProducerInv == ppc \in {"write", "bump"} => pending = Nothing /\ Fill(pl) < Size

(* The producer signals an exhausted semaphore. *)
SignalInv == ppc = "signal" => count = 0

(* The poll thread copies only where it saw a packet. *)
ConsumerInv == /\ cpc \in {"poll", "drain", "copy", "update"} => ci \in Lidars
               /\ cpc \in {"copy", "update"} => Fill(ci) > 0

IInv == TypeOK /\ RingInv /\ ProducerInv /\ SignalInv /\ ConsumerInv

(* Fill is a number below IndexModulus; it is zero exactly when the indices *)
(* agree. *)
LEMMA FillValue ==
  ASSUME NEW w \in Indices, NEW r \in Indices
  PROVE  /\ Used(w, r) \in Nat
         /\ Used(w, r) = 0 <=> w = r
  BY UsedValue, RingAssumption DEF Indices

(* What a step of either index does to the fill of a ring. *)
LEMMA FillSteps ==
  ASSUME NEW w \in Indices, NEW r \in Indices, Used(w, r) <= Size
  PROVE  /\ Inc(w) \in Indices /\ Inc(r) \in Indices
         /\ Used(w, r) < Size => Used(Inc(w), r) = Used(w, r) + 1
         /\ Used(w, r) > 0 => Used(w, Inc(r)) = Used(w, r) - 1
  <1>1. Inc(w) \in Indices /\ Inc(r) \in Indices
    BY IncValue, RingAssumption DEF Indices
  <1>2. ASSUME Used(w, r) < Size PROVE Used(Inc(w), r) = Used(w, r) + 1
    <2>1. Used(w, r) = IF w >= r THEN w - r ELSE w - r + IndexModulus
      BY UsedValue
    <2>2. Used(Inc(w), r) = IF Inc(w) >= r THEN Inc(w) - r ELSE Inc(w) - r + IndexModulus
      BY <1>1, UsedValue
    <2>3. Inc(w) = IF w = IndexModulus - 1 THEN 0 ELSE w + 1
      BY IncValue
    <2> QED BY <1>2, <2>1, <2>2, <2>3, RingAssumption DEF Indices
  <1>3. ASSUME Used(w, r) > 0 PROVE Used(w, Inc(r)) = Used(w, r) - 1
    <2>1. Used(w, r) = IF w >= r THEN w - r ELSE w - r + IndexModulus
      BY UsedValue
    <2>2. Used(w, Inc(r)) = IF w >= Inc(r) THEN w - Inc(r) ELSE w - Inc(r) + IndexModulus
      BY <1>1, UsedValue
    <2>3. Inc(r) = IF r = IndexModulus - 1 THEN 0 ELSE r + 1
      BY IncValue
    <2> QED BY <1>3, <2>1, <2>2, <2>3, RingAssumption DEF Indices
  <1> QED BY <1>1, <1>2, <1>3

LEMMA SlotOfType ==
  ASSUME NEW i \in Indices
  PROVE  SlotOf(i) \in 0 .. Size - 1
  BY RingAssumption DEF SlotOf, Indices

LEMMA InitIInv == Init => IInv
  <1> SUFFICES ASSUME Init PROVE IInv
    OBVIOUS
  <1>1. 0 \in Indices /\ 1 \in Lidars /\ Used(0, 0) = 0
    BY LidarAssumption, RingAssumption, FillValue DEF Indices, Lidars
  <1>2. TypeOK
    BY <1>1, LidarAssumption DEF Init, TypeOK, Lidars
  <1>3. RingInv
    BY <1>1, RingAssumption, NoLidarAssumption DEF Init, RingInv, Fill, Lidars
  <1>4. ProducerInv /\ SignalInv /\ ConsumerInv
    BY DEF Init, ProducerInv, SignalInv, ConsumerInv
  <1> QED BY <1>2, <1>3, <1>4 DEF IInv

(* Every step of the two threads preserves the types. *)
LEMMA StepTypeOK == IInv /\ [Next]_vars => TypeOK'
  <1> SUFFICES ASSUME IInv, [Next]_vars PROVE TypeOK'
    OBVIOUS
  <1> USE DEF IInv, TypeOK, ring, producer, consumer
  <1>1. ASSUME NEW l \in Lidars, NEW p \in Packets, BeginPush(l, p) PROVE TypeOK'
    <2>1. SlotOf(wr[l]) \in 0 .. Size - 1
      BY SlotOfType
    <2>2. slot' \in [Lidars -> [0 .. Size - 1 -> Packets \cup {Torn, Nothing}]]
      <3>1. \/ slot' = slot
            \/ slot' = [slot EXCEPT ![l] = [slot[l] EXCEPT ![SlotOf(wr[l])] = Torn]]
        BY <1>1 DEF BeginPush
      <3>2. [slot[l] EXCEPT ![SlotOf(wr[l])] = Torn]
              \in [0 .. Size - 1 -> Packets \cup {Torn, Nothing}]
        OBVIOUS
      <3> QED BY <3>1, <3>2
    <2>3. /\ ppc' \in {"count", "write"} /\ pl' \in Lidars
          /\ packet' \in Packets \cup {Nothing}
      BY <1>1 DEF BeginPush, OnFull
    <2>4. UNCHANGED <<wr, rd, pending, count, sampling, cpc, ci, pkg, published, skipped, exit>>
      BY <1>1 DEF BeginPush
    <2> QED BY <2>2, <2>3, <2>4
  <1>2. CASE EndWrite
    BY <1>2 DEF EndWrite
  <1>3. CASE StepWr
    BY <1>3 DEF StepWr
  <1>4. CASE StoreVisible
    <2>1. pending \in Lidars /\ wr[pending] \in Indices
      BY <1>4 DEF StoreVisible
    <2>2. Inc(wr[pending]) \in Indices
      BY <2>1, FillSteps DEF RingInv, Fill
    <2>3. wr' \in [Lidars -> Indices]
      BY <1>4, <2>1, <2>2 DEF StoreVisible
    <2>4. pending' \in Lidars \cup {Nothing}
      BY <1>4 DEF StoreVisible
    <2> QED BY <1>4, <2>3, <2>4 DEF StoreVisible
  <1>5. CASE CheckEmpty
    BY <1>5 DEF CheckEmpty
  <1>6. CASE GetCount
    BY <1>6 DEF GetCount
  <1>7. CASE Signal
    BY <1>7 DEF Signal, SignalInv
  <1>8. CASE Distribute
    BY <1>8 DEF Distribute
  <1>9. CASE Wait
    BY <1>9, LidarAssumption DEF Wait
  <1>10. CASE Scan
    BY <1>10, LidarAssumption DEF Scan, Lidars
  <1>11. CASE EndScan
    BY <1>11 DEF EndScan
  <1>12. CASE Poll
    BY <1>12, LidarAssumption DEF Poll, Lidars, ConsumerInv
  <1>13. CASE Drain
    BY <1>13 DEF Drain
  <1>14. CASE PrePop
    <2>1. ci \in Lidars /\ SlotOf(rd[ci]) \in 0 .. Size - 1
      BY <1>14, SlotOfType DEF PrePop, ConsumerInv
    <2> QED BY <1>14, <2>1 DEF PrePop
  <1>15. CASE PopUpdate
    BY <1>15, FillSteps DEF PopUpdate, ConsumerInv, RingInv, Fill
  <1>16. CASE PollFuture
    BY <1>16 DEF PollFuture
  <1>17. ASSUME NEW l \in Lidars, StartSampling(l) PROVE TypeOK'
    BY <1>17 DEF StartSampling
  <1>18. CASE RequestExit
    BY <1>18 DEF RequestExit
  <1>19. CASE SetExitSignal
    BY <1>19 DEF SetExitSignal
  <1>20. CASE UNCHANGED vars
    BY <1>20 DEF vars
  <1> QED
    BY <1>1, <1>2, <1>3, <1>4, <1>5, <1>6, <1>7, <1>8, <1>9, <1>10, <1>11, <1>12, <1>13, <1>14,
       <1>15, <1>16, <1>17, <1>18, <1>19, <1>20 DEF Next, Push, Finish, PollThread

(* Every step of the two threads preserves what they know of the rings. *)
LEMMA StepRings ==
  IInv /\ [Next]_vars => (RingInv /\ ProducerInv /\ SignalInv /\ ConsumerInv)'
  <1> SUFFICES ASSUME IInv, [Next]_vars
               PROVE  (RingInv /\ ProducerInv /\ SignalInv /\ ConsumerInv)'
    OBVIOUS
  <1> DEFINE Rings == RingInv /\ ProducerInv /\ SignalInv /\ ConsumerInv
  <1> USE DEF IInv, RingInv, ProducerInv, SignalInv, ConsumerInv, Fill, ring, producer, consumer
  <1>a. /\ \A l \in Lidars : wr[l] \in Indices /\ rd[l] \in Indices
        /\ pl \in Lidars /\ Size \in Nat
        /\ \A l \in Lidars : Used(wr[l], rd[l]) \in Nat
    BY FillValue, RingAssumption DEF TypeOK
  <1>1. ASSUME NEW l \in Lidars, NEW p \in Packets, BeginPush(l, p) PROVE Rings'
    <2>1. ppc' = "write" => Used(wr[l], rd[l]) < Size
      BY <1>1, <1>a, NoLidarAssumption DEF BeginPush, OnFull, IsFull, OwnWr, Lidars
    <2> QED BY <1>1, <1>a, <2>1 DEF BeginPush, OnFull
  <1>2. CASE EndWrite
    BY <1>2 DEF EndWrite
  <1>3. CASE StepWr
    BY <1>3, <1>a DEF StepWr
  <1>4. CASE StoreVisible
    <2>1. pending \in Lidars
      BY <1>4 DEF StoreVisible, TypeOK
    <2>2. Used(Inc(wr[pending]), rd[pending]) = Used(wr[pending], rd[pending]) + 1
      BY <1>a, <2>1, FillSteps
    <2>3. ppc \notin {"write", "bump"}
      BY <1>4 DEF StoreVisible
    <2>4. /\ wr' = [wr EXCEPT ![pending] = Inc(wr[pending])]
          /\ pending' = Nothing
          /\ UNCHANGED <<slot, rd, count, sampling, producer, consumer, exit>>
      BY <1>4 DEF StoreVisible
    <2>5. RingInv'
      BY <1>a, <2>1, <2>2, <2>4, NoLidarAssumption DEF TypeOK, Lidars
    <2>6. ConsumerInv'
      BY <1>a, <2>1, <2>2, <2>4 DEF TypeOK
    <2> QED BY <2>3, <2>4, <2>5, <2>6
  <1>5. CASE CheckEmpty
    BY <1>5 DEF CheckEmpty
  <1>6. CASE GetCount
    BY <1>6 DEF GetCount, MustSignal, TypeOK
  <1>7. CASE Signal
    BY <1>7 DEF Signal
  <1>8. CASE Distribute
    BY <1>8 DEF Distribute
  <1>9. CASE Wait
    BY <1>9 DEF Wait
  <1>10. CASE Scan
    BY <1>10 DEF Scan
  <1>11. CASE EndScan
    BY <1>11 DEF EndScan
  <1>12. CASE Poll
    BY <1>12 DEF Poll
  <1>13. CASE Drain
    <2>1. ci \in Lidars
      BY <1>13 DEF Drain
    <2>2. ~IsEmpty(ci) => Used(wr[ci], rd[ci]) > 0
      BY <1>a, <2>1, FillValue DEF IsEmpty
    <2> QED BY <1>13, <2>1, <2>2 DEF Drain
  <1>14. CASE PrePop
    BY <1>14 DEF PrePop
  <1>15. CASE PopUpdate
    <2>1. ci \in Lidars /\ Used(wr[ci], rd[ci]) > 0
      BY <1>15 DEF PopUpdate
    <2>2. Used(wr[ci], Inc(rd[ci])) = Used(wr[ci], rd[ci]) - 1
      BY <1>a, <2>1, FillSteps
    <2>3. /\ cpc' = "drain" /\ rd' = [rd EXCEPT ![ci] = Inc(rd[ci])]
          /\ UNCHANGED <<wr, pending, ppc, pl, count, ci>>
      BY <1>15 DEF PopUpdate
    <2>4. RingInv'
      BY <1>a, <2>1, <2>2, <2>3 DEF TypeOK
    <2>5. ProducerInv'
      BY <1>a, <2>1, <2>2, <2>3 DEF TypeOK
    <2> QED BY <2>1, <2>3, <2>4, <2>5
  <1>16. CASE PollFuture
    BY <1>16 DEF PollFuture
  <1>17. ASSUME NEW l \in Lidars, StartSampling(l) PROVE Rings'
    BY <1>17 DEF StartSampling
  <1>18. CASE RequestExit
    BY <1>18 DEF RequestExit
  <1>19. CASE SetExitSignal
    BY <1>19 DEF SetExitSignal
  <1>20. CASE UNCHANGED vars
    BY <1>20 DEF vars
  <1> QED
    BY <1>1, <1>2, <1>3, <1>4, <1>5, <1>6, <1>7, <1>8, <1>9, <1>10, <1>11, <1>12, <1>13, <1>14,
       <1>15, <1>16, <1>17, <1>18, <1>19, <1>20 DEF Next, Push, Finish, PollThread

(* The strengthened invariant holds in every behaviour. *)
LEMMA Inductive == Spec => []IInv
  <1>1. IInv /\ [Next]_vars => IInv'
    BY StepTypeOK, StepRings DEF IInv
  <1> QED BY <1>1, InitIInv, PTL DEF Spec

-----------------------------------------------------------------------------
(* Type correctness, and with it that the semaphore's count never exceeds   *)
(* one: the producer signals only an exhausted count. *)
THEOREM TypeCorrect == Spec => []TypeOK
  <1>1. IInv => TypeOK
    BY DEF IInv
  <1> QED BY <1>1, Inductive, PTL

(* The two threads never are in the same slot of a ring, for every power of *)
(* two (and every other divisor of the index range) as the ring's size. *)
THEOREM SlotsAreExclusive == Spec => []SlotExclusive
  <1>1. ASSUME IInv PROVE SlotExclusive
    <2> SUFFICES ASSUME ppc \in {"write", "bump"}, cpc \in {"copy", "update"}, pl = ci
                 PROVE  SlotOf(wr[pl]) # SlotOf(rd[ci])
      BY DEF SlotExclusive
    <2>1. pl \in Lidars /\ wr[pl] \in Indices /\ rd[pl] \in Indices
      BY <1>1 DEF IInv, TypeOK
    <2>2. Used(wr[pl], rd[pl]) > 0 /\ Used(wr[pl], rd[pl]) < Size
      BY <1>1 DEF IInv, ProducerInv, ConsumerInv, Fill
    <2> QED BY <2>1, <2>2, SlotsDiffer
  <1> QED BY <1>1, Inductive, PTL

-----------------------------------------------------------------------------
(* A ring is a channel. *)

(* The position behind i - 1 packets, and what is used from there. *)
At(r, i) == (r + i - 1) % IndexModulus

LEMMA Position ==
  ASSUME NEW w \in Indices, NEW r \in Indices, NEW i \in 1 .. Used(w, r), Used(w, r) <= Size
  PROVE  /\ At(r, i) \in Indices
         /\ Used(w, At(r, i)) = Used(w, r) - i + 1
  <1> DEFINE M == IndexModulus
             p == At(r, i)
  <1>1. Used(w, r) = IF w >= r THEN w - r ELSE w - r + M
    BY UsedValue
  <1>2. w \in Int /\ r \in Int /\ M \in Int /\ 0 <= w /\ w < M /\ 0 <= r /\ r < M /\ M > 0
    BY RingAssumption DEF Indices
  <1>3. i \in Int /\ 1 <= i /\ i <= Used(w, r)
    BY <1>1, <1>2
  <1>4. i < M + 1
    BY <1>1, <1>2, <1>3
  <1>5. p = IF r + i - 1 < M THEN r + i - 1 ELSE r + i - 1 - M
    BY <1>2, <1>3, <1>4 DEF At
  <1>6. p \in Indices
    BY <1>2, <1>3, <1>4, <1>5 DEF Indices
  <1> HIDE DEF p
  <1>7. Used(w, p) = IF w >= p THEN w - p ELSE w - p + M
    BY <1>6, UsedValue
  <1>8. Used(w, p) = Used(w, r) - i + 1
    BY <1>1, <1>2, <1>3, <1>5, <1>7
  <1> QED BY <1>6, <1>8 DEF p

LEMMA FirstPosition ==
  ASSUME NEW r \in Indices
  PROVE  At(r, 1) = r
  BY RingAssumption DEF At, Indices

(* The next free position is the one behind the last packet. *)
LEMMA LastPosition ==
  ASSUME NEW w \in Indices, NEW r \in Indices
  PROVE  At(r, Used(w, r) + 1) = w
  <1>1. Used(w, r) = IF w >= r THEN w - r ELSE w - r + IndexModulus
    BY UsedValue
  <1> QED BY <1>1, RingAssumption DEF At, Indices

LEMMA NextPosition ==
  ASSUME NEW r \in Indices, NEW i \in 1 .. IndexModulus - 1
  PROVE  At(Inc(r), i) = At(r, i + 1)
  <1>1. Inc(r) = IF r = IndexModulus - 1 THEN 0 ELSE r + 1
    BY IncValue
  <1>2. CASE r = IndexModulus - 1
    <2>1. At(r, i + 1) = i - 1 /\ At(0, i) = i - 1
      BY <1>2, RingAssumption DEF At
    <2> QED BY <1>1, <1>2, <2>1
  <1>3. CASE r # IndexModulus - 1
    <2>1. Inc(r) + i - 1 = r + (i + 1) - 1
      BY <1>1, <1>3 DEF Indices
    <2> QED BY <2>1 DEF At
  <1> QED BY <1>2, <1>3

(* What a ring of slots s holds between two indices. *)
Held(s, w, r) == [i \in 1 .. Used(w, r) |-> s[SlotOf(At(r, i))]]

Slots == [0 .. Size - 1 -> Packets \cup {Torn, Nothing}]

LEMMA HeldIs ==
  ASSUME NEW s \in Slots, NEW w \in Indices, NEW r \in Indices, Used(w, r) <= Size
  PROVE  /\ Held(s, w, r) \in Seq(Packets \cup {Torn, Nothing})
         /\ Len(Held(s, w, r)) = Used(w, r)
  <1>1. Used(w, r) \in Nat
    BY FillValue
  <1>2. \A i \in 1 .. Used(w, r) : s[SlotOf(At(r, i))] \in Packets \cup {Torn, Nothing}
    <2> TAKE i \in 1 .. Used(w, r)
    <2>1. At(r, i) \in Indices
      BY Position
    <2>2. SlotOf(At(r, i)) \in 0 .. Size - 1
      BY <2>1, SlotOfType
    <2> QED BY <2>2 DEF Slots
  <1> QED BY <1>1, <1>2 DEF Held

(* A write to the free position leaves what is held alone. *)
LEMMA WriteBeyond ==
  ASSUME NEW s \in Slots, NEW w \in Indices, NEW r \in Indices, Used(w, r) < Size, NEW x
  PROVE  Held([s EXCEPT ![SlotOf(w)] = x], w, r) = Held(s, w, r)
  <1> SUFFICES ASSUME NEW i \in 1 .. Used(w, r)
               PROVE  [s EXCEPT ![SlotOf(w)] = x][SlotOf(At(r, i))] = s[SlotOf(At(r, i))]
    BY DEF Held
  <1>1. Used(w, r) \in Nat /\ Size \in Nat
    BY FillValue, RingAssumption
  <1>2. At(r, i) \in Indices /\ Used(w, At(r, i)) = Used(w, r) - i + 1
    BY <1>1, Position
  <1>3. Used(w, At(r, i)) > 0 /\ Used(w, At(r, i)) < Size
    BY <1>1, <1>2
  <1>4. SlotOf(w) # SlotOf(At(r, i))
    BY <1>2, <1>3, SlotsDiffer
  <1>5. SlotOf(At(r, i)) \in 0 .. Size - 1
    BY <1>2, SlotOfType
  <1> QED BY <1>4, <1>5 DEF Slots

(* A step of the write index appends the packet written there. *)
LEMMA StepAppends ==
  ASSUME NEW s \in Slots, NEW w \in Indices, NEW r \in Indices, Used(w, r) < Size
  PROVE  Held(s, Inc(w), r) = Append(Held(s, w, r), s[SlotOf(w)])
  <1> DEFINE n == Used(w, r)
             h == Held(s, w, r)
             g == Held(s, Inc(w), r)
  <1>1. n \in Nat /\ Size \in Nat /\ Used(Inc(w), r) = n + 1
    BY FillValue, FillSteps, RingAssumption
  <1>2. h \in Seq(Packets \cup {Torn, Nothing}) /\ Len(h) = n
    BY <1>1, HeldIs
  <1>3. g = [i \in 1 .. n + 1 |-> s[SlotOf(At(r, i))]]
    BY <1>1 DEF Held
  <1>4. At(r, n + 1) = w
    BY LastPosition
  <1>5. \A i \in 1 .. n : h[i] = s[SlotOf(At(r, i))]
    BY DEF Held
  <1> DEFINE x == s[SlotOf(w)]
  <1>6. x \in Packets \cup {Torn, Nothing}
    BY SlotOfType DEF Slots
  <1>7. g \in Seq(Packets \cup {Torn, Nothing}) /\ Len(g) = n + 1
    BY <1>1, FillSteps, HeldIs
  <1> HIDE DEF n, h, g, x
  <1>8. /\ Append(h, x) \in Seq(Packets \cup {Torn, Nothing}) /\ Len(Append(h, x)) = n + 1
        /\ \A i \in 1 .. n : Append(h, x)[i] = h[i]
        /\ Append(h, x)[n + 1] = x
    BY <1>2, <1>6, AppendProperties
  <1>9. ASSUME NEW i \in 1 .. n + 1 PROVE g[i] = Append(h, x)[i]
    <2>1. CASE i = n + 1
      BY <1>1, <1>3, <1>4, <1>8, <2>1 DEF x
    <2>2. CASE i # n + 1
      <3>1. i \in 1 .. n
        BY <1>1, <2>2
      <3> QED BY <1>3, <1>5, <1>8, <3>1
    <2> QED BY <2>1, <2>2
  <1>10. g = Append(h, x)
    BY <1>7, <1>8, <1>9, SeqEqual
  <1> QED BY <1>10 DEF h, g, x

(* A step of the read index takes the packet at the head. *)
LEMMA StepTakes ==
  ASSUME NEW s \in Slots, NEW w \in Indices, NEW r \in Indices, Used(w, r) <= Size, Used(w, r) > 0
  PROVE  /\ Held(s, w, r) # <<>> /\ Head(Held(s, w, r)) = s[SlotOf(r)]
         /\ Held(s, w, Inc(r)) = Tail(Held(s, w, r))
  <1> DEFINE n == Used(w, r)
             h == Held(s, w, r)
             g == Held(s, w, Inc(r))
  <1>1. n \in Nat /\ Used(w, Inc(r)) = n - 1
    BY FillValue, FillSteps
  <1>2. h \in Seq(Packets \cup {Torn, Nothing}) /\ Len(h) = n
    BY HeldIs
  <1>3. g = [i \in 1 .. n - 1 |-> s[SlotOf(At(Inc(r), i))]]
    BY <1>1 DEF Held
  <1>4. \A i \in 1 .. n : h[i] = s[SlotOf(At(r, i))]
    BY DEF Held
  <1>5. \A i \in 1 .. n - 1 : At(Inc(r), i) = At(r, i + 1)
    <2> TAKE i \in 1 .. n - 1
    <2>1. i \in 1 .. IndexModulus - 1
      BY <1>1, RingAssumption
    <2> QED BY <2>1, NextPosition
  <1>6. n > 0
    OBVIOUS
  <1>6a. g \in Seq(Packets \cup {Torn, Nothing}) /\ Len(g) = n - 1
    <2>1. Inc(r) \in Indices /\ n - 1 <= Size
      BY <1>1, FillSteps, RingAssumption
    <2> QED BY <1>1, <2>1, HeldIs
  <1> HIDE DEF n, h, g
  <1>7. h # <<>> /\ Head(h) = s[SlotOf(r)]
    <2>1. h # <<>> /\ Head(h) = h[1]
      BY <1>1, <1>2, <1>6
    <2>2. h[1] = s[SlotOf(At(r, 1))]
      BY <1>1, <1>4, <1>6
    <2> QED BY <2>1, <2>2, FirstPosition
  <1>8. /\ Tail(h) \in Seq(Packets \cup {Torn, Nothing}) /\ Len(Tail(h)) = n - 1
        /\ \A i \in 1 .. n - 1 : Tail(h)[i] = h[i + 1]
    BY <1>2, <1>7, HeadTailProperties
  <1>9. \A i \in 1 .. n - 1 : g[i] = Tail(h)[i]
    <2> TAKE i \in 1 .. n - 1
    <2>1. g[i] = s[SlotOf(At(r, i + 1))]
      BY <1>3, <1>5
    <2>2. h[i + 1] = s[SlotOf(At(r, i + 1))]
      BY <1>1, <1>4
    <2> QED BY <1>8, <2>1, <2>2
  <1>10. g = Tail(h)
    BY <1>6a, <1>8, <1>9, SeqEqual
  <1> QED BY <1>7, <1>10 DEF h, g

Ring(l) == Held(slot[l], wr[l], rd[l])
Rings == [l \in Lidars |-> Contents(l)]

(* The slot behind the last packet is written before the index is stepped, *)
(* and the slot being taken is not written at all. *)
DataInv ==
  /\ ppc = "write" => packet \in Packets
  /\ ppc = "bump" => slot[pl][SlotOf(wr[pl])] \in Packets
  /\ pending # Nothing => slot[pending][SlotOf(wr[pending])] \in Packets
  /\ cpc = "update" => pkg = slot[ci][SlotOf(rd[ci])]

LEMMA RingsAre == Rings = [l \in Lidars |-> Ring(l)] /\ Rings' = [l \in Lidars |-> Ring(l)']
  BY DEF Rings, Contents, Ring, Held, At, Lidars

LEMMA DataStart == Init => DataInv /\ Channel!Init
  <1> SUFFICES ASSUME Init PROVE DataInv /\ Channel!Init
    OBVIOUS
  <1>1. DataInv
    BY DEF Init, DataInv
  <1>2. \A l \in Lidars : Contents(l) = <<>>
    <2> TAKE l \in Lidars
    <2>1. Used(wr[l], rd[l]) = 0
      BY FillValue, RingAssumption DEF Init, Indices
    <2> QED BY <2>1 DEF Contents
  <1> QED BY <1>1, <1>2 DEF Channel!Init, Init

(* A write to the free slot of a ring touches no packet in it. *)
LEMMA WriteKeeps ==
  ASSUME IInv, DataInv, NEW k \in Lidars, Fill(k) < Size, NEW x,
         slot' = [slot EXCEPT ![k] = [slot[k] EXCEPT ![SlotOf(wr[k])] = x]],
         UNCHANGED <<wr, rd, cpc, ci, pkg>>
  PROVE  /\ Rings' = Rings
         /\ slot'[k][SlotOf(wr[k])] = x
         /\ cpc' = "update" => pkg' = slot'[ci'][SlotOf(rd'[ci'])]
  <1>a. /\ slot \in [Lidars -> Slots] /\ SlotOf(wr[k]) \in 0 .. Size - 1
        /\ wr[k] \in Indices /\ rd[k] \in Indices
    BY SlotOfType DEF IInv, TypeOK, Slots
  <1>1. \A l \in Lidars : slot'[l] = IF l = k THEN [slot[k] EXCEPT ![SlotOf(wr[k])] = x] ELSE slot[l]
    BY <1>a
  <1>2. \A l \in Lidars : Ring(l)' = Ring(l)
    <2> TAKE l \in Lidars
    <2>1. Ring(l)' = Held(slot'[l], wr[l], rd[l])
      BY DEF Ring, Held, At
    <2>2. CASE l = k
      <3>1. Held([slot[k] EXCEPT ![SlotOf(wr[k])] = x], wr[k], rd[k]) = Held(slot[k], wr[k], rd[k])
        BY <1>a, WriteBeyond DEF Fill
      <3> QED BY <1>1, <2>1, <2>2, <3>1 DEF Ring
    <2>3. CASE l # k
      BY <1>1, <2>1, <2>3 DEF Ring
    <2> QED BY <2>2, <2>3
  <1>3. Rings' = Rings
    BY <1>2, RingsAre
  <1>4. slot'[k][SlotOf(wr[k])] = x
    BY <1>1, <1>a DEF Slots
  <1>5. ASSUME cpc = "update" PROVE slot'[ci][SlotOf(rd[ci])] = slot[ci][SlotOf(rd[ci])]
    <2>1. ci \in Lidars /\ Fill(ci) > 0 /\ wr[ci] \in Indices /\ rd[ci] \in Indices
      BY <1>5 DEF IInv, ConsumerInv, TypeOK
    <2>2. CASE ci = k
      <3>1. SlotOf(wr[k]) # SlotOf(rd[k]) /\ SlotOf(rd[k]) \in 0 .. Size - 1
        BY <1>a, <2>1, <2>2, SlotsDiffer, SlotOfType DEF Fill
      <3> QED BY <1>1, <1>a, <2>2, <3>1 DEF Slots
    <2>3. CASE ci # k
      BY <1>1, <2>1, <2>3
    <2> QED BY <2>2, <2>3
  <1> QED BY <1>3, <1>4, <1>5 DEF DataInv

(* Every step of the two threads is a step of the channels or invisible. *)
LEMMA StepRefines ==
  IInv /\ DataInv /\ [Next]_vars => DataInv' /\ [Channel!Next]_<<Rings, published>>
  <1> SUFFICES ASSUME IInv, DataInv, [Next]_vars
               PROVE  DataInv' /\ [Channel!Next]_<<Rings, published>>
    OBVIOUS
  <1> USE DEF ring, producer, consumer
  <1>a. /\ \A l \in Lidars : wr[l] \in Indices /\ rd[l] \in Indices /\ slot[l] \in Slots
        /\ pl \in Lidars /\ Nothing \notin Lidars /\ pending \in Lidars \cup {Nothing}
        /\ \A l \in Lidars : Fill(l) <= Size
    BY NoLidarAssumption DEF IInv, TypeOK, Lidars, Slots, RingInv
  <1>b. ASSUME UNCHANGED <<slot, wr, rd, published>>
        PROVE  UNCHANGED <<Rings, published>>
    BY <1>b DEF Rings, Contents
  <1>1. ASSUME NEW l \in Lidars, NEW p \in Packets, BeginPush(l, p)
        PROVE  DataInv' /\ [Channel!Next]_<<Rings, published>>
    <2>1. /\ pending = Nothing /\ pl' = l /\ ppc' \in {"count", "write"}
          /\ UNCHANGED <<wr, rd, pending, cpc, ci, pkg, published>>
      BY <1>1 DEF BeginPush, OnFull
    <2>2. CASE IsFull(OwnWr(l), rd[l])
      <3>1. ppc' = "count" /\ UNCHANGED slot
        BY <1>1, <2>2 DEF BeginPush, OnFull
      <3> QED BY <1>b, <2>1, <3>1 DEF DataInv
    <2>3. CASE ~IsFull(OwnWr(l), rd[l])
      <3>1. /\ packet' = p /\ ppc' = "write"
            /\ slot' = [slot EXCEPT ![l] = [slot[l] EXCEPT ![SlotOf(wr[l])] = Torn]]
        BY <1>1, <2>3 DEF BeginPush
      <3>2. Fill(l) < Size
        BY <1>a, <2>1, <2>3, FillValue, RingAssumption DEF IsFull, OwnWr, Fill
      <3>3. /\ Rings' = Rings
            /\ cpc' = "update" => pkg' = slot'[ci'][SlotOf(rd'[ci'])]
        BY <2>1, <3>1, <3>2, WriteKeeps
      <3> QED BY <2>1, <3>1, <3>3 DEF DataInv
    <2> QED BY <2>2, <2>3
  <1>2. CASE EndWrite
    <2>1. /\ ppc = "write" /\ ppc' = "bump"
          /\ slot' = [slot EXCEPT ![pl] = [slot[pl] EXCEPT ![SlotOf(wr[pl])] = packet]]
          /\ UNCHANGED <<wr, rd, pending, pl, cpc, ci, pkg, published>>
      BY <1>2 DEF EndWrite
    <2>2. pending = Nothing /\ Fill(pl) < Size
      BY <2>1 DEF IInv, ProducerInv
    <2>3. /\ Rings' = Rings /\ slot'[pl][SlotOf(wr[pl])] = packet
          /\ cpc' = "update" => pkg' = slot'[ci'][SlotOf(rd'[ci'])]
      BY <1>a, <2>1, <2>2, WriteKeeps
    <2> QED BY <2>1, <2>2, <2>3 DEF DataInv
  <1>3. CASE StepWr
    <2>1. /\ ppc = "bump" /\ ppc' = "check" /\ pending' = pl
          /\ UNCHANGED <<slot, wr, rd, cpc, ci, pkg, published>>
      BY <1>3 DEF StepWr
    <2> QED BY <1>b, <2>1 DEF DataInv
  <1>4. CASE StoreVisible
    <2>1. /\ pending \in Lidars /\ wr' = [wr EXCEPT ![pending] = Inc(wr[pending])]
          /\ pending' = Nothing
          /\ UNCHANGED <<slot, rd, ppc, pl, packet, cpc, ci, pkg, published>>
      BY <1>4, <1>a DEF StoreVisible
    <2>2. ppc \notin {"write", "bump"}
      BY <1>a, <2>1 DEF IInv, ProducerInv
    <2>3. DataInv'
      BY <2>1, <2>2 DEF DataInv
    <2>4. Fill(pending) < Size
      BY <2>1 DEF IInv, RingInv
    <2>5. \A l \in Lidars : wr'[l] = IF l = pending THEN Inc(wr[l]) ELSE wr[l]
      BY <2>1 DEF IInv, TypeOK
    <2>6. \A l \in Lidars :
            Ring(l)' = IF l = pending THEN Append(Ring(l), slot[l][SlotOf(wr[l])]) ELSE Ring(l)
      <3> TAKE l \in Lidars
      <3>1. Ring(l)' = Held(slot[l], wr'[l], rd[l])
        BY <2>1 DEF Ring, Held, At
      <3>2. CASE l = pending
        <4>1. Held(slot[l], Inc(wr[l]), rd[l]) = Append(Held(slot[l], wr[l], rd[l]), slot[l][SlotOf(wr[l])])
          BY <1>a, <2>4, <3>2, StepAppends DEF Fill
        <4> QED BY <2>5, <3>1, <3>2, <4>1 DEF Ring
      <3>3. CASE l # pending
        BY <2>5, <3>1, <3>3 DEF Ring
      <3> QED BY <3>2, <3>3
    <2> DEFINE k == pending
               p == slot[k][SlotOf(wr[k])]
    <2>7. k \in Lidars /\ p \in Packets
      BY <1>a, <2>1 DEF DataInv
    <2>8. Len(Rings[k]) < Size
      BY <1>a, <2>4, <2>7, HeldIs, RingsAre DEF Ring, Fill
    <2>9. Rings' = [Rings EXCEPT ![k] = Append(Rings[k], p)]
      BY <2>6, <2>7, RingsAre
    <2> HIDE DEF k, p
    <2>10. Channel!Accept(k, p)
      BY <2>1, <2>8, <2>9 DEF Channel!Accept, Rings
    <2> QED BY <2>3, <2>7, <2>10 DEF Channel!Next
  <1>5. CASE CheckEmpty
    <2>1. ppc' \notin {"write", "bump"} /\ UNCHANGED <<slot, wr, rd, pending, cpc, ci, pkg, published>>
      BY <1>5 DEF CheckEmpty
    <2> QED BY <1>b, <2>1 DEF DataInv
  <1>6. CASE GetCount
    <2>1. ppc' \notin {"write", "bump"} /\ UNCHANGED <<slot, wr, rd, pending, cpc, ci, pkg, published>>
      BY <1>6 DEF GetCount
    <2> QED BY <1>b, <2>1 DEF DataInv
  <1>7. CASE Signal
    <2>1. ppc' \notin {"write", "bump"} /\ UNCHANGED <<slot, wr, rd, pending, cpc, ci, pkg, published>>
      BY <1>7 DEF Signal
    <2> QED BY <1>b, <2>1 DEF DataInv
  <1>8. CASE Distribute \/ Wait \/ Scan \/ EndScan \/ Poll \/ Drain \/ PollFuture
    <2>1. cpc' # "update" /\ UNCHANGED <<slot, wr, rd, pending, ppc, pl, packet, published>>
      BY <1>8 DEF Distribute, Wait, Scan, EndScan, Poll, Drain, PollFuture
    <2> QED BY <1>b, <2>1 DEF DataInv
  <1>9. CASE PrePop
    <2>1. /\ pkg' = slot[ci][SlotOf(rd[ci])]
          /\ UNCHANGED <<slot, wr, rd, pending, ppc, pl, packet, ci, published>>
      BY <1>9 DEF PrePop
    <2> QED BY <1>b, <2>1 DEF DataInv
  <1>10. CASE PopUpdate
    <2>1. /\ cpc = "update" /\ cpc' = "drain" /\ rd' = [rd EXCEPT ![ci] = Inc(rd[ci])]
          /\ published' = IF pkg = Blank THEN published ELSE [published EXCEPT ![ci] = pkg]
          /\ UNCHANGED <<slot, wr, pending, ppc, pl, packet>>
      BY <1>10 DEF PopUpdate
    <2>2. DataInv'
      BY <2>1 DEF DataInv
    <2>3. ci \in Lidars /\ Fill(ci) > 0 /\ pkg = slot[ci][SlotOf(rd[ci])]
      BY <2>1 DEF IInv, ConsumerInv, DataInv
    <2>4. \A l \in Lidars : rd'[l] = IF l = ci THEN Inc(rd[l]) ELSE rd[l]
      BY <2>1 DEF IInv, TypeOK
    <2>5. /\ Ring(ci) # <<>> /\ Head(Ring(ci)) = pkg
          /\ Held(slot[ci], wr[ci], Inc(rd[ci])) = Tail(Ring(ci))
      BY <1>a, <2>3, StepTakes DEF Ring, Fill
    <2>6. \A l \in Lidars : Ring(l)' = IF l = ci THEN Tail(Ring(l)) ELSE Ring(l)
      <3> TAKE l \in Lidars
      <3>1. Ring(l)' = Held(slot[l], wr[l], rd'[l])
        BY <2>1 DEF Ring, Held, At
      <3>2. CASE l = ci
        BY <2>4, <2>5, <3>1, <3>2 DEF Ring
      <3>3. CASE l # ci
        BY <2>4, <3>1, <3>3 DEF Ring
      <3> QED BY <3>2, <3>3
    <2>7. Rings[ci] # <<>> /\ Head(Rings[ci]) = pkg /\ Rings' = [Rings EXCEPT ![ci] = Tail(Rings[ci])]
      BY <2>3, <2>5, <2>6, RingsAre
    <2>8. published' = IF Head(Rings[ci]) = Blank THEN published
                       ELSE [published EXCEPT ![ci] = Head(Rings[ci])]
      BY <2>1, <2>7
    <2>9. Channel!Take(ci)
      BY <2>7, <2>8, Zenon DEF Channel!Take, Rings
    <2> QED BY <2>2, <2>3, <2>9 DEF Channel!Next
  <1>11. ASSUME NEW l \in Lidars, StartSampling(l)
         PROVE  DataInv' /\ [Channel!Next]_<<Rings, published>>
    <2>1. UNCHANGED <<slot, wr, rd, pending, ppc, pl, packet, cpc, ci, pkg, published>>
      BY <1>11 DEF StartSampling
    <2> QED BY <1>b, <2>1 DEF DataInv
  <1>12. CASE RequestExit \/ SetExitSignal
    <2>1. UNCHANGED <<slot, wr, rd, pending, ppc, pl, packet, cpc, ci, pkg, published>>
      BY <1>12 DEF RequestExit, SetExitSignal
    <2> QED BY <1>b, <2>1 DEF DataInv
  <1>13. CASE UNCHANGED vars
    <2>1. UNCHANGED <<slot, wr, rd, pending, ppc, pl, packet, cpc, ci, pkg, published>>
      BY <1>13 DEF vars
    <2> QED BY <1>b, <2>1 DEF DataInv
  <1> QED
    BY <1>1, <1>2, <1>3, <1>4, <1>5, <1>6, <1>7, <1>8, <1>9, <1>10, <1>11, <1>12, <1>13
    DEF Next, Push, Finish, PollThread

(* The rings are bounded channels, for every number of lidars, size of a    *)
(* ring and width of its indices: no interleaving of the two threads loses, *)
(* duplicates, reorders or tears a packet that was accepted, although the   *)
(* producer's index arrives late. *)
THEOREM RingIsChannel == Spec => IsChannel
  <1>1. IInv /\ DataInv /\ [Next]_vars
          => DataInv' /\ [Channel!Next]_<<[l \in Lidars |-> Contents(l)], published>>
    BY StepRefines DEF Rings
  <1>2. Spec => Channel!Spec
    BY <1>1, DataStart, Inductive, PTL DEF Spec, Channel!Spec
  <1> QED BY <1>2 DEF IsChannel

-----------------------------------------------------------------------------
(* What a missed wake-up leaves behind. *)

Scanning == {"scan", "poll", "drain", "copy", "update"}

(* The lidars this scan, or the last one, has looked at. *)
Passed == {l \in Lidars : l < ci /\ ~skipped[l]}

AtMostOne(S) ==
  \A l, m \in {k \in S : ~IsEmpty(k)} : l = m /\ Used(wr[l], rd[l]) = 1

(* Behind a complete scan every lidar has been looked at or passed by. *)
ScanInv == cpc \notin Scanning => \A l \in Lidars : ~skipped[l] => l < ci

(* Before it looks at the count the producer has no other store on its way. *)
StoreInv == ppc = "check" => pending \in {pl, Nothing}

(* With the count exhausted, the lidars the scan has passed are empty while *)
(* the producer's store is on its way, and hold one packet together when it *)
(* has arrived; a further one brings the producer to its look at the count. *)
(* After a request to exit only a poll thread that waits already can sleep. *)
StrandedInv ==
  count = 0 /\ (exit = "no" \/ cpc = "wait") =>
    /\ ppc = "idle" /\ pending # Nothing => \A l \in Passed : IsEmpty(l)
    /\ ppc = "idle" /\ pending = Nothing => AtMostOne(Passed)
    /\ ppc \in {"write", "bump"} => AtMostOne(Passed)
    /\ ppc = "check" => AtMostOne(Passed \ {pl})

WakeInv == ScanInv /\ StoreInv /\ StrandedInv

LEMMA WakeStart == Init => WakeInv
  <1> SUFFICES ASSUME Init PROVE WakeInv
    OBVIOUS
  <1>1. Passed = {}
    BY DEF Init, Passed
  <1> QED BY <1>1 DEF Init, WakeInv, ScanInv, StoreInv, StrandedInv, AtMostOne

(* The poll thread goes on over rings it finds empty. *)
LEMMA EmptyPassed ==
  ASSUME IInv, WakeInv, UNCHANGED <<wr, rd, pending, ppc, pl, count, exit>>,
         cpc # "wait" => cpc' # "wait" \/ exit = "no",
         exit = "no" \/ cpc = "wait" => \A l \in Passed' : l \in Passed \/ IsEmpty(l)
  PROVE  StrandedInv'
  <1> SUFFICES ASSUME count = 0, exit' = "no" \/ cpc' = "wait" PROVE StrandedInv'
    BY DEF StrandedInv
  <1>1. exit = "no" \/ cpc = "wait"
    OBVIOUS
  <1>2. \A l \in Passed' : l \in Passed \/ IsEmpty(l)
    BY <1>1
  <1>3. \A l \in Lidars : IsEmpty(l)' = IsEmpty(l)
    BY DEF IsEmpty
  <1>4. /\ (\A l \in Passed : IsEmpty(l)) => \A l \in Passed' : IsEmpty(l)'
        /\ AtMostOne(Passed) => AtMostOne(Passed)'
        /\ AtMostOne(Passed \ {pl}) => AtMostOne(Passed \ {pl})'
    BY <1>2 DEF AtMostOne, IsEmpty
  <1> QED BY <1>1, <1>4 DEF WakeInv, StrandedInv

LEMMA WakeStep == IInv /\ WakeInv /\ [Next]_vars => WakeInv'
  <1> SUFFICES ASSUME IInv, WakeInv, [Next]_vars PROVE WakeInv'
    OBVIOUS
  <1> USE DEF WakeInv, ScanInv, StoreInv, ring, producer, consumer
  <1>a. /\ \A l \in Lidars : wr[l] \in Indices /\ rd[l] \in Indices
        /\ pl \in Lidars /\ ci \in 1 .. NumLidars + 1 /\ Lidars \subseteq Nat /\ Nothing \notin Lidars
        /\ count \in {0, 1} /\ pending \in Lidars \cup {Nothing}
    BY NoLidarAssumption DEF IInv, TypeOK, Lidars
  <1>1. ASSUME NEW l \in Lidars, NEW p \in Packets, BeginPush(l, p) PROVE WakeInv'
    <2>1. /\ ppc = "idle" /\ pending = Nothing /\ ppc' \in {"count", "write"}
          /\ UNCHANGED <<wr, rd, pending, count, cpc, ci, skipped, exit>>
      BY <1>1 DEF BeginPush, OnFull
    <2>2. Passed' = Passed /\ (AtMostOne(Passed) => AtMostOne(Passed)')
      BY <2>1 DEF Passed, AtMostOne, IsEmpty
    <2> QED BY <2>1, <2>2 DEF StrandedInv
  <1>2. CASE EndWrite
    <2>1. /\ ppc = "write" /\ ppc' = "bump"
          /\ UNCHANGED <<wr, rd, pending, count, cpc, ci, skipped, exit>>
      BY <1>2 DEF EndWrite
    <2>2. Passed' = Passed /\ (AtMostOne(Passed) => AtMostOne(Passed)')
      BY <2>1 DEF Passed, AtMostOne, IsEmpty
    <2> QED BY <2>1, <2>2 DEF StrandedInv
  <1>3. CASE StepWr
    <2>1. /\ ppc = "bump" /\ ppc' = "check" /\ pending' = pl
          /\ UNCHANGED <<wr, rd, pl, count, cpc, ci, skipped, exit>>
      BY <1>3 DEF StepWr
    <2>2. Passed' = Passed /\ (AtMostOne(Passed) => AtMostOne(Passed \ {pl})')
      BY <2>1 DEF Passed, AtMostOne, IsEmpty
    <2> QED BY <2>1, <2>2 DEF StrandedInv
  <1>4. CASE StoreVisible
    <2>1. /\ pending \in Lidars /\ wr' = [wr EXCEPT ![pending] = Inc(wr[pending])]
          /\ pending' = Nothing
          /\ UNCHANGED <<rd, ppc, pl, count, cpc, ci, skipped, exit>>
      BY <1>4, <1>a DEF StoreVisible
    <2>2. Passed' = Passed
      BY <2>1 DEF Passed
    <2>3. \A l \in Lidars : l # pending => wr'[l] = wr[l]
      BY <2>1 DEF IInv, TypeOK
    <2>4. Used(wr[pending], rd[pending]) = 0 => Used(wr'[pending], rd[pending]) = 1
      <3>1. Used(wr[pending], rd[pending]) = 0
              => Used(Inc(wr[pending]), rd[pending]) = Used(wr[pending], rd[pending]) + 1
        BY <1>a, <2>1, FillSteps, RingAssumption
      <3>2. wr'[pending] = Inc(wr[pending])
        BY <2>1 DEF IInv, TypeOK
      <3> QED BY <3>1, <3>2
    <2>5. (\A l \in Passed : IsEmpty(l)) => AtMostOne(Passed)'
      <3> SUFFICES ASSUME \A l \in Passed : IsEmpty(l), NEW l \in Passed, NEW m \in Passed,
                          ~IsEmpty(l)', ~IsEmpty(m)'
                   PROVE  l = m /\ Used(wr'[l], rd'[l]) = 1
        BY <2>2 DEF AtMostOne
      <3>1. l \in Lidars /\ m \in Lidars
        BY DEF Passed
      <3>2. l = pending /\ m = pending
        BY <2>1, <2>3, <3>1 DEF IsEmpty
      <3>3. Used(wr[pending], rd[pending]) = 0
        BY <1>a, <2>1, <3>2, FillValue DEF IsEmpty
      <3> QED BY <2>1, <2>4, <3>2, <3>3
    <2>6. ppc = "check" /\ AtMostOne(Passed \ {pl}) => AtMostOne(Passed \ {pl})'
      <3> SUFFICES ASSUME ppc = "check", AtMostOne(Passed \ {pl}) PROVE AtMostOne(Passed \ {pl})'
        OBVIOUS
      <3>1. pending = pl
        BY <1>a, <2>1
      <3>2. \A l \in Passed \ {pl} : wr'[l] = wr[l] /\ rd'[l] = rd[l]
        BY <2>1, <2>3, <3>1 DEF Passed
      <3> QED BY <2>1, <2>2, <3>2 DEF AtMostOne, IsEmpty
    <2>7. ppc \notin {"write", "bump"}
      BY <1>a, <2>1 DEF IInv, ProducerInv
    <2>8. pending # Nothing
      BY <1>a, <2>1
    <2> QED BY <2>1, <2>2, <2>5, <2>6, <2>7, <2>8 DEF StrandedInv
  <1>5. CASE CheckEmpty
    <2>1. /\ ppc = "check" /\ ppc' = (IF rd[pl] = OwnWr(pl) THEN "idle" ELSE "count")
          /\ UNCHANGED <<wr, rd, pending, pl, count, cpc, ci, skipped, exit>>
      BY <1>5 DEF CheckEmpty
    <2>2. Passed' = Passed
      BY <2>1 DEF Passed
    <2>3. CASE ppc' = "count"
      BY <2>1, <2>3 DEF StrandedInv
    <2>4. CASE ppc' = "idle"
      <3>1. rd[pl] = OwnWr(pl)
        BY <2>1, <2>4
      <3>2. pending = Nothing
        <4> SUFFICES ASSUME pending = pl PROVE FALSE
          BY <2>1
        <4>1. rd[pl] = Inc(wr[pl])
          BY <3>1 DEF OwnWr
        <4>2. Used(wr[pl], rd[pl]) < Size
          BY <1>a DEF IInv, RingInv, Fill
        <4>3. Used(Inc(wr[pl]), rd[pl]) = Used(wr[pl], rd[pl]) + 1
          BY <1>a, <4>2, FillSteps, FillValue, RingAssumption
        <4>4. Used(Inc(wr[pl]), rd[pl]) = 0
          BY <1>a, <4>1, FillValue
        <4>5. Used(wr[pl], rd[pl]) \in Nat
          BY <1>a, FillValue
        <4> QED BY <4>3, <4>4, <4>5
      <3>3. IsEmpty(pl)
        BY <1>a, <3>1, <3>2 DEF OwnWr, IsEmpty
      <3>4. AtMostOne(Passed \ {pl}) => AtMostOne(Passed)'
        BY <2>1, <2>2, <3>3 DEF AtMostOne, IsEmpty
      <3> QED BY <2>1, <2>4, <3>2, <3>4 DEF StrandedInv
    <2> QED BY <2>1, <2>3, <2>4
  <1>6. CASE GetCount
    <2>1. /\ ppc = "count" /\ ppc' = (IF count <= 0 THEN "signal" ELSE "idle")
          /\ UNCHANGED <<count, cpc, ci, skipped>>
      BY <1>6 DEF GetCount, MustSignal
    <2>2. count = 0 => ppc' = "signal"
      BY <2>1
    <2> QED BY <2>1, <2>2 DEF StrandedInv
  <1>7. CASE Signal
    <2>1. ppc' = "idle" /\ count' # 0 /\ UNCHANGED <<cpc, ci, skipped>>
      BY <1>7, <1>a DEF Signal
    <2> QED BY <2>1 DEF StrandedInv
  <1>8. CASE Distribute
    <2>1. /\ cpc = "distribute" /\ cpc' = (IF exit = "no" THEN "wait" ELSE "future")
          /\ UNCHANGED <<wr, rd, pending, ppc, pl, count, ci, skipped, exit>>
      BY <1>8 DEF Distribute
    <2>2. Passed' = Passed
      BY <2>1 DEF Passed
    <2>3. StrandedInv'
      BY <2>1, <2>2, EmptyPassed
    <2> QED BY <2>1, <2>3 DEF Scanning
  <1>9. CASE Wait
    <2>1. cpc' = "scan" /\ ci' = 1 /\ UNCHANGED <<ppc, pl, pending>>
      BY <1>9 DEF Wait
    <2>2. Passed' = {}
      <3>1. Lidars' = Lidars /\ \A l \in Lidars : ~(l < ci')
        BY <2>1, LidarAssumption DEF Lidars
      <3> QED BY <3>1 DEF Passed
    <2> QED BY <2>1, <2>2 DEF StrandedInv, AtMostOne, Scanning
  <1>10. CASE Scan
    <2>1. /\ cpc = "scan" /\ ci \in Lidars /\ skipped' = [skipped EXCEPT ![ci] = ~sampling[ci]]
          /\ \/ sampling[ci] /\ cpc' = "poll" /\ ci' = ci
             \/ ~sampling[ci] /\ ci' = ci + 1 /\ cpc' = cpc
          /\ UNCHANGED <<wr, rd, pending, ppc, pl, count, exit>>
      BY <1>10 DEF Scan
    <2>2. \A l \in Lidars : l # ci => skipped'[l] = skipped[l]
      BY <2>1 DEF IInv, TypeOK
    <2>3. ~sampling[ci] => skipped'[ci]
      BY <2>1 DEF IInv, TypeOK
    <2>4. Passed' \subseteq Passed
      <3> SUFFICES ASSUME NEW l \in Lidars, l < ci', ~skipped'[l] PROVE l < ci /\ ~skipped[l]
        BY DEF Passed
      <3>1. l # ci
        BY <1>a, <2>1, <2>3
      <3> QED BY <1>a, <2>1, <2>2, <3>1
    <2>5. StrandedInv'
      BY <2>1, <2>4, EmptyPassed
    <2> QED BY <2>1, <2>5 DEF Scanning
  <1>11. CASE EndScan
    <2>1. /\ cpc = "scan" /\ ci \notin Lidars /\ cpc' = "future"
          /\ UNCHANGED <<wr, rd, pending, ppc, pl, count, ci, skipped, exit>>
      BY <1>11 DEF EndScan
    <2>2. Passed' = Passed
      BY <2>1 DEF Passed
    <2>3. StrandedInv'
      BY <2>1, <2>2, EmptyPassed
    <2>4. \A l \in Lidars : l < ci
      BY <1>a, <2>1, LidarAssumption DEF Lidars
    <2> QED BY <2>1, <2>3, <2>4
  <1>12. CASE Poll
    <2>1. /\ cpc = "poll"
          /\ \/ (exit # "no" \/ IsEmpty(ci)) /\ cpc' = "scan" /\ ci' = ci + 1
             \/ cpc' = "drain" /\ ci' = ci
          /\ UNCHANGED <<wr, rd, pending, ppc, pl, count, skipped, exit>>
      BY <1>12 DEF Poll
    <2>2. exit = "no" => \A l \in Passed' : l \in Passed \/ IsEmpty(l)
      <3> SUFFICES ASSUME exit = "no", NEW l \in Passed' PROVE l \in Passed \/ IsEmpty(l)
        OBVIOUS
      <3>1. l \in Lidars /\ l < ci' /\ ~skipped[l]
        BY <2>1 DEF Passed
      <3>2. CASE l < ci
        BY <3>1, <3>2 DEF Passed
      <3>3. CASE ~(l < ci)
        <4>1. l = ci /\ ci' = ci + 1
          BY <1>a, <2>1, <3>1, <3>3
        <4> QED BY <1>a, <2>1, <4>1
      <3> QED BY <3>2, <3>3
    <2>3. StrandedInv'
      BY <2>1, <2>2, EmptyPassed
    <2> QED BY <2>1, <2>3 DEF Scanning
  <1>13. CASE Drain
    <2>1. /\ cpc = "drain" /\ cpc' \in {"poll", "copy"}
          /\ UNCHANGED <<wr, rd, pending, ppc, pl, count, ci, skipped, exit>>
      BY <1>13 DEF Drain
    <2>2. Passed' = Passed
      BY <2>1 DEF Passed
    <2>3. StrandedInv'
      BY <2>1, <2>2, EmptyPassed
    <2> QED BY <2>1, <2>3 DEF Scanning
  <1>14. CASE PrePop
    <2>1. /\ cpc = "copy" /\ cpc' = "update"
          /\ UNCHANGED <<wr, rd, pending, ppc, pl, count, ci, skipped, exit>>
      BY <1>14 DEF PrePop
    <2>2. Passed' = Passed
      BY <2>1 DEF Passed
    <2>3. StrandedInv'
      BY <2>1, <2>2, EmptyPassed
    <2> QED BY <2>1, <2>3 DEF Scanning
  <1>15. CASE PopUpdate
    <2>1. /\ cpc = "update" /\ cpc' = "drain" /\ rd' = [rd EXCEPT ![ci] = Inc(rd[ci])]
          /\ UNCHANGED <<wr, pending, ppc, pl, count, ci, skipped, exit>>
      BY <1>15 DEF PopUpdate
    <2>2. Passed' = Passed /\ \A l \in Passed : rd'[l] = rd[l]
      BY <1>a, <2>1 DEF Passed, IInv, TypeOK
    <2>3. /\ (\A l \in Passed : IsEmpty(l)) => \A l \in Passed' : IsEmpty(l)'
          /\ AtMostOne(Passed) => AtMostOne(Passed)'
          /\ AtMostOne(Passed \ {pl}) => AtMostOne(Passed \ {pl})'
      BY <2>1, <2>2 DEF AtMostOne, IsEmpty
    <2> QED BY <2>1, <2>3 DEF StrandedInv, Scanning
  <1>16. CASE PollFuture
    <2>1. /\ cpc = "future" /\ cpc' \in {"done", "distribute"}
          /\ UNCHANGED <<wr, rd, pending, ppc, pl, count, ci, skipped, exit>>
      BY <1>16 DEF PollFuture
    <2>2. Passed' = Passed
      BY <2>1 DEF Passed
    <2>3. StrandedInv'
      BY <2>1, <2>2, EmptyPassed
    <2> QED BY <2>1, <2>3 DEF Scanning
  <1>17. ASSUME NEW l \in Lidars, StartSampling(l) PROVE WakeInv'
    <2>1. UNCHANGED <<wr, rd, pending, ppc, pl, count, cpc, ci, skipped, exit>>
      BY <1>17 DEF StartSampling
    <2>2. Passed' = Passed
      BY <2>1 DEF Passed
    <2>3. StrandedInv'
      BY <2>1, <2>2, EmptyPassed
    <2> QED BY <2>1, <2>3
  <1>18. CASE RequestExit \/ SetExitSignal
    <2>1. /\ exit' # "no"
          /\ UNCHANGED <<wr, rd, pending, ppc, pl, count, cpc, ci, skipped>>
      BY <1>18 DEF RequestExit, SetExitSignal
    <2>2. Passed' = Passed
      BY <2>1 DEF Passed
    <2>3. /\ (\A l \in Passed : IsEmpty(l)) => \A l \in Passed' : IsEmpty(l)'
          /\ AtMostOne(Passed) => AtMostOne(Passed)'
          /\ AtMostOne(Passed \ {pl}) => AtMostOne(Passed \ {pl})'
      BY <2>1, <2>2 DEF AtMostOne, IsEmpty
    <2> QED BY <2>1, <2>3 DEF StrandedInv
  <1>19. CASE UNCHANGED vars
    <2>1. UNCHANGED <<wr, rd, pending, ppc, pl, count, cpc, ci, skipped, exit>>
      BY <1>19 DEF vars
    <2>2. Passed' = Passed
      BY <2>1 DEF Passed
    <2>3. StrandedInv'
      BY <2>1, <2>2, EmptyPassed
    <2> QED BY <2>1, <2>3
  <1> QED
    BY <1>1, <1>2, <1>3, <1>4, <1>5, <1>6, <1>7, <1>8, <1>9, <1>10, <1>11, <1>12, <1>13, <1>14,
       <1>15, <1>16, <1>17, <1>18, <1>19 DEF Next, Push, Finish, PollThread

(* With any number of lidars, a missed wake-up leaves at most one packet in *)
(* the rings the poll thread has looked at. *)
THEOREM OneIsStranded == Spec => []AtMostOneStranded
  <1>1. IInv /\ WakeInv => AtMostOneStranded
    <2> SUFFICES ASSUME IInv, WakeInv, Asleep, ppc = "idle", pending = Nothing
                 PROVE  \A l, m \in {k \in Lidars : ~skipped[k] /\ ~IsEmpty(k)} :
                          l = m /\ Used(wr[l], rd[l]) = 1
      BY DEF AtMostOneStranded
    <2>1. \A l \in Lidars : ~skipped[l] => l \in Passed
      BY DEF WakeInv, ScanInv, Asleep, Scanning, Passed
    <2>2. AtMostOne(Passed)
      BY DEF WakeInv, StrandedInv, Asleep
    <2> QED BY <2>1, <2>2 DEF AtMostOne
  <1> QED BY <1>1, WakeStart, WakeStep, Inductive, PTL DEF Spec
=============================================================================
