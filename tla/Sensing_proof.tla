---------------------------- MODULE Sensing_proof ----------------------------
(***************************************************************************)
(* From the packets of the lidars to the place on the map: what the parts  *)
(* of MCSensing promise, for any constants.                                *)
(***************************************************************************)
EXTENDS MCSensing, Sequences, WellFoundedInduction, TLAPS

-----------------------------------------------------------------------------
(* The handshake with the lidars (LivoxConfig). *)

(* Why a lidar does not start early: once it is announced, each parameter   *)
(* of its configuration is acknowledged or its bit is set, and before that  *)
(* nothing is asked of it. *)
Pending ==
  \A l \in listed :
    /\ l \in announced => Wanted[l] \subseteq set_bits[l] \cup applied[l]
    /\ \A k \in Kinds : open[l][k] > 0 => l \in announced

(* Only parameters of the configuration are asked for. *)
OnlyWanted == \A l \in Lidars : set_bits[l] \subseteq ConfigOf(l)

(* The lidars of the file have their place from the start. *)
ListedKnown == listed \subseteq known

ConfigInv == TypeOK /\ ListedKnown /\ OnlyWanted /\ Pending /\ NoLostBit /\ SamplingIsConfigured

LEMMA AskType ==
  ASSUME TypeOK, NEW l \in Lidars, NEW asked, Ask(l, asked)
  PROVE  /\ open' \in [Lidars -> [Kinds -> 0 .. MaxOpen]]
         /\ \A m \in Lidars, k \in Kinds :
              open'[m][k] = IF m = l /\ k \in asked THEN open[m][k] + 1 ELSE open[m][k]
<1>1. \A k \in Kinds : open[l][k] \in 0 .. MaxOpen BY DEF TypeOK
<1>2. [k \in Kinds |-> IF k \in asked THEN open[l][k] + 1 ELSE open[l][k]] \in [Kinds -> 0 .. MaxOpen]
  <2> SUFFICES ASSUME NEW k \in Kinds
               PROVE  (IF k \in asked THEN open[l][k] + 1 ELSE open[l][k]) \in 0 .. MaxOpen
    OBVIOUS
  <2>1. CASE k \in asked BY <1>1, <2>1, OpenAssumption DEF Ask
  <2>2. CASE k \notin asked BY <1>1, <2>2
  <2> QED BY <2>1, <2>2
<1>3. open' = [open EXCEPT ![l] = [k \in Kinds |-> IF k \in asked THEN @[k] + 1 ELSE @[k]]]
  BY DEF Ask
<1> QED BY <1>2, <1>3 DEF TypeOK

LEMMA CloseType ==
  ASSUME TypeOK, NEW l \in Lidars, NEW k \in Kinds, Close(l, k)
  PROVE  /\ open' \in [Lidars -> [Kinds -> 0 .. MaxOpen]]
         /\ open[l][k] > 0
         /\ \A m \in Lidars, j \in Kinds :
              open'[m][j] = IF m = l /\ j = k THEN open[m][j] - 1 ELSE open[m][j]
<1>1. open[l][k] \in 0 .. MaxOpen /\ open[l][k] > 0 BY DEF TypeOK, Close
<1>2. open[l][k] - 1 \in 0 .. MaxOpen BY <1>1, OpenAssumption
<1>3. open' = [open EXCEPT ![l] = [open[l] EXCEPT ![k] = open[l][k] - 1]] BY DEF Close
<1> QED BY <1>1, <1>2, <1>3 DEF TypeOK

(* A step that closes at most one request of a kind that is no parameter    *)
(* and touches neither bits nor states keeps the invariant. *)
LEMMA Harmless ==
  ASSUME ConfigInv, NEW l \in Lidars, NEW k \in Others, Close(l, k) \/ UNCHANGED open,
         UNCHANGED <<listed, known, set_bits, connect_state, announced, applied, refused>>,
         normal' = normal \/ normal' = normal \cup {l}
  PROVE  ConfigInv'
<1> USE DEF ConfigInv, Kinds
<1>1. open' \in [Lidars -> [Kinds -> 0 .. MaxOpen]] /\ open \in [Lidars -> [Kinds -> 0 .. MaxOpen]]
  BY CloseType DEF TypeOK
<1>2. \A m \in Lidars, j \in Params : open'[m][j] = open[m][j]
  BY CloseType, KindAssumption
<1>3. \A m \in Lidars, j \in Kinds : open'[m][j] > 0 => open[m][j] > 0
  <2>1. CASE UNCHANGED open BY <2>1
  <2>2. CASE Close(l, k)
    <3> SUFFICES ASSUME NEW m \in Lidars, NEW j \in Kinds, open'[m][j] > 0 PROVE open[m][j] > 0
      OBVIOUS
    <3>1. open[m][j] \in Nat BY <1>1, OpenAssumption
    <3> QED BY <2>2, <3>1, CloseType
  <2> QED BY <2>1, <2>2
<1>4. TypeOK' BY <1>1 DEF TypeOK
<1>5. Pending' BY <1>3, LidarAssumption DEF Pending, TypeOK
<1>6. NoLostBit'
  BY <1>2 DEF NoLostBit, TypeOK
<1>7. SamplingIsConfigured' BY DEF SamplingIsConfigured
<1>8. OnlyWanted' BY DEF OnlyWanted, ConfigOf
<1>9. ListedKnown' BY DEF ListedKnown
<1> QED BY <1>4, <1>5, <1>6, <1>7, <1>8, <1>9

LEMMA InfoChangeStep == ASSUME ConfigInv, NEW l \in Lidars, InfoChange(l) PROVE ConfigInv'
<1> USE DEF ConfigInv
<1> DEFINE asked == ConfigOf(l) \cup Others
<1>0. ConfigOf(l) \subseteq Params BY WantedAssumption DEF ConfigOf
<1>1. Ask(l, asked) BY DEF InfoChange
<1>2. /\ open' \in [Lidars -> [Kinds -> 0 .. MaxOpen]]
      /\ \A m \in Lidars, k \in Kinds :
           open'[m][k] = IF m = l /\ k \in asked THEN open[m][k] + 1 ELSE open[m][k]
  BY <1>1, AskType
<1>3. \A m \in Lidars, k \in Kinds : open[m][k] \in Nat BY OpenAssumption DEF TypeOK
<1>4. set_bits' = [set_bits EXCEPT ![l] = set_bits[l] \cup ConfigOf(l)] /\ announced' = announced \cup {l}
      /\ refused' = [refused EXCEPT ![l] = {}]
      /\ UNCHANGED <<listed, known, connect_state, applied, normal>>
  BY DEF InfoChange
<1>5. TypeOK' BY <1>0, <1>2, <1>4 DEF TypeOK
<1>6. Pending'
  <2> SUFFICES ASSUME NEW m \in listed
               PROVE  /\ m \in announced' => Wanted[m] \subseteq set_bits'[m] \cup applied'[m]
                      /\ \A k \in Kinds : open'[m][k] > 0 => m \in announced'
    BY <1>4 DEF Pending
  <2>1. m \in Lidars BY LidarAssumption DEF TypeOK
  <2>2. CASE m = l BY <1>4, <2>1, <2>2 DEF ConfigOf, TypeOK
  <2>3. CASE m # l BY <1>2, <1>4, <2>1, <2>3 DEF Pending, TypeOK
  <2> QED BY <2>2, <2>3
<1>7. NoLostBit'
  <2> SUFFICES ASSUME NEW m \in Lidars, NEW p \in set_bits'[m]
               PROVE  open'[m][p] > 0 \/ p \in refused'[m]
    BY DEF NoLostBit
  <2>0. p \in Params /\ p \in Kinds BY <1>5 DEF TypeOK, Kinds
  <2>1. CASE m = l /\ p \in ConfigOf(l) BY <1>2, <1>3, <2>0, <2>1
  <2>2. CASE m # l BY <1>2, <1>4, <2>0, <2>2 DEF NoLostBit, TypeOK
  <2>3. CASE m = l /\ p \notin ConfigOf(l)
    <3>1. p \in set_bits[m] BY <1>4, <2>3 DEF TypeOK
    <3> QED BY <3>1, <2>3 DEF OnlyWanted
  <2> QED BY <2>1, <2>2, <2>3
<1>8. SamplingIsConfigured' BY <1>4 DEF SamplingIsConfigured
<1>9. OnlyWanted' BY <1>4 DEF OnlyWanted, TypeOK, ConfigOf
<1>10. ListedKnown' BY <1>4 DEF ListedKnown
<1> QED BY <1>5, <1>6, <1>7, <1>8, <1>9, <1>10

LEMMA AddLidarStep == ASSUME ConfigInv, NEW l \in Lidars, AddLidar(l) PROVE ConfigInv'
<1> USE DEF ConfigInv
<1>1. Ask(l, {"mode", "imu"}) BY DEF AddLidar
<1>2. /\ open' \in [Lidars -> [Kinds -> 0 .. MaxOpen]]
      /\ \A m \in Lidars, k \in Kinds :
           open'[m][k] = IF m = l /\ k \in {"mode", "imu"} THEN open[m][k] + 1 ELSE open[m][k]
  BY <1>1, AskType
<1>3. announced' = announced \cup {l} /\ known' = known \cup {l}
      /\ UNCHANGED <<listed, set_bits, connect_state, applied, refused, normal>>
  BY DEF AddLidar
<1>5. TypeOK' BY <1>2, <1>3 DEF TypeOK
<1>6. Pending'
  <2> SUFFICES ASSUME NEW m \in listed
               PROVE  /\ m \in announced' => Wanted[m] \subseteq set_bits'[m] \cup applied'[m]
                      /\ \A k \in Kinds : open'[m][k] > 0 => m \in announced'
    BY <1>3 DEF Pending
  <2>1. m \in Lidars BY LidarAssumption DEF TypeOK
  <2>2. m # l BY DEF AddLidar, ListedKnown
  <2> QED BY <1>2, <1>3, <2>1, <2>2 DEF Pending
<1>7. NoLostBit'
  <2> SUFFICES ASSUME NEW m \in Lidars, NEW p \in set_bits[m]
               PROVE  open'[m][p] > 0 \/ p \in refused'[m]
    BY <1>3 DEF NoLostBit
  <2>1. p \in Params /\ p \in Kinds /\ p \notin {"mode", "imu"}
    BY KindAssumption DEF TypeOK, Kinds, Others
  <2> QED BY <1>2, <1>3, <2>1 DEF NoLostBit
<1>8. SamplingIsConfigured' BY <1>3 DEF SamplingIsConfigured
<1>9. OnlyWanted' BY <1>3 DEF OnlyWanted, ConfigOf
<1>10. ListedKnown' BY <1>3 DEF ListedKnown
<1> QED BY <1>5, <1>6, <1>7, <1>8, <1>9, <1>10

LEMMA AcknowledgeStep ==
  ASSUME ConfigInv, NEW l \in Lidars, NEW p \in Params, Acknowledge(l, p)
  PROVE  ConfigInv'
<1> USE DEF ConfigInv
<1>0. p \in Kinds BY DEF Kinds
<1>1. Close(l, p) BY DEF Acknowledge
<1>2. /\ open' \in [Lidars -> [Kinds -> 0 .. MaxOpen]]
      /\ open[l][p] > 0
      /\ \A m \in Lidars, j \in Kinds :
           open'[m][j] = IF m = l /\ j = p THEN open[m][j] - 1 ELSE open[m][j]
  BY <1>0, <1>1, CloseType
<1>3. /\ set_bits' = [set_bits EXCEPT ![l] = set_bits[l] \ {p}]
      /\ connect_state' = [connect_state EXCEPT ![l] = StateAfter(l, set_bits[l] \ {p})]
      /\ applied' = [applied EXCEPT ![l] = applied[l] \cup {p}]
      /\ UNCHANGED <<listed, known, announced, refused, normal>>
  BY DEF Acknowledge, BitsAfter
<1>4. TypeOK' BY <1>2, <1>3 DEF TypeOK, StateAfter
<1>5. \A m \in Lidars, k \in Kinds : open'[m][k] > 0 => open[m][k] > 0
  <2> SUFFICES ASSUME NEW m \in Lidars, NEW k \in Kinds, open'[m][k] > 0 PROVE open[m][k] > 0
    OBVIOUS
  <2>1. open[m][k] \in Nat BY OpenAssumption DEF TypeOK
  <2> QED BY <1>2, <2>1
<1>6. Pending'
  <2> SUFFICES ASSUME NEW m \in listed
               PROVE  /\ m \in announced' => Wanted[m] \subseteq set_bits'[m] \cup applied'[m]
                      /\ \A k \in Kinds : open'[m][k] > 0 => m \in announced'
    BY <1>3 DEF Pending
  <2>1. m \in Lidars BY LidarAssumption DEF TypeOK
  <2>2. CASE m = l BY <1>3, <1>5, <2>1, <2>2 DEF Pending, TypeOK
  <2>3. CASE m # l BY <1>3, <1>5, <2>1, <2>3 DEF Pending, TypeOK
  <2> QED BY <2>2, <2>3
<1>7. NoLostBit'
  <2> SUFFICES ASSUME NEW m \in Lidars, NEW q \in set_bits'[m]
               PROVE  open'[m][q] > 0 \/ q \in refused'[m]
    BY DEF NoLostBit
  <2>1. q \in set_bits[m] /\ (m = l => q # p) BY <1>3 DEF TypeOK
  <2>2. q \in Kinds BY <1>4 DEF TypeOK, Kinds
  <2> QED BY <1>2, <1>3, <2>1, <2>2 DEF NoLostBit
<1>8. SamplingIsConfigured'
  <2> SUFFICES ASSUME NEW m \in listed, connect_state'[m] = "sampling"
               PROVE  Wanted[m] \subseteq applied'[m]
    BY <1>3 DEF SamplingIsConfigured
  <2>1. m \in Lidars BY LidarAssumption DEF TypeOK
  <2>2. applied[m] \subseteq applied'[m] BY <1>3, <2>1 DEF TypeOK
  <2>3. CASE connect_state[m] = "sampling" BY <2>2, <2>3 DEF SamplingIsConfigured
  <2>4. CASE connect_state[m] # "sampling"
    <3>1. m = l /\ set_bits[l] \ {p} = {} BY <1>3, <2>1, <2>4 DEF TypeOK, StateAfter
    <3>2. l \in announced BY <1>0, <1>2, <3>1 DEF Pending
    <3> QED BY <1>3, <2>1, <3>1, <3>2 DEF Pending, TypeOK
  <2> QED BY <2>3, <2>4
<1>9. OnlyWanted' BY <1>3 DEF OnlyWanted, TypeOK, ConfigOf
<1>10. ListedKnown' BY <1>3 DEF ListedKnown
<1> QED BY <1>4, <1>6, <1>7, <1>8, <1>9, <1>10

LEMMA RefuseStep ==
  ASSUME ConfigInv, NEW l \in Lidars, NEW p \in Params, Refuse(l, p)
  PROVE  ConfigInv'
<1> USE DEF ConfigInv
<1>0. p \in Kinds BY DEF Kinds
<1>1. /\ open' \in [Lidars -> [Kinds -> 0 .. MaxOpen]]
      /\ \A m \in Lidars, j \in Kinds :
           open'[m][j] = IF m = l /\ j = p THEN open[m][j] - 1 ELSE open[m][j]
  BY <1>0, CloseType DEF Refuse
<1>2. /\ refused' = [refused EXCEPT ![l] = refused[l] \cup {p}]
      /\ UNCHANGED <<listed, known, set_bits, connect_state, announced, applied, normal>>
  BY DEF Refuse
<1>3. TypeOK' BY <1>1, <1>2 DEF TypeOK
<1>4. Pending'
  <2> SUFFICES ASSUME NEW m \in listed, NEW k \in Kinds, open'[m][k] > 0
               PROVE  open[m][k] > 0
    BY <1>2 DEF Pending
  <2>1. m \in Lidars /\ open[m][k] \in Nat BY LidarAssumption, OpenAssumption DEF TypeOK
  <2> QED BY <1>1, <2>1
<1>5. NoLostBit'
  <2> SUFFICES ASSUME NEW m \in Lidars, NEW q \in set_bits[m]
               PROVE  open'[m][q] > 0 \/ q \in refused'[m]
    BY <1>2 DEF NoLostBit
  <2>1. q \in Kinds BY DEF TypeOK, Kinds
  <2>2. CASE m = l /\ q = p BY <1>2, <2>2 DEF TypeOK
  <2>3. CASE ~(m = l /\ q = p) BY <1>1, <1>2, <2>1, <2>3 DEF NoLostBit, TypeOK
  <2> QED BY <2>2, <2>3
<1>6. SamplingIsConfigured' BY <1>2 DEF SamplingIsConfigured
<1>7. OnlyWanted' BY <1>2 DEF OnlyWanted, ConfigOf
<1>8. ListedKnown' BY <1>2 DEF ListedKnown
<1> QED BY <1>3, <1>4, <1>5, <1>6, <1>7, <1>8

(* Every step keeps the invariant. *)
LEMMA ConfigStep == ConfigInv /\ [Next]_vars => ConfigInv'
<1> SUFFICES ASSUME ConfigInv, [Next]_vars PROVE ConfigInv' OBVIOUS
<1>1. CASE UNCHANGED vars
  BY <1>1 DEF vars, ConfigInv, TypeOK, Pending, OnlyWanted, ListedKnown, NoLostBit, SamplingIsConfigured, ConfigOf
<1>2. ASSUME NEW l \in Lidars, InfoChange(l) PROVE ConfigInv' BY <1>2, InfoChangeStep
<1>3. ASSUME NEW l \in Lidars, AddLidar(l) PROVE ConfigInv' BY <1>3, AddLidarStep
<1>4. ASSUME NEW l \in Lidars, NEW p \in Params, Acknowledge(l, p) PROVE ConfigInv'
  BY <1>4, AcknowledgeStep
<1>5. ASSUME NEW l \in Lidars, NEW p \in Params, Refuse(l, p) PROVE ConfigInv' BY <1>5, RefuseStep
<1>6. ASSUME NEW l \in Lidars, NEW k \in Kinds, Timeout(l, k) PROVE ConfigInv'
  BY <1>6, Harmless DEF Timeout, Resend, history, Others
<1>7. ASSUME NEW l \in Lidars, EndAttitude(l) PROVE ConfigInv'
  BY <1>7, Harmless DEF EndAttitude, history, Others
<1>8. ASSUME NEW l \in Lidars, ModeChanged(l) PROVE ConfigInv'
  BY <1>8, Harmless DEF ModeChanged, Others
<1>9. ASSUME NEW l \in Lidars, NEW timeout \in BOOLEAN, NEW response \in BOOLEAN,
             ImuAnswered(l, timeout, response) PROVE ConfigInv'
  BY <1>9, Harmless DEF ImuAnswered, Resend, history, Others
<1> QED BY <1>1, <1>2, <1>3, <1>4, <1>5, <1>6, <1>7, <1>8, <1>9 DEF Next

LEMMA ConfigStart == Init => ConfigInv
  BY LidarAssumption, OpenAssumption, WantedAssumption
  DEF Init, ConfigInv, TypeOK, Pending, OnlyWanted, ListedKnown, NoLostBit, SamplingIsConfigured

(* Type correctness for any lidars, configuration and table. *)
THEOREM TypeCorrect == Spec => []TypeOK
<1>1. ConfigInv => TypeOK BY DEF ConfigInv
<1> QED BY ConfigStart, ConfigStep, <1>1, PTL DEF Spec

(* No interleaving of answers, timeouts and announcements starts a lidar of *)
(* the file before all its parameters have been acknowledged. *)
THEOREM NoEarlySampling == Spec => []SamplingIsConfigured
<1>1. ConfigInv => SamplingIsConfigured BY DEF ConfigInv
<1> QED BY ConfigStart, ConfigStep, <1>1, PTL DEF Spec

(* Every set bit has a request open for it or a refusal on record. *)
THEOREM NoBitIsLost == Spec => []NoLostBit
<1>1. ConfigInv => NoLostBit BY DEF ConfigInv
<1> QED BY ConfigStart, ConfigStep, <1>1, PTL DEF Spec

-----------------------------------------------------------------------------
(* The relocalization. *)

Frame == {"identity", "registered"}

RelocType ==
  /\ done \in BOOLEAN /\ latched \in Frame
  /\ transit \in Seq([size : ScanSizes, frame : Frame])

(* A transform is published for the registered result only. *)
TfIsResult ==
  /\ done => result = "registered"
  /\ tf \subseteq {"registered"} /\ (tf # {} => done)

(* Until the registration has ended no cloud, on its way or taken in, has   *)
(* been moved. *)
UnmovedBefore ==
  /\ latched # "identity" => done
  /\ ~done => \A i \in DOMAIN transit : transit[i].frame = "identity"
  /\ accumulated \subseteq {"identity"}

RelocInv == RelocType /\ TfIsResult /\ UnmovedBefore

LEMMA RelocInit == Reloc!Init => RelocInv
<1> SUFFICES ASSUME Reloc!Init PROVE RelocInv OBVIOUS
<1>1. /\ transit = <<>> /\ tf = {} /\ latched = "identity" /\ accumulated = {} /\ done = FALSE
  BY DEF Reloc!Init
<1>2. <<>> \in Seq([size : ScanSizes, frame : Frame]) /\ DOMAIN (<<>>) = {} OBVIOUS
<1>3. RelocType BY <1>1, <1>2 DEF RelocType, Frame
<1>4. TfIsResult BY <1>1 DEF TfIsResult
<1>5. \A i \in DOMAIN transit : transit[i].frame = "identity" BY <1>1, <1>2
<1>6. UnmovedBefore BY <1>1, <1>5 DEF UnmovedBefore
<1> QED BY <1>3, <1>4, <1>6 DEF RelocInv

LEMMA RelocKeeps == RelocInv /\ [Reloc!Next]_relocVars => RelocInv'
<1> SUFFICES ASSUME RelocInv, [Reloc!Next]_relocVars PROVE RelocInv' OBVIOUS
<1> USE DEF RelocInv
<1>1. CASE UNCHANGED relocVars
  BY <1>1 DEF relocVars, RelocType, TfIsResult, UnmovedBefore
<1>2. ASSUME NEW size \in ScanSizes, Reloc!PublishFrameWorld(size) PROVE RelocInv'
  <2>1. /\ Reloc!LookupTransform
        /\ transit' = Append(transit, [size |-> size, frame |-> latched'])
        /\ UNCHANGED <<done, result, tf, accumulated>>
    BY <1>2 DEF Reloc!PublishFrameWorld, Reloc!pile, Reloc!verdict
  <2>2. latched' = latched \/ (latched' = "registered" /\ done)
    <3>1. CASE latched = "identity" /\ tf # {}
      <4>1. latched' \in tf BY <2>1, <3>1 DEF Reloc!LookupTransform
      <4> QED BY <3>1, <4>1 DEF TfIsResult
    <3>2. CASE ~(latched = "identity" /\ tf # {}) BY <2>1, <3>2 DEF Reloc!LookupTransform
    <3> QED BY <3>1, <3>2
  <2>3. latched' \in Frame BY <2>2 DEF RelocType, Frame
  <2>4. [size |-> size, frame |-> latched'] \in [size : ScanSizes, frame : Frame] BY <2>3
  <2>5. RelocType' BY <2>1, <2>3, <2>4 DEF RelocType
  <2>6. TfIsResult' BY <2>1 DEF TfIsResult
  <2>7. ~done => latched' = "identity" BY <2>2 DEF UnmovedBefore
  <2>8. ~done => \A i \in DOMAIN transit' : transit'[i].frame = "identity"
    <3> SUFFICES ASSUME ~done, NEW i \in DOMAIN transit' PROVE transit'[i].frame = "identity"
      OBVIOUS
    <3>1. CASE i = Len(transit) + 1
      <4>1. transit'[i] = [size |-> size, frame |-> latched'] BY <2>1, <2>4, <3>1 DEF RelocType
      <4> QED BY <2>7, <4>1
    <3>2. CASE i # Len(transit) + 1
      <4>1. i \in DOMAIN transit /\ transit'[i] = transit[i] BY <2>1, <2>4, <3>2 DEF RelocType
      <4> QED BY <4>1 DEF UnmovedBefore
    <3> QED BY <3>1, <3>2
  <2>9. UnmovedBefore' BY <2>1, <2>2, <2>7, <2>8 DEF UnmovedBefore
  <2> QED BY <2>5, <2>6, <2>9
<1>3. CASE Reloc!Tick
  BY <1>3 DEF Reloc!Tick, Reloc!verdict, Reloc!odometry, RelocType, TfIsResult, UnmovedBefore
<1>4. CASE Reloc!RegisteredPcdCallback
  <2>1. /\ transit # <<>> /\ transit' = Tail(transit)
        /\ UNCHANGED <<done, result, tf, latched>>
    BY <1>4 DEF Reloc!RegisteredPcdCallback, Reloc!odometry
  <2>2. /\ transit' \in Seq([size : ScanSizes, frame : Frame])
        /\ \A i \in DOMAIN transit' : i + 1 \in DOMAIN transit /\ transit'[i] = transit[i + 1]
        /\ 1 \in DOMAIN transit /\ Head(transit) = transit[1]
    BY <2>1 DEF RelocType
  <2>3. accumulated' \subseteq {"identity"}
    <3>1. CASE done
      <4>1. accumulated' = accumulated BY <1>4, <3>1 DEF Reloc!RegisteredPcdCallback
      <4> QED BY <4>1 DEF UnmovedBefore
    <3>2. CASE ~done
      <4>1. Head(transit).frame = "identity" BY <2>2, <3>2 DEF UnmovedBefore
      <4>2. \/ accumulated' = accumulated
            \/ accumulated' = {}
            \/ accumulated' = accumulated \cup {Head(transit).frame}
        BY <1>4 DEF Reloc!RegisteredPcdCallback, Reloc!CancelRelocalization
      <4> QED BY <4>1, <4>2 DEF UnmovedBefore
    <3> QED BY <3>1, <3>2
  <2>4. RelocType' BY <2>1, <2>2 DEF RelocType
  <2>5. TfIsResult' BY <2>1 DEF TfIsResult
  <2>6. UnmovedBefore' BY <2>1, <2>2, <2>3 DEF UnmovedBefore
  <2> QED BY <2>4, <2>5, <2>6
<1>5. CASE Reloc!AbortRegistration
  BY <1>5 DEF Reloc!AbortRegistration, Reloc!pile, Reloc!odometry, RelocType, TfIsResult, UnmovedBefore
<1>6. ASSUME NEW converges \in BOOLEAN, Reloc!PerformRegistration(converges) PROVE RelocInv'
  BY <1>6 DEF Reloc!PerformRegistration, Reloc!CancelRelocalization, Reloc!odometry,
              RelocType, TfIsResult, UnmovedBefore
<1>7. CASE Reloc!PublishTransform
  BY <1>7 DEF Reloc!PublishTransform, Reloc!MayPublish, Reloc!pile, Reloc!verdict, Reloc!odometry,
              RelocType, TfIsResult, UnmovedBefore
<1> QED BY <1>1, <1>2, <1>3, <1>4, <1>5, <1>6, <1>7 DEF Reloc!Next, Reloc!RegisterTimer

(* The odometry moves its clouds by nothing but the registered transform,   *)
(* and no cloud it has moved is registered, whatever is on its way. *)
THEOREM ResultIsUsed == Reloc!Init /\ [][Reloc!Next]_relocVars => []OdometryUsesResult
<1>1. RelocInv => OdometryUsesResult
  BY DEF RelocInv, RelocType, UnmovedBefore, Frame, OdometryUsesResult, Reloc!OdometryUsesResult
<1> QED BY RelocInit, RelocKeeps, <1>1, PTL

-----------------------------------------------------------------------------
(* The IMU samples. *)

SampleType ==
  /\ list \in [Samples!Handles -> Nat]
  /\ imu_count \in Nat
  /\ pl \in Samples!Handles
  /\ ppc \in {"idle", "empty", "count", "signal"}
  /\ 0 \in Samples!Handles

(* The list of another lidar than the first only grows. *)
PushedIsThere == ppc = "empty" /\ pl # 0 => list[pl] > 0

(* A sample of the first lidar is seen by the poll thread before it sleeps, *)
(* or the SDK's thread has still to look at the count. *)
SampleIsSeen ==
  exit = "no" /\ ~skipped /\ list[0] > 0 => imu_count > 0 \/ ppc # "idle" \/ cpc = "poll"

SampleInv == SampleType /\ PushedIsThere /\ SampleIsSeen

LEMMA SampleInit == Samples!Init => SampleInv
<1> SUFFICES ASSUME Samples!Init PROVE SampleInv OBVIOUS
<1>1. 0 \in Samples!Handles BY MCAssumption DEF Samples!Handles, Samples!LddcAssumption
<1> QED BY <1>1 DEF Samples!Init, SampleInv, SampleType, PushedIsThere, SampleIsSeen

LEMMA SampleStep == SampleInv /\ [Samples!Next]_sampleVars => SampleInv'
<1> SUFFICES ASSUME SampleInv, [Samples!Next]_sampleVars PROVE SampleInv' OBVIOUS
<1> USE DEF SampleInv, SampleType, PushedIsThere, SampleIsSeen
<1>1. CASE UNCHANGED sampleVars BY <1>1 DEF sampleVars
<1>2. ASSUME NEW l \in Samples!Handles, Samples!Push(l) PROVE SampleInv'
  <2>1. /\ list' = [list EXCEPT ![l] = list[l] + 1] /\ ppc' = "empty" /\ pl' = l
        /\ UNCHANGED <<imu_count, skipped, cpc, exit>>
    BY <1>2 DEF Samples!Push, Samples!consumer
  <2>2. list'[l] > 0 BY <2>1
  <2>3. SampleType' BY <2>1
  <2> QED BY <2>1, <2>2, <2>3
<1>3. CASE (\E l \in Samples!Handles : Samples!PublishPacket(l) \/ Samples!StartSampling(l))
  BY <1>3 DEF Samples!PublishPacket, Samples!StartSampling, Samples!producer, Samples!consumer
<1>4. CASE Samples!CheckEmpty BY <1>4 DEF Samples!CheckEmpty, Samples!consumer
<1>5. CASE Samples!GetCount BY <1>5 DEF Samples!GetCount, Samples!consumer
<1>6. CASE Samples!Signal BY <1>6 DEF Samples!Signal, Samples!consumer
<1>7. CASE Samples!Distribute BY <1>7 DEF Samples!Distribute, Samples!producer
<1>8. CASE Samples!Wait
  <2>1. /\ imu_count > 0 /\ imu_count' = imu_count - 1 /\ cpc' \in {"poll", "future"}
        /\ UNCHANGED <<list, sampling, ppc, pl, exit>>
    BY <1>8 DEF Samples!Wait, Samples!producer
  <2>2. ~skipped' => cpc' = "poll"
    <3>1. skipped' = (0 \notin sampling) BY <1>8 DEF Samples!Wait
    <3>2. 0 \in sampling => cpc' = "poll" BY <1>8 DEF Samples!Wait
    <3>3. ~skipped' => 0 \in sampling BY Zenon, <3>1
    <3> QED BY <3>2, <3>3
  <2>3. SampleType' BY <2>1
  <2>4. PushedIsThere' BY <2>1
  <2>5. SampleIsSeen' BY Zenon, <2>2
  <2> QED BY <2>3, <2>4, <2>5
<1>9. CASE Samples!PublishSample
  BY <1>9 DEF Samples!PublishSample, Samples!AfterSample, Samples!producer
<1>10. CASE Samples!EndPolling BY <1>10 DEF Samples!EndPolling, Samples!producer
<1>11. CASE Samples!PollFuture BY <1>11 DEF Samples!PollFuture, Samples!producer
<1>12. CASE Samples!Exit BY <1>12 DEF Samples!Exit, Samples!producer, Samples!consumer
<1> QED
  BY <1>1, <1>2, <1>3, <1>4, <1>5, <1>6, <1>7, <1>8, <1>9, <1>10, <1>11, <1>12 DEF Samples!Next

(* No interleaving of the two threads lets the poll thread sleep over a     *)
(* sample, for any number of lidars. *)
THEOREM SampleIsPolled == Samples!Init /\ [][Samples!Next]_sampleVars => []NoSampleStranded
<1>1. SampleInv => NoSampleStranded
  BY DEF SampleInv, SampleType, SampleIsSeen, NoSampleStranded, Samples!NoSampleStranded
<1> QED BY SampleInit, SampleStep, <1>1, PTL

-----------------------------------------------------------------------------
(* The publishers. *)

(* Point clouds alone on a topic per lidar are not supported. *)
Supported == setting # <<"PointCloud2", TRUE>>

(* For both formats, the publishers of custom messages come after those of  *)
(* point clouds: the look-up that tests for the other's finds its own. *)
InPairs ==
  Samples!Format = "All" =>
    /\ \A l : Samples!Private(l) \in made => Samples!Private2(l) \in made
    /\ Samples!Global \in made => Samples!Global2 \in made

PublisherInv ==
  /\ setting \in {"PointCloud2", "Custom", "All"} \X BOOLEAN /\ Supported
  /\ InPairs
  /\ ~null_used

LEMMA PublisherInit == Samples!Init /\ Supported => PublisherInv
<1> SUFFICES ASSUME Samples!Init, Supported PROVE PublisherInv OBVIOUS
<1>1. setting \in {"PointCloud2", "Custom", "All"} \X BOOLEAN
  BY MCAssumption DEF Samples!Init, Samples!LddcAssumption
<1>2. made = {} /\ ~null_used BY DEF Samples!Init
<1> QED BY <1>1, <1>2 DEF PublisherInv, InPairs

(* What the publishers are for. *)
LEMMA PublisherTypes ==
  ASSUME NEW l
  PROVE  /\ Samples!TypeOf(Samples!Private(l)) = "Custom"
         /\ Samples!TypeOf(Samples!Private2(l)) = "PointCloud2"
         /\ Samples!TypeOf(Samples!Global2) = "PointCloud2"
         /\ Samples!Format = "All" => Samples!TypeOf(Samples!Global) = "Custom"
         /\ Samples!Format # "All" => Samples!TypeOf(Samples!Global) = Samples!Format
<1>1. Samples!Private(l)[1] = "private_pub_" BY DEF Samples!Private
<1>2. Samples!Private2(l)[1] = "private_pub_2" BY DEF Samples!Private2
<1>3. Samples!Global[1] = "global_pub_" BY DEF Samples!Global
<1>4. Samples!Global2[1] = "global_pub_2_" BY DEF Samples!Global2
<1> QED BY <1>1, <1>2, <1>3, <1>4 DEF Samples!TypeOf

(* Both messages: the point cloud first, then the custom one. *)
LEMMA BothArePublished ==
  ASSUME PublisherInv, Samples!Format = "All", NEW l, Samples!PublishBoth(l)
  PROVE  null_used' = FALSE /\ (UNCHANGED setting => InPairs')
<1> DEFINE first == Samples!PublishPointcloud2Data(made, l)
           second == Samples!PublishCustomPointData(first.made, l)
<1>1. made' = second.made /\ null_used' = (null_used \/ first.null \/ second.null)
  BY Zenon DEF Samples!PublishBoth
<1>2. /\ first.made = Samples!MadeBy2(made, l)
      /\ first.null = Samples!IsNull(first.made, Samples!Publisher2(l), "PointCloud2")
  BY DEF PublisherInv, Samples!PublishPointcloud2Data
<1>3. /\ second.made = Samples!MadeBy1(first.made, l)
      /\ second.null = Samples!IsNull(second.made, Samples!Publisher1(l), "Custom")
  BY DEF Samples!PublishCustomPointData
<1> HIDE DEF first, second
<1>4. CASE Samples!MultiTopic
  <2>1. Samples!Private2(l) \in first.made /\ first.made = made \cup {Samples!Private2(l)}
    BY <1>2, <1>4 DEF Samples!MadeBy2, PublisherInv, InPairs
  <2>2. second.made = first.made \cup {Samples!Private(l)} BY <1>3, <1>4 DEF Samples!MadeBy1
  <2>3. ~first.null
    BY <1>2, <1>4, <2>1, PublisherTypes DEF Samples!IsNull, Samples!Publisher2
  <2>4. ~second.null
    BY <1>3, <1>4, <2>2, PublisherTypes DEF Samples!IsNull, Samples!Publisher1
  <2>5. made' = made \cup {Samples!Private(l), Samples!Private2(l)} BY <1>1, <2>1, <2>2
  <2>6. ASSUME UNCHANGED setting PROVE InPairs'
    BY <2>5, <2>6 DEF PublisherInv, InPairs, Samples!Private, Samples!Private2,
                      Samples!Global, Samples!Global2, Samples!Format
  <2>7. null_used' = FALSE BY <1>1, <2>3, <2>4 DEF PublisherInv
  <2> QED BY <2>6, <2>7
<1>5. CASE ~Samples!MultiTopic
  <2>1. /\ first.made = made \cup {Samples!Global, Samples!Global2}
    BY <1>2, <1>5 DEF Samples!MadeBy2, Samples!WithGlobals, PublisherInv, InPairs
  <2>2. second.made = first.made
    BY <1>3, <1>5, <2>1 DEF Samples!MadeBy1, Samples!WithGlobals
  <2>3. ~first.null
    BY <1>2, <1>5, <2>1, PublisherTypes DEF Samples!IsNull, Samples!Publisher2
  <2>4. ~second.null
    BY <1>3, <1>5, <2>1, <2>2, PublisherTypes DEF Samples!IsNull, Samples!Publisher1
  <2>5. made' = made \cup {Samples!Global, Samples!Global2} BY <1>1, <2>1, <2>2
  <2>6. ASSUME UNCHANGED setting PROVE InPairs'
    BY <2>5, <2>6 DEF PublisherInv, InPairs, Samples!Private, Samples!Private2,
                      Samples!Global, Samples!Global2, Samples!Format
  <2>7. null_used' = FALSE BY <1>1, <2>3, <2>4 DEF PublisherInv
  <2> QED BY <2>6, <2>7
<1> QED BY <1>4, <1>5

LEMMA OneIsPublished ==
  ASSUME PublisherInv, Samples!Format # "All", NEW l, Samples!PublishOne(l)
  PROVE  null_used' = FALSE
<1> DEFINE type == IF Samples!Format = "Custom" THEN "Custom" ELSE "PointCloud2"
           one == IF Samples!Format = "Custom" THEN Samples!PublishCustomPointData(made, l)
                                              ELSE Samples!PublishPointcloud2Data(made, l)
<1>1. null_used' = (null_used \/ one.null) BY Zenon DEF Samples!PublishOne
<1>2. /\ one.made = Samples!MadeBy1(made, l)
      /\ one.null = Samples!IsNull(one.made, Samples!Publisher1(l), type)
  BY DEF Samples!PublishCustomPointData, Samples!PublishPointcloud2Data
<1>3. /\ Samples!Format = type
      /\ Samples!MultiTopic => type = "Custom"
  <2>1. PICK f \in {"PointCloud2", "Custom", "All"}, m \in BOOLEAN : setting = <<f, m>>
    BY DEF PublisherInv
  <2>2. Samples!Format = f /\ (Samples!MultiTopic <=> m)
    BY <2>1 DEF Samples!Format, Samples!MultiTopic
  <2>3. m = TRUE => f # "PointCloud2" BY <2>1 DEF PublisherInv, Supported
  <2>4. Samples!Format = type BY <2>2
  <2>5. f # "All" BY <2>2
  <2> QED BY <2>2, <2>3, <2>4, <2>5
<1> HIDE DEF one, type
<1>4. ~one.null
  <2>1. CASE Samples!MultiTopic
    BY <1>2, <1>3, <2>1, PublisherTypes DEF Samples!IsNull, Samples!Publisher1, Samples!MadeBy1
  <2>2. CASE ~Samples!MultiTopic
    BY <1>2, <1>3, <2>2, PublisherTypes
       DEF Samples!IsNull, Samples!Publisher1, Samples!MadeBy1, Samples!WithGlobals
  <2> QED BY <2>1, <2>2
<1> QED BY <1>1, <1>4 DEF PublisherInv

LEMMA PublisherKeeps == PublisherInv /\ [Samples!Next]_sampleVars => PublisherInv'
<1> SUFFICES ASSUME PublisherInv, [Samples!Next]_sampleVars PROVE PublisherInv' OBVIOUS
<1>1. CASE UNCHANGED <<setting, made, null_used>>
  BY <1>1 DEF PublisherInv, Supported, InPairs, Samples!Private, Samples!Private2,
              Samples!Global, Samples!Global2, Samples!Format
<1>2. ASSUME NEW l \in Samples!Handles, Samples!PublishPacket(l) PROVE PublisherInv'
  <2>1. UNCHANGED setting /\ Supported'
    BY <1>2 DEF Samples!PublishPacket, PublisherInv, Supported
  <2>2. CASE Samples!Format = "All"
    <3>1. Samples!PublishBoth(l) BY <1>2, <2>2 DEF Samples!PublishPacket
    <3>2. null_used' = FALSE /\ InPairs' BY <2>1, <2>2, <3>1, BothArePublished
    <3> QED BY <2>1, <3>2 DEF PublisherInv
  <2>3. CASE Samples!Format # "All"
    <3>1. Samples!PublishOne(l) BY <1>2, <2>3 DEF Samples!PublishPacket
    <3>2. null_used' = FALSE BY <2>3, <3>1, OneIsPublished
    <3>3. InPairs' BY <2>1, <2>3 DEF InPairs, Samples!Format
    <3> QED BY <2>1, <3>2, <3>3 DEF PublisherInv
  <2> QED BY <2>2, <2>3
<1> QED
  BY <1>1, <1>2 DEF sampleVars, Samples!Next, Samples!Push, Samples!StartSampling,
     Samples!CheckEmpty, Samples!GetCount, Samples!Signal, Samples!Distribute, Samples!Wait,
     Samples!PublishSample, Samples!EndPolling, Samples!PollFuture, Samples!Exit,
     Samples!publishers

(* With every setting but one, whichever lidars send and in whatever order, *)
(* a message has a publisher of its type. *)
THEOREM MessagesArePublished ==
  Samples!Init /\ Supported /\ [][Samples!Next]_sampleVars => []HasPublisher
<1>1. PublisherInv => HasPublisher BY DEF PublisherInv, HasPublisher, Samples!HasPublisher
<1> QED BY PublisherInit, PublisherKeeps, <1>1, PTL

-----------------------------------------------------------------------------
(* The map of the odometry. *)

(* A scan that may extend the map has enough points for the filter. *)
DenseScan == init_map => Len(world') <= LeastMapped \/ Len(world') >= LeastValid

MapType ==
  /\ world \in Seq(Voxels)
  /\ scan \in Nat
  /\ hits \in [Voxels -> SUBSET (1 .. scan)]
  /\ pending \subseteq Voxels

(* What is pending was hit. *)
PendingWereHit == \A v \in pending : hits[v] # {}

MapInv == MapType /\ PendingWereHit /\ ConfirmedByTwoScans

LEMMA MapStart == Map!Init => MapInv
<1> SUFFICES ASSUME Map!Init PROVE MapInv OBVIOUS
<1>1. /\ world = <<>> /\ scan = 0 /\ pending = {} /\ hits = [v \in Voxels |-> {}]
      /\ confirmed = [v \in {} |-> {}]
  BY DEF Map!Init
<1>2. MapType BY <1>1 DEF MapType
<1>3. DOMAIN confirmed = {} BY <1>1
<1>4. ConfirmedByTwoScans BY <1>3 DEF ConfirmedByTwoScans, Map!ConfirmedByTwoScans
<1> QED BY <1>1, <1>2, <1>4 DEF MapInv, PendingWereHit

LEMMA ScanLength ==
  ASSUME NEW n \in Nat, NEW sent \in [1 .. n -> Voxels]
  PROVE  sent \in Seq(Voxels) /\ Len(sent) = n /\ DOMAIN sent = 1 .. n
  OBVIOUS

LEMMA ScansAreSequences ==
  ASSUME NEW sent \in Map!Scans
  PROVE  sent \in Seq(Voxels) /\ Len(sent) \in Nat
<1>1. PICK n \in 0 .. MaxSize : sent \in [1 .. n -> Voxels] BY DEF Map!Scans
<1>2. n \in Nat BY MCAssumption DEF Map!LocalMapAssumption
<1> QED BY <1>1, <1>2, ScanLength

(* The array keeps its type and gets the length of the scan. *)
LEMMA TransformedLength ==
  ASSUME MapType, NEW sent \in Map!Scans
  PROVE  /\ Map!Transformed(sent) \in Seq(Voxels)
         /\ Len(Map!Transformed(sent)) = Len(sent)
<1> USE ScansAreSequences
<1>1. CASE Len(sent) >= LeastValid BY <1>1 DEF Map!Transformed
<1>2. CASE ~(Len(sent) >= LeastValid)
  <2> DEFINE n == Len(sent)
             resized == [i \in 1 .. n |-> IF i <= Len(world) THEN world[i] ELSE Origin]
  <2>1. n \in Nat /\ Map!Transformed(sent) = resized
    BY <1>2 DEF Map!Transformed, Map!Resized
  <2>2. resized \in [1 .. n -> Voxels]
    BY <2>1, MCAssumption DEF MapType, Map!LocalMapAssumption
  <2> HIDE DEF resized, n
  <2>3. resized \in Seq(Voxels) /\ Len(resized) = n BY <2>1, <2>2, ScanLength
  <2>4. n = Len(sent) BY DEF n
  <2> QED BY <2>1, <2>3, <2>4
<1> QED BY <1>1, <1>2

(* A scan adds its number to the voxels it hits. *)
LEMMA HitsGrow ==
  ASSUME MapType, scan' = scan + 1, NEW sent, Map!Observe(sent, scan')
  PROVE  /\ hits' \in [Voxels -> SUBSET (1 .. scan')]
         /\ \A v \in Voxels : hits[v] \subseteq hits'[v]
         /\ \A v \in Voxels : Map!Times(sent, v) # {} => scan + 1 \in hits'[v]
<1>1. \A v \in Voxels :
        hits'[v] = IF Map!Times(sent, v) = {} THEN hits[v] ELSE hits[v] \cup {scan + 1}
  BY DEF Map!Observe
<1>2. DOMAIN hits' = Voxels /\ hits' = [v \in Voxels |-> hits'[v]] BY DEF Map!Observe
<1>3. 1 .. scan \subseteq 1 .. scan' /\ scan + 1 \in 1 .. scan' BY DEF MapType
<1>4. \A v \in Voxels : hits[v] \subseteq 1 .. scan BY DEF MapType
<1>5. \A v \in Voxels : hits'[v] \in SUBSET (1 .. scan') BY <1>1, <1>3, <1>4
<1> QED BY <1>1, <1>2, <1>5

LEMMA MapKeeps == MapInv /\ [Map!Next /\ DenseScan]_mapVars => MapInv'
<1> SUFFICES ASSUME MapInv, [Map!Next /\ DenseScan]_mapVars PROVE MapInv' OBVIOUS
<1>1. CASE UNCHANGED mapVars
  BY <1>1 DEF mapVars, MapInv, MapType, PendingWereHit, ConfirmedByTwoScans,
              Map!ConfirmedByTwoScans
<1>2. ASSUME NEW sent \in Map!Scans, Map!InitScan(sent) PROVE MapInv'
  <2>1. /\ scan' = scan + 1 /\ world' = sent /\ Map!Observe(sent, scan')
        /\ UNCHANGED <<pending, confirmed>>
    BY <1>2 DEF Map!InitScan
  <2>2. MapType BY DEF MapInv
  <2>3. /\ hits' \in [Voxels -> SUBSET (1 .. scan')]
        /\ \A v \in Voxels : hits[v] \subseteq hits'[v]
    BY <2>1, <2>2, HitsGrow
  <2>4. MapType' BY <2>1, <2>2, <2>3, ScansAreSequences DEF MapType
  <2>5. PendingWereHit' BY <2>1, <2>2, <2>3 DEF MapInv, MapType, PendingWereHit
  <2>6. ConfirmedByTwoScans'
    BY <2>1 DEF MapInv, ConfirmedByTwoScans, Map!ConfirmedByTwoScans
  <2> QED BY <2>4, <2>5, <2>6 DEF MapInv
<1>3. ASSUME DenseScan, NEW sent \in Map!Scans, NEW wanted, Map!Scan(sent, wanted)
      PROVE  MapInv'
  <2>1. /\ init_map /\ scan' = scan + 1 /\ Map!Observe(sent, scan')
        /\ world' = Map!Transformed(sent)
    BY <1>3 DEF Map!Scan
  <2>2. MapType BY DEF MapInv
  <2>3. /\ hits' \in [Voxels -> SUBSET (1 .. scan')]
        /\ \A v \in Voxels : hits[v] \subseteq hits'[v]
        /\ \A v \in Voxels : Map!Times(sent, v) # {} => scan + 1 \in hits'[v]
    BY <2>1, <2>2, HitsGrow
  <2>4. world' \in Seq(Voxels) /\ Len(world') = Len(sent)
    BY <2>1, <2>2, TransformedLength
  <2>5. CASE ~(Len(sent) > LeastMapped)
    <3>1. UNCHANGED <<map, pending, confirmed>> BY <1>3, <2>5 DEF Map!Scan
    <3>2. MapType' BY <2>1, <2>2, <2>3, <2>4, <3>1 DEF MapType
    <3>3. PendingWereHit' BY <2>2, <2>3, <3>1 DEF MapInv, MapType, PendingWereHit
    <3>4. ConfirmedByTwoScans'
      BY <3>1 DEF MapInv, ConfirmedByTwoScans, Map!ConfirmedByTwoScans
    <3> QED BY <3>2, <3>3, <3>4 DEF MapInv
  <2>6. CASE Len(sent) > LeastMapped
    <3> DEFINE needed == Map!Needed(world', wanted)
               added == {v \in Voxels : Map!Confirms(needed, v)}
    <3>1. Map!MapIncremental(needed) BY <1>3, <2>6 DEF Map!Scan
    <3>2. world' = sent
      <4>1. LeastMapped \in Nat /\ LeastValid \in Nat
        BY MCAssumption DEF Map!LocalMapAssumption
      <4>2. Len(sent) >= LeastValid
        BY <1>3, <2>1, <2>4, <2>6, <4>1, ScansAreSequences DEF DenseScan
      <4> QED BY <2>1, <4>2 DEF Map!Transformed
    <3>3. \A v \in Voxels : needed[v] # {} => Map!Times(sent, v) # {}
      BY <3>2 DEF Map!Needed
    <3>4. /\ pending' = {v \in Voxels : Map!Pending(needed, v)}
          /\ confirmed' = [v \in added |-> hits'[v]]
      BY Zenon, <3>1 DEF Map!MapIncremental
    <3> HIDE DEF needed
    <3>5. MapType' BY <2>1, <2>2, <2>3, <2>4, <3>4 DEF MapType
    <3>6. \A v \in pending' : v \in pending \/ needed[v] # {}
      BY <3>4 DEF Map!Pending
    <3>7. PendingWereHit'
      <4> SUFFICES ASSUME NEW v \in pending' PROVE hits'[v] # {} BY DEF PendingWereHit
      <4>1. v \in Voxels BY <3>4
      <4>2. v \in pending => hits[v] # {} BY DEF MapInv, PendingWereHit
      <4> QED BY <2>3, <3>3, <3>6, <4>1, <4>2
    <3>8. ConfirmedByTwoScans'
      <4> SUFFICES ASSUME NEW v \in added PROVE \E s, t \in hits'[v] : s # t
        BY <3>4 DEF ConfirmedByTwoScans, Map!ConfirmedByTwoScans
      <4>1. v \in Voxels /\ needed[v] # {} /\ v \in pending BY DEF Map!Confirms
      <4>2. scan + 1 \in hits'[v] BY <2>3, <3>3, <4>1
      <4>3. PICK s \in hits[v] : TRUE BY <4>1 DEF MapInv, PendingWereHit
      <4>4. s \in 1 .. scan /\ s # scan + 1 BY <2>2, <4>1, <4>3 DEF MapType
      <4>5. s \in hits'[v] BY <2>3, <4>1, <4>3
      <4> QED BY <4>2, <4>4, <4>5
    <3> QED BY <3>5, <3>7, <3>8 DEF MapInv
  <2> QED BY <2>5, <2>6
<1> QED BY <1>1, <1>2, <1>3 DEF Map!Next

(* As long as no scan is too sparse for the filter and yet extends the map, *)
(* a voxel is added after two scans that hit it, however many points of a   *)
(* scan fall into a voxel and whichever the neighbours make needless. *)
THEOREM MapIsConfirmed ==
  Map!Init /\ [][Map!Next /\ DenseScan]_mapVars => []ConfirmedByTwoScans
<1>1. MapInv => ConfirmedByTwoScans BY DEF MapInv
<1> QED BY MapStart, MapKeeps, <1>1, PTL

-----------------------------------------------------------------------------
(* The merge of two lidars. *)

(* A part of a way, rounded, is not longer than the way. *)
LEMMA RoundedUp ==
  ASSUME NEW n \in Nat, NEW d \in Nat \ {0}
  PROVE  (2 * n + d) \div (2 * d) \in 0 .. n
<1> DEFINE q == (2 * n + d) \div (2 * d)
<1>1. 2 * d \in Nat \ {0} /\ 2 * n + d \in Nat OBVIOUS
<1>2. \A a \in Nat, b \in Nat \ {0} : a \div b \in Nat /\ b * (a \div b) <= a OBVIOUS
<1>3. q \in Nat /\ (2 * d) * q <= 2 * n + d BY Zenon, <1>1, <1>2
<1> HIDE DEF q
<1>4. q <= n
  <2> SUFFICES ASSUME q >= n + 1 PROVE FALSE BY <1>3
  <2>1. \A a, b, c \in Nat : a >= b => c * a >= c * b OBVIOUS
  <2>2. d * q >= d * (n + 1) BY <1>3, <2>1
  <2>3. d * n >= 1 * n
    <3>1. \A a, b, c \in Nat : a >= b => a * c >= b * c OBVIOUS
    <3> QED BY <3>1
  <2>4. d * (n + 1) = d * n + d OBVIOUS
  <2>5. (2 * d) * q = 2 * (d * q) BY <1>3
  <2>6. d * q \in Nat /\ d * n \in Nat BY <1>3
  <2> DEFINE x == d * q
             y == d * n
  <2>7. x \in Nat /\ y \in Nat /\ x >= y + d /\ y >= n /\ 2 * x <= 2 * n + d
    BY <1>3, <2>2, <2>3, <2>4, <2>5, <2>6
  <2> HIDE DEF x, y
  <2> QED BY <2>7
<1> QED BY <1>3, <1>4 DEF q

LEMMA RoundedBetween ==
  ASSUME NEW n \in Int, NEW d \in Nat \ {0}
  PROVE  /\ Merge!Rounded(n, d) \in Int
         /\ n >= 0 => 0 <= Merge!Rounded(n, d) /\ Merge!Rounded(n, d) <= n
         /\ n < 0 => n <= Merge!Rounded(n, d) /\ Merge!Rounded(n, d) <= 0
<1>1. CASE n >= 0
  <2>1. (2 * n + d) \div (2 * d) \in 0 .. n BY <1>1, RoundedUp
  <2> QED BY <1>1, <2>1 DEF Merge!Rounded
<1>2. CASE n < 0
  <2> DEFINE m == -n
  <2>1. m \in Nat /\ 2 * m + d = d - 2 * n BY <1>2
  <2>2. (2 * m + d) \div (2 * d) \in 0 .. m BY <2>1, RoundedUp
  <2>3. (d - 2 * n) \div (2 * d) \in 0 .. m BY <2>1, <2>2
  <2>4. Merge!Rounded(n, d) = -((d - 2 * n) \div (2 * d)) BY <1>2 DEF Merge!Rounded
  <2> QED BY <1>2, <2>3, <2>4
<1> QED BY <1>1, <1>2

(* The difference of the timebases of a pair of this kind, but for the      *)
(* jitter. *)
Center(kind) == ClockOffset + kind * Period

LEMMA Centers ==
  ASSUME NEW k \in {-1, 0, 1}, NEW l \in {-1, 0, 1}, k # l
  PROVE  /\ Center(k) \in Int /\ Center(l) \in Int
         /\ Center(k) - Center(l) >= Period \/ Center(l) - Center(k) >= Period
<1>1. Period \in Nat /\ ClockOffset \in Nat BY MCAssumption DEF Merge!LidarMergeAssumption
<1>2. /\ Center(-1) = ClockOffset - Period /\ Center(0) = ClockOffset
      /\ Center(1) = ClockOffset + Period
  BY <1>1 DEF Center
<1> QED BY <1>1, <1>2

LEMMA CenterType == ASSUME NEW k \in {-1, 0, 1} PROVE Center(k) \in Int
<1>1. Period \in Nat /\ ClockOffset \in Nat BY MCAssumption DEF Merge!LidarMergeAssumption
<1> QED BY <1>1 DEF Center

(* The estimate stays within the jitter of one kind of pairs, and only pairs *)
(* of that kind are merged. *)
Follows(J, k) ==
  /\ estimated_clock_offset \in Center(k) - J .. Center(k) + J
  /\ kinds \subseteq {k}

(* The estimate after a measurement of the same kind. *)
LEMMA StaysWithin ==
  ASSUME NEW J \in Nat, NEW c \in Int, NEW e \in c - J .. c + J, NEW m \in c - J .. c + J
  PROVE  e + Merge!Rounded(m - e, Smoothing) \in c - J .. c + J
<1>1. Smoothing \in Nat \ {0} BY MCAssumption DEF Merge!LidarMergeAssumption
<1> DEFINE r == Merge!Rounded(m - e, Smoothing)
<1>2. m - e \in Int OBVIOUS
<1>3. /\ r \in Int
      /\ m - e >= 0 => 0 <= r /\ r <= m - e
      /\ m - e < 0 => m - e <= r /\ r <= 0
  BY <1>1, <1>2, RoundedBetween
<1> HIDE DEF r
<1> QED BY <1>3 DEF r

(* Whatever the lidars' clocks, as long as the jitter of the pairs, twice,   *)
(* and the permitted jump are shorter than a period. *)
THEOREM OneKindIsMerged ==
  ASSUME NEW J \in Nat, Jitters \subseteq -J .. J, MaxJump + 2 * J < Period
  PROVE  Merge!Init /\ [][Merge!Next]_mergeVars => []PairsAgree
<1> DEFINE MergeInv ==
             /\ clock_offset_initialized \in BOOLEAN
             /\ ~clock_offset_initialized => kinds = {}
             /\ clock_offset_initialized => \E k \in {-1, 0, 1} : Follows(J, k)
<1>1. Merge!Init => MergeInv BY DEF Merge!Init
<1>2. MergeInv /\ [Merge!Next]_mergeVars => MergeInv'
  <2> SUFFICES ASSUME MergeInv, [Merge!Next]_mergeVars PROVE MergeInv' OBVIOUS
  <2>1. CASE UNCHANGED <<clock_offset_initialized, estimated_clock_offset, kinds>>
    BY <2>1 DEF Follows
  <2>2. ASSUME NEW base1 \in Bases, NEW kind \in {-1, 0, 1}, NEW jitter \in Jitters,
               NEW points1, NEW points2,
               Merge!MergePair(kind, base1, base1 + ClockOffset + kind * Period + jitter,
                               points1, points2)
        PROVE  MergeInv'
    <3> DEFINE base2 == base1 + ClockOffset + kind * Period + jitter
               measured == base2 - base1
    <3>1. /\ base1 \in Nat /\ jitter \in -J .. J /\ Period \in Nat /\ ClockOffset \in Nat
          /\ MaxJump \in Nat
      BY MCAssumption DEF Merge!LidarMergeAssumption
    <3>2. measured = Center(kind) + jitter
      <4>1. kind * Period \in Int BY <3>1
      <4> QED BY <3>1, <4>1 DEF Center
    <3>3. measured \in Center(kind) - J .. Center(kind) + J BY <3>1, <3>2, CenterType
    <3>4. Merge!Accepts(measured) /\ Merge!UpdateClockOffset(measured)
      BY <2>2 DEF Merge!MergePair
    <3>5. kinds' = kinds \/ kinds' = kinds \cup {kind} BY <2>2, Zenon DEF Merge!MergePair
    <3> HIDE DEF measured, base2
    <3>6. clock_offset_initialized' = TRUE BY <3>4 DEF Merge!UpdateClockOffset
    <3>7. CASE ~clock_offset_initialized
      <4>1. estimated_clock_offset' = measured BY <3>4, <3>7 DEF Merge!UpdateClockOffset
      <4>2. kinds' \subseteq {kind} BY <3>5, <3>7
      <4>3. Follows(J, kind)' BY <3>3, <4>1, <4>2 DEF Follows, Center
      <4> QED BY <3>6, <4>3
    <3>8. CASE clock_offset_initialized
      <4>1. PICK k \in {-1, 0, 1} : Follows(J, k) BY <3>8
      <4> DEFINE estimate == estimated_clock_offset
      <4>2. estimate \in Center(k) - J .. Center(k) + J BY <4>1 DEF Follows
      <4>3. Merge!Distance(measured, estimate) <= MaxJump BY <3>4, <3>8 DEF Merge!Accepts
      <4>4. k = kind
        <5> SUFFICES ASSUME k # kind PROVE FALSE OBVIOUS
        <5> DEFINE a == Center(k)
                   b == Center(kind)
        <5>1. a \in Int /\ b \in Int /\ (a - b >= Period \/ b - a >= Period) BY Centers
        <5>2. estimate \in a - J .. a + J /\ measured \in b - J .. b + J BY <3>3, <4>2
        <5> HIDE DEF a, b, estimate
        <5>3. measured - estimate <= MaxJump /\ estimate - measured <= MaxJump
          BY <3>1, <4>3, <5>1, <5>2 DEF Merge!Distance
        <5> QED BY <3>1, <5>1, <5>2, <5>3
      <4>5. estimated_clock_offset' = estimate + Merge!Rounded(measured - estimate, Smoothing)
        BY <3>4, <3>8 DEF Merge!UpdateClockOffset
      <4>6. estimated_clock_offset' \in Center(kind) - J .. Center(kind) + J
        BY <3>3, <4>2, <4>4, <4>5, CenterType, StaysWithin
      <4>7. kinds' \subseteq {kind} BY <3>5, <4>1, <4>4 DEF Follows
      <4>8. Follows(J, kind)' BY <4>6, <4>7 DEF Follows, Center
      <4> QED BY <3>6, <4>8
    <3> QED BY <3>7, <3>8
  <2> QED
    BY <2>1, <2>2 DEF mergeVars, Merge!Next, Merge!SyncCallback, Merge!DropPair, Merge!vars,
                      Merge!RefusePair
<1>3. MergeInv => PairsAgree BY DEF Follows, PairsAgree, Merge!PairsAgree
<1> QED BY <1>1, <1>2, <1>3, PTL

-----------------------------------------------------------------------------
(* The packets. *)

Packet == [lidar : Senders, time : Int, number : Nat]

(* The points of a lidar that have been published or are collected. *)
taken == [l \in Senders |-> emitted[l] + Len(cloud[l])]

PacketType ==
  /\ now \in Int
  /\ queue \in Seq(Packet)
  /\ cloud \in [Senders -> Seq(Nat)]
  /\ emitted \in [Senders -> Nat] /\ received \in [Senders -> Nat]
  /\ \A l \in Senders : taken[l] <= received[l]

CollectedInOrder == \A l \in Senders : \A i \in 1 .. Len(cloud[l]) : cloud[l][i] = emitted[l] + i

(* The queue holds what was received and not yet taken, in order. *)
Within == \A i \in DOMAIN queue : queue[i].number \in taken[queue[i].lidar] + 1 .. received[queue[i].lidar]
Complete ==
  \A l \in Senders : \A n \in taken[l] + 1 .. received[l] :
    \E i \in DOMAIN queue : queue[i].lidar = l /\ queue[i].number = n
QueuedInOrder ==
  \A i, j \in DOMAIN queue :
    i < j /\ queue[i].lidar = queue[j].lidar => queue[i].number < queue[j].number

PacketInv == PacketType /\ CollectedInOrder /\ Within /\ Complete /\ QueuedInOrder

LEMMA PacketFields ==
  ASSUME NEW packets \in Seq(Packet), NEW i \in DOMAIN packets
  PROVE  packets[i].lidar \in Senders /\ packets[i].number \in Nat
<1>1. packets[i] \in Packet OBVIOUS
<1> QED BY <1>1 DEF Packet

LEMMA PacketInit == Packets!Init => PacketInv
<1> SUFFICES ASSUME Packets!Init PROVE PacketInv OBVIOUS
<1>1. /\ now = Skew + 1 /\ queue = <<>> /\ cloud = [l \in Senders |-> <<>>]
      /\ received = [l \in Senders |-> 0] /\ emitted = [l \in Senders |-> 0]
  BY DEF Packets!Init
<1>2. Skew \in Nat BY MCAssumption DEF Packets!PubHandlerAssumption
<1>3. <<>> \in Seq(Nat) /\ Len(<<>>) = 0 /\ <<>> \in Seq(Packet) OBVIOUS
<1>4. cloud \in [Senders -> Seq(Nat)] BY <1>1, <1>3
<1>5. \A l \in Senders : taken[l] = 0 BY <1>1, <1>3 DEF taken
<1>6. PacketType BY <1>1, <1>2, <1>3, <1>4, <1>5 DEF PacketType
<1>7. CollectedInOrder BY <1>1, <1>3 DEF CollectedInOrder
<1>8. DOMAIN queue = {} BY <1>1
<1>9. Within /\ QueuedInOrder BY <1>8 DEF Within, QueuedInOrder
<1>10. Complete BY <1>1, <1>5 DEF Complete
<1> QED BY <1>6, <1>7, <1>9, <1>10 DEF PacketInv

(* A packet arrives. *)
LEMMA OnPacketKeeps ==
  ASSUME PacketInv, NEW l \in Senders, NEW sync \in BOOLEAN, Packets!OnPacket(l, sync)
  PROVE  PacketInv'
<1> DEFINE packet == [lidar |-> l, time |-> Packets!Stamp(sync), number |-> received[l] + 1]
           n == Len(queue)
<1>1. /\ received' = [received EXCEPT ![l] = received[l] + 1]
      /\ queue' = Append(queue, packet)
      /\ UNCHANGED <<now, cloud, emitted>>
  BY DEF Packets!OnPacket, Packets!collected
<1>2. Packets!Stamp(sync) \in Int
  BY MCAssumption DEF Packets!Stamp, Packets!PubHandlerAssumption, PacketInv, PacketType
<1>3. packet \in Packet BY <1>2 DEF Packet, PacketInv, PacketType
<1>4. packet.lidar = l /\ packet.number = received[l] + 1 OBVIOUS
<1> HIDE DEF packet
<1>5. queue \in Seq(Packet) /\ n \in Nat /\ DOMAIN queue = 1 .. n BY DEF PacketInv, PacketType
<1>6. /\ queue' \in Seq(Packet) /\ DOMAIN queue' = 1 .. n + 1
      /\ queue'[n + 1] = packet
      /\ \A i \in 1 .. n : queue'[i] = queue[i]
  BY <1>1, <1>3, <1>5
<1> HIDE DEF n
<1>7. taken' = taken BY <1>1 DEF taken
<1>8. \A m \in Senders : taken[m] \in Nat /\ received[m] \in Nat /\ taken[m] <= received[m]
  BY DEF PacketInv, PacketType, taken
<1>9. \A m \in Senders : received'[m] = IF m = l THEN received[m] + 1 ELSE received[m]
  BY <1>1 DEF PacketInv, PacketType
<1>10. received' \in [Senders -> Nat] BY <1>1, <1>8 DEF PacketInv, PacketType
<1>11. PacketType'
  <2>1. \A m \in Senders : taken'[m] <= received'[m] BY <1>7, <1>8, <1>9
  <2> QED BY <1>1, <1>6, <1>10, <2>1 DEF PacketInv, PacketType
<1>12. CollectedInOrder' BY <1>1 DEF PacketInv, CollectedInOrder
<1>13. \A i \in 1 .. n : queue[i].lidar \in Senders BY <1>5, PacketFields
<1>14. Within'
  <2> SUFFICES ASSUME NEW i \in DOMAIN queue'
               PROVE  queue'[i].number \in taken'[queue'[i].lidar] + 1 .. received'[queue'[i].lidar]
    BY DEF Within
  <2>1. CASE i = n + 1 BY <1>4, <1>6, <1>7, <1>8, <1>9, <2>1
  <2>2. CASE i # n + 1
    <3>1. i \in 1 .. n BY <1>5, <1>6, <2>2
    <3>2. queue[i].number \in taken[queue[i].lidar] + 1 .. received[queue[i].lidar]
      BY <1>5, <3>1 DEF PacketInv, Within
    <3> QED BY <1>6, <1>7, <1>8, <1>9, <1>13, <3>1, <3>2
  <2> QED BY <2>1, <2>2
<1>15. Complete'
  <2> SUFFICES ASSUME NEW m \in Senders, NEW k \in taken'[m] + 1 .. received'[m]
               PROVE  \E i \in DOMAIN queue' : queue'[i].lidar = m /\ queue'[i].number = k
    BY DEF Complete
  <2>1. CASE m = l /\ k = received[l] + 1
    <3>1. n + 1 \in DOMAIN queue' BY <1>5, <1>6
    <3> QED BY <1>4, <1>6, <2>1, <3>1
  <2>2. CASE ~(m = l /\ k = received[l] + 1)
    <3>1. k \in taken[m] + 1 .. received[m] BY <1>7, <1>8, <1>9, <2>2
    <3>2. PICK i \in DOMAIN queue : queue[i].lidar = m /\ queue[i].number = k
      BY <3>1 DEF PacketInv, Complete
    <3>3. i \in DOMAIN queue' /\ queue'[i] = queue[i] BY <1>5, <1>6
    <3> QED BY <3>2, <3>3
  <2> QED BY <2>1, <2>2
<1>16. QueuedInOrder'
  <2> SUFFICES ASSUME NEW i \in DOMAIN queue', NEW j \in DOMAIN queue',
                      i < j, queue'[i].lidar = queue'[j].lidar
               PROVE  queue'[i].number < queue'[j].number
    BY DEF QueuedInOrder
  <2>1. i \in 1 .. n /\ queue'[i] = queue[i] BY <1>5, <1>6
  <2>2. CASE j = n + 1
    <3>1. queue[i].lidar = l BY <1>4, <1>6, <2>1, <2>2
    <3>2. queue[i].number \in taken[l] + 1 .. received[l]
      BY <1>5, <2>1, <3>1 DEF PacketInv, Within
    <3> QED BY <1>4, <1>6, <1>8, <2>1, <2>2, <3>2
  <2>3. CASE j # n + 1
    <3>1. j \in 1 .. n /\ queue'[j] = queue[j] BY <1>5, <1>6, <2>3
    <3> QED BY <1>5, <2>1, <3>1 DEF PacketInv, QueuedInOrder
  <2> QED BY <2>2, <2>3
<1> QED BY <1>11, <1>12, <1>14, <1>15, <1>16 DEF PacketInv

(* The first packet of the queue holds the points that come next. *)
LEMMA HeadIsNext ==
  ASSUME PacketInv, queue # <<>>
  PROVE  /\ 1 \in DOMAIN queue /\ queue[1] = Head(queue) /\ queue[1].lidar \in Senders
         /\ queue[1].number = taken[queue[1].lidar] + 1
<1> DEFINE l == queue[1].lidar
<1>1. 1 \in DOMAIN queue /\ queue[1] = Head(queue) /\ queue[1] \in Packet
  BY DEF PacketInv, PacketType
<1>2. l \in Senders /\ queue[1].number \in Nat BY <1>1 DEF Packet
<1>3. taken[l] \in Nat /\ received[l] \in Nat BY <1>2 DEF PacketInv, PacketType, taken
<1>4. queue[1].number \in taken[l] + 1 .. received[l] BY <1>1 DEF PacketInv, Within
<1>5. taken[l] + 1 \in taken[l] + 1 .. received[l] BY <1>3, <1>4
<1>6. PICK j \in DOMAIN queue : queue[j].lidar = l /\ queue[j].number = taken[l] + 1
  BY <1>2, <1>5 DEF PacketInv, Complete
<1>7. j = 1
  <2> SUFFICES ASSUME j # 1 PROVE FALSE OBVIOUS
  <2>1. 1 < j BY DEF PacketInv, PacketType
  <2>2. queue[1].number < queue[j].number BY <1>1, <1>6, <2>1 DEF PacketInv, QueuedInOrder
  <2> QED BY <1>3, <1>4, <1>6, <2>2
<1> QED BY <1>1, <1>2, <1>6, <1>7

(* It is taken. *)
LEMMA ProcessKeeps == ASSUME PacketInv, Packets!Process PROVE PacketInv'
<1> DEFINE packet == queue[1]
           l == packet.lidar
           n == Len(queue)
<1>1. /\ queue # <<>> /\ queue' = Tail(queue)
      /\ UNCHANGED <<now, received, emitted>>
  BY DEF Packets!Process, Packets!host, Packets!history
<1>2. /\ 1 \in DOMAIN queue /\ queue[1] = Head(queue) /\ l \in Senders
      /\ packet.number = taken[l] + 1
  BY <1>1, HeadIsNext
<1>3. cloud' = [cloud EXCEPT ![l] = Append(cloud[l], packet.number)]
  <2>1. Packets!PointCloudProcess(Head(queue)) BY Zenon DEF Packets!Process
  <2> QED BY <1>2, <2>1 DEF Packets!PointCloudProcess, Packets!WithPoints
<1>4. queue \in Seq(Packet) /\ n \in Nat \ {0} /\ DOMAIN queue = 1 .. n
  BY <1>2 DEF PacketInv, PacketType
<1>5. /\ queue' \in Seq(Packet) /\ DOMAIN queue' = 1 .. n - 1
      /\ \A i \in 1 .. n - 1 : queue'[i] = queue[i + 1] /\ i + 1 \in DOMAIN queue
  BY <1>1, <1>4
<1>6. /\ cloud \in [Senders -> Seq(Nat)] /\ emitted \in [Senders -> Nat]
      /\ received \in [Senders -> Nat]
  BY DEF PacketInv, PacketType
<1>7. \A m \in Senders : taken[m] = emitted[m] + Len(cloud[m]) /\ taken[m] \in Nat
  BY <1>6 DEF taken
<1>8. packet.number \in Nat BY <1>2, <1>7
<1> HIDE DEF packet, l, n
<1>9. /\ cloud' \in [Senders -> Seq(Nat)]
      /\ cloud'[l] = Append(cloud[l], packet.number)
      /\ \A m \in Senders : m # l => cloud'[m] = cloud[m]
  BY <1>2, <1>3, <1>6, <1>8
<1>10. cloud[l] \in Seq(Nat) BY <1>2, <1>6
<1>11. Len(cloud'[l]) = Len(cloud[l]) + 1 BY <1>8, <1>9, <1>10
<1>12. \A m \in Senders : taken'[m] = IF m = l THEN taken[m] + 1 ELSE taken[m]
  <2>1. \A m \in Senders : taken'[m] = emitted[m] + Len(cloud'[m]) BY <1>1 DEF taken
  <2>2. Len(cloud[l]) \in Nat /\ emitted[l] \in Nat BY <1>2, <1>6, <1>10
  <2>3. taken'[l] = taken[l] + 1 BY <1>2, <1>7, <1>11, <2>1, <2>2
  <2>4. \A m \in Senders : m # l => taken'[m] = taken[m] BY <1>7, <1>9, <2>1
  <2> QED BY <2>3, <2>4
<1>13. /\ packet.number \in taken[l] + 1 .. received[l]
  BY <1>2 DEF PacketInv, Within, packet, l
<1>14. PacketType'
  <2>1. \A m \in Senders : taken[m] <= received[m] BY DEF PacketInv, PacketType
  <2>2. taken[l] + 1 <= received[l] BY <1>2, <1>7, <1>13
  <2>3. \A m \in Senders : taken'[m] <= received'[m] BY <1>1, <1>12, <2>1, <2>2
  <2> QED BY <1>1, <1>5, <1>6, <1>9, <2>3 DEF PacketInv, PacketType
<1>15. CollectedInOrder'
  <2> SUFFICES ASSUME NEW m \in Senders, NEW i \in 1 .. Len(cloud'[m])
               PROVE  cloud'[m][i] = emitted'[m] + i
    BY DEF CollectedInOrder
  <2>1. CASE m # l BY <1>1, <1>9, <2>1 DEF PacketInv, CollectedInOrder
  <2>2. CASE m = l /\ i = Len(cloud[l]) + 1
    <3>1. cloud'[l][i] = packet.number BY <1>8, <1>9, <1>10, <2>2
    <3> QED BY <1>1, <1>2, <1>6, <1>7, <1>10, <2>2, <3>1
  <2>3. CASE m = l /\ i # Len(cloud[l]) + 1
    <3>1. i \in 1 .. Len(cloud[l]) BY <1>10, <1>11, <2>3
    <3>2. cloud'[l][i] = cloud[l][i] BY <1>8, <1>9, <1>10, <3>1
    <3>3. cloud[l][i] = emitted[l] + i BY <1>2, <3>1 DEF PacketInv, CollectedInOrder
    <3> QED BY <1>1, <2>3, <3>2, <3>3
  <2> QED BY <2>1, <2>2, <2>3
<1>16. \A i \in DOMAIN queue : queue[i].lidar \in Senders /\ queue[i].number \in Nat
  BY <1>4, PacketFields
<1>17. Within'
  <2> SUFFICES ASSUME NEW i \in DOMAIN queue'
               PROVE  queue'[i].number \in taken'[queue'[i].lidar] + 1 .. received'[queue'[i].lidar]
    BY DEF Within
  <2> DEFINE j == i + 1
             m == queue[j].lidar
             k == queue[j].number
  <2>1. j \in DOMAIN queue /\ queue'[i] = queue[j] /\ 1 < j BY <1>4, <1>5
  <2>2. k \in taken[m] + 1 .. received[m] BY <2>1 DEF PacketInv, Within
  <2>3. m \in Senders /\ k \in Nat BY <1>16, <2>1
  <2>4. m = l => packet.number < k BY <1>2, <2>1 DEF PacketInv, QueuedInOrder, packet, l
  <2> HIDE DEF j, m, k
  <2>5. k \in taken'[m] + 1 .. received'[m]
    <3>1. taken[m] \in Nat /\ received[m] \in Nat /\ received'[m] = received[m]
      BY <1>1, <1>6, <1>7, <2>3
    <3>2. CASE m = l
      <4>1. taken'[m] = taken[m] + 1 /\ taken[m] + 1 < k BY <1>2, <1>12, <2>4, <3>2
      <4> QED BY <2>2, <2>3, <3>1, <4>1
    <3>3. CASE m # l
      <4>1. taken'[m] = taken[m] BY <1>12, <2>3, <3>3
      <4> QED BY <2>2, <3>1, <4>1
    <3> QED BY <3>2, <3>3
  <2> QED BY <2>1, <2>5 DEF m, k
<1>18. Complete'
  <2> SUFFICES ASSUME NEW m \in Senders, NEW k \in taken'[m] + 1 .. received'[m]
               PROVE  \E i \in DOMAIN queue' : queue'[i].lidar = m /\ queue'[i].number = k
    BY DEF Complete
  <2>1. k \in taken[m] + 1 .. received[m] /\ (m = l => k # taken[l] + 1)
    <3>1. taken[m] \in Nat /\ received[m] \in Nat /\ received'[m] = received[m]
      BY <1>1, <1>6, <1>7
    <3>2. CASE m = l
      <4>1. taken'[m] = taken[m] + 1 BY <1>12, <3>2
      <4> QED BY <3>1, <3>2, <4>1
    <3>3. CASE m # l
      <4>1. taken'[m] = taken[m] BY <1>12, <3>3
      <4> QED BY <3>1, <3>3, <4>1
    <3> QED BY <3>2, <3>3
  <2>2. PICK j \in DOMAIN queue : queue[j].lidar = m /\ queue[j].number = k
    BY <2>1 DEF PacketInv, Complete
  <2>3. j # 1 BY <1>2, <2>1, <2>2 DEF packet, l
  <2>4. j - 1 \in DOMAIN queue' /\ queue'[j - 1] = queue[j] BY <1>4, <1>5, <2>3
  <2> QED BY <2>2, <2>4
<1>19. QueuedInOrder'
  <2> SUFFICES ASSUME NEW i \in DOMAIN queue', NEW j \in DOMAIN queue',
                      i < j, queue'[i].lidar = queue'[j].lidar
               PROVE  queue'[i].number < queue'[j].number
    BY DEF QueuedInOrder
  <2>1. /\ i + 1 \in DOMAIN queue /\ queue'[i] = queue[i + 1]
        /\ j + 1 \in DOMAIN queue /\ queue'[j] = queue[j + 1]
        /\ i + 1 < j + 1
    BY <1>5
  <2> QED BY <2>1 DEF PacketInv, QueuedInOrder
<1> QED BY <1>14, <1>15, <1>17, <1>18, <1>19 DEF PacketInv

(* Collected points are published. *)
LEMMA HandOutKeeps ==
  ASSUME PacketInv, NEW ready, Packets!HandOut(ready), UNCHANGED <<now, queue, received>>
  PROVE  PacketInv'
<1>1. \A l \in Senders :
        /\ cloud'[l] = IF l \in ready THEN <<>> ELSE cloud[l]
        /\ emitted'[l] = emitted[l] + IF l \in ready THEN Len(cloud[l]) ELSE 0
  BY DEF Packets!HandOut
<1>2. /\ cloud' = [l \in Senders |-> cloud'[l]] /\ emitted' = [l \in Senders |-> emitted'[l]]
  BY DEF Packets!HandOut
<1>3. cloud \in [Senders -> Seq(Nat)] /\ emitted \in [Senders -> Nat] BY DEF PacketInv, PacketType
<1>4. \A l \in Senders : Len(cloud[l]) \in Nat /\ emitted[l] \in Nat BY <1>3
<1>5. \A l \in Senders : cloud'[l] \in Seq(Nat) /\ emitted'[l] \in Nat
  <2>1. <<>> \in Seq(Nat) OBVIOUS
  <2>2. \A l \in Senders : cloud'[l] \in Seq(Nat) BY <1>1, <1>3, <2>1
  <2>3. \A l \in Senders : emitted'[l] \in Nat BY <1>1, <1>4
  <2> QED BY <2>2, <2>3
<1>6. cloud' \in [Senders -> Seq(Nat)] /\ emitted' \in [Senders -> Nat] BY <1>2, <1>5
<1>7. \A l \in Senders : emitted'[l] + Len(cloud'[l]) = emitted[l] + Len(cloud[l])
  <2> SUFFICES ASSUME NEW l \in Senders
               PROVE  emitted'[l] + Len(cloud'[l]) = emitted[l] + Len(cloud[l])
    OBVIOUS
  <2>1. CASE l \in ready
    <3>1. cloud'[l] = <<>> /\ emitted'[l] = emitted[l] + Len(cloud[l]) BY <1>1, <2>1
    <3>2. Len(cloud'[l]) = 0 BY <3>1
    <3> QED BY <1>4, <3>1, <3>2
  <2>2. CASE l \notin ready
    <3>1. cloud'[l] = cloud[l] /\ emitted'[l] = emitted[l] BY <1>1, <1>4, <2>2
    <3> QED BY <3>1
  <2> QED BY <2>1, <2>2
<1>8. taken' = taken BY <1>7 DEF taken
<1>9. PacketType' BY <1>6, <1>8 DEF PacketInv, PacketType
<1>10. CollectedInOrder'
  <2> SUFFICES ASSUME NEW l \in Senders, NEW i \in 1 .. Len(cloud'[l])
               PROVE  cloud'[l][i] = emitted'[l] + i
    BY DEF CollectedInOrder
  <2>1. CASE l \in ready BY <1>1, <2>1
  <2>2. CASE l \notin ready
    <3>1. cloud'[l] = cloud[l] /\ emitted'[l] = emitted[l] BY <1>1, <1>4, <2>2
    <3> QED BY <3>1 DEF PacketInv, CollectedInOrder
  <2> QED BY <2>1, <2>2
<1>11. Within' /\ Complete' /\ QueuedInOrder'
  BY <1>8 DEF PacketInv, Within, Complete, QueuedInOrder
<1> QED BY <1>9, <1>10, <1>11 DEF PacketInv

LEMMA PacketKeeps == PacketInv /\ [Packets!Next]_packetVars => PacketInv'
<1> SUFFICES ASSUME PacketInv, [Packets!Next]_packetVars PROVE PacketInv' OBVIOUS
<1>1. CASE UNCHANGED <<queue, cloud, received, emitted>> /\ now' \in Int
  <2>1. taken' = taken BY <1>1 DEF taken
  <2>2. PacketType' BY <1>1, <2>1 DEF PacketInv, PacketType
  <2>3. CollectedInOrder' /\ Within' /\ Complete' /\ QueuedInOrder'
    BY <1>1, <2>1 DEF PacketInv, CollectedInOrder, Within, Complete, QueuedInOrder
  <2> QED BY <2>2, <2>3 DEF PacketInv
<1>2. now \in Int BY DEF PacketInv, PacketType
<1>3. CASE UNCHANGED packetVars BY <1>1, <1>2, <1>3 DEF packetVars
<1>4. ASSUME NEW l \in Senders, NEW sync \in BOOLEAN, Packets!OnPacket(l, sync) PROVE PacketInv'
  BY <1>4, OnPacketKeeps
<1>5. ASSUME NEW sync \in BOOLEAN, Packets!OnImuPacket(sync) PROVE PacketInv'
  BY <1>1, <1>2, <1>5 DEF Packets!OnImuPacket, Packets!collected, Packets!history
<1>6. CASE Packets!Tick
  BY <1>1, <1>2, <1>6 DEF Packets!Tick, Packets!collected, Packets!history
<1>7. CASE Packets!Process BY <1>7, ProcessKeeps
<1>8. CASE Packets!CheckTimer
  <2>1. UNCHANGED <<now, queue, received>> BY <1>8 DEF Packets!CheckTimer, Packets!host
  <2>2. \E ready : Packets!HandOut(ready) BY <1>8, Zenon DEF Packets!CheckTimer
  <2> QED BY <2>1, <2>2, HandOutKeeps
<1>9. CASE Packets!RequestExit
  BY <1>1, <1>2, <1>9 DEF Packets!RequestExit, Packets!host, Packets!collected, Packets!history
<1>10. CASE Packets!Join
  BY <1>1, <1>2, <1>10 DEF Packets!Join, Packets!host, Packets!collected, Packets!history
<1> QED BY <1>3, <1>4, <1>5, <1>6, <1>7, <1>8, <1>9, <1>10 DEF Packets!Next

LEMMA EachIsSomewhere == PacketInv => EveryPointOnce
<1> SUFFICES ASSUME PacketInv, NEW l \in Senders
             PROVE  /\ cloud[l] = [i \in 1 .. Len(cloud[l]) |-> emitted[l] + i]
                    /\ {queue[i].number : i \in Packets!Waiting(l)}
                         = emitted[l] + Len(cloud[l]) + 1 .. received[l]
                    /\ \A i, j \in Packets!Waiting(l) : i < j => queue[i].number < queue[j].number
  BY DEF EveryPointOnce, Packets!EveryPointOnce
<1>1. cloud[l] \in Seq(Nat) BY DEF PacketInv, PacketType
<1>2. cloud[l] = [i \in 1 .. Len(cloud[l]) |-> cloud[l][i]] BY <1>1
<1>3. \A i \in 1 .. Len(cloud[l]) : cloud[l][i] = emitted[l] + i BY DEF PacketInv, CollectedInOrder
<1>4. cloud[l] = [i \in 1 .. Len(cloud[l]) |-> emitted[l] + i] BY <1>2, <1>3
<1>5. taken[l] = emitted[l] + Len(cloud[l]) BY DEF taken
<1>6. \A i \in Packets!Waiting(l) : queue[i].number \in taken[l] + 1 .. received[l]
  BY DEF PacketInv, Within, Packets!Waiting
<1>7. \A n \in taken[l] + 1 .. received[l] : \E i \in Packets!Waiting(l) : queue[i].number = n
  BY DEF PacketInv, Complete, Packets!Waiting
<1>8. {queue[i].number : i \in Packets!Waiting(l)} = taken[l] + 1 .. received[l]
  BY Zenon, <1>6, <1>7
<1>9. \A i, j \in Packets!Waiting(l) : i < j => queue[i].number < queue[j].number
  BY DEF PacketInv, QueuedInOrder, Packets!Waiting
<1> QED BY <1>4, <1>5, <1>8, <1>9

(* Every point of every lidar is in one place and in its order, whichever    *)
(* clock decides, and whatever the interval and the number of lidars. *)
THEOREM NoPointIsLost == Packets!Init /\ [][Packets!Next]_packetVars => []EveryPointOnce
<1> QED BY PacketInit, PacketKeeps, EachIsSomewhere, PTL

-----------------------------------------------------------------------------
(* Induction on a set, and what it gives for a function defined by recursion. *)
LEMMA LeastMember ==
  ASSUME NEW T, T \subseteq Nat, T # {}
  PROVE  \E x \in T : \A y \in T : ~(y < x)
<1> DEFINE R == OpToRel(<, Nat)
<1>1. IsWellFoundedOn(R, Nat)
  BY NatLessThanWellFounded
<1>2. \E x \in T : \A y \in T : ~(<<y, x>> \in R)
  <2> HIDE DEF R
  <2> QED BY <1>1, WFMin, Zenon
<1>3. PICK x \in T : \A y \in T : ~(<<y, x>> \in R)
  BY <1>2
<1>4. ASSUME NEW y \in T, y < x PROVE FALSE
  <2>1. <<y, x>> \in Nat \X Nat
    OBVIOUS
  <2>2. <<y, x>> \in R
    BY <2>1, <1>4 DEF OpToRel
  <2>3. QED BY <1>3, <2>2
<1>5. QED BY <1>4

LEMMA SetInduction ==
  ASSUME NEW S, 0 \in S, \A n \in Nat : n \in S => n + 1 \in S
  PROVE  Nat \subseteq S
<1> DEFINE T == Nat \ S
<1> SUFFICES ASSUME T # {} PROVE FALSE
  OBVIOUS
<1>1. T \subseteq Nat
  OBVIOUS
<1> HIDE DEF T
<1>2. PICK x \in T : \A y \in T : ~(y < x)
  BY <1>1, LeastMember
<1>3. x \in Nat \ S /\ x # 0
  BY DEF T
<1>4. x - 1 \in Nat /\ x - 1 < x
  BY <1>3
<1>5. x - 1 \in S
  BY <1>2, <1>4 DEF T
<1>6. (x - 1) + 1 \in S
  BY <1>4, <1>5
<1>7. QED BY <1>3, <1>6

(* The first N steps of the recursion by F from v0, on values in V. *)
Steps(f, N, V, v0, F) ==
  f \in [0 .. N -> V] /\ f[0] = v0 /\ \A n \in 1 .. N : f[n] = F[n][f[n - 1]]

StaysIn(F, V) == \A n \in Nat : \A v \in V : F[n][v] \in V

LEMMA Recursion ==
  \A V, v0, F : v0 \in V /\ StaysIn(F, V) => \A N \in Nat : \E f : Steps(f, N, V, v0, F)
<1> SUFFICES ASSUME NEW V, NEW v0 \in V, NEW F, StaysIn(F, V)
             PROVE  \A N \in Nat : \E f : Steps(f, N, V, v0, F)
  BY Zenon
<1> DEFINE S == {N \in Nat : \E f : Steps(f, N, V, v0, F)}
<1>1. 0 \in S
  <2> DEFINE f == [n \in 0 .. 0 |-> v0]
  <2>1. Steps(f, 0, V, v0, F)
    BY DEF Steps
  <2>2. QED BY <2>1
<1>2. ASSUME NEW N \in Nat, N \in S PROVE N + 1 \in S
  <2>1. PICK f : Steps(f, N, V, v0, F)
    BY <1>2
  <2> DEFINE h == [n \in 0 .. N + 1 |-> IF n = N + 1 THEN F[N + 1][f[N]] ELSE f[n]]
  <2>2. F[N + 1][f[N]] \in V
    BY <2>1 DEF Steps, StaysIn
  <2>3. ASSUME NEW n \in 0 .. N PROVE h[n] = f[n]
    BY <2>1
  <2>4. h[N + 1] = F[N + 1][f[N]] /\ h \in [0 .. N + 1 -> V]
    BY <2>1, <2>2 DEF Steps
  <2> HIDE DEF h
  <2>5. ASSUME NEW n \in 1 .. N + 1 PROVE h[n] = F[n][h[n - 1]]
    <3>1. n - 1 \in 0 .. N
      OBVIOUS
    <3>2. CASE n = N + 1
      BY <3>1, <3>2, <2>3, <2>4
    <3>3. CASE n # N + 1
      <4>1. n \in 1 .. N
        BY <3>3
      <4>2. QED BY <3>1, <4>1, <2>1, <2>3 DEF Steps
    <3>4. QED BY <3>2, <3>3
  <2>6. h[0] = v0
    BY <2>1, <2>3 DEF Steps
  <2>7. Steps(h, N + 1, V, v0, F)
    BY <2>4, <2>5, <2>6 DEF Steps
  <2>8. N + 1 \in Nat
    OBVIOUS
  <2>9. QED BY <2>7, <2>8
<1> HIDE DEF S
<1>3. Nat \subseteq S
  BY <1>1, <1>2, SetInduction
<1>4. QED BY <1>3 DEF S

-----------------------------------------------------------------------------
(* Scans and samples in the odometry (PointLio). *)

LEMMA LioConstants ==
  /\ ImuStep \in Nat \ {0} /\ ScanStep \in Nat \ {0} /\ lidar_time_inte \in Nat
  /\ Bins \in Seq(0 .. ScanStep - 1) /\ Bins # <<>>
  /\ \A i, j \in 1 .. Len(Bins) : i < j => Bins[i] <= Bins[j]
  /\ Modes \subseteq BOOLEAN /\ MaxTime \in Nat
BY MCAssumption DEF Lio!PointLioAssumption

(* A loop pops up to the first sample that stops it. *)
LEMMA PopsIs ==
  ASSUME NEW d \in Seq(Nat), NEW stops, NEW n, n = Lio!Pops(d, stops)
  PROVE  /\ n \in 0 .. Len(d)
         /\ \A i \in 1 .. n : i \notin stops
         /\ n < Len(d) => n + 1 \in stops
<1> DEFINE T == {m \in 0 .. Len(d) : m < Len(d) => m + 1 \in stops}
           Stop(m) == (\A i \in 1 .. m : i \notin stops) /\ (m < Len(d) => m + 1 \in stops)
<1>1. T \subseteq Nat /\ Len(d) \in T OBVIOUS
<1>2. PICK x \in T : \A y \in T : ~(y < x)
  <2> HIDE DEF T
  <2> QED BY <1>1, LeastMember
<1>3. ASSUME NEW i \in 1 .. x PROVE i \notin stops
  <2>1. i - 1 \in 0 .. Len(d) /\ i - 1 < x /\ i - 1 < Len(d) /\ (i - 1) + 1 = i BY <1>2
  <2>2. i - 1 \notin T BY <1>2, <2>1
  <2> QED BY <2>1, <2>2
<1>4. x \in 0 .. Len(d) /\ Stop(x) BY <1>2, <1>3
<1> HIDE DEF Stop
<1>5. \E m \in 0 .. Len(d) : Stop(m) BY <1>4
<1>6. n = CHOOSE m \in 0 .. Len(d) : Stop(m) BY DEF Lio!Pops, Stop
<1>7. n \in 0 .. Len(d) /\ Stop(n) BY <1>5, <1>6, Zenon
<1> QED BY <1>7 DEF Stop

(* What is left of a deque ends as the deque does, and begins at the time. *)
LEMMA FromIs ==
  ASSUME NEW d \in Seq(Nat), NEW time \in Nat
  PROVE  LET r == Lio!From(d, time)
             b == Lio!Before(d, time)
         IN  /\ r \in Seq(Nat) /\ b \in Seq(Nat)
             /\ r # <<>> => r[1] >= time /\ d # <<>> /\ r[Len(r)] = d[Len(d)]
             /\ \A i \in 1 .. Len(r) : \E j \in 1 .. Len(d) : r[i] = d[j]
             /\ \A i \in 1 .. Len(b) : b[i] < time
             /\ d # <<>> /\ d[Len(d)] >= time => r # <<>>
<1> DEFINE r == Lio!From(d, time)
           b == Lio!Before(d, time)
           stops == {i \in 1 .. Len(d) : d[i] >= time}
           n == Lio!Pops(d, stops)
<1>1. r = SubSeq(d, n + 1, Len(d)) /\ b = SubSeq(d, 1, n)
  BY DEF Lio!From, Lio!Before, Lio!Earlier
<1> HIDE DEF r, b
<1>2. /\ n \in 0 .. Len(d)
      /\ \A i \in 1 .. n : i \notin stops
      /\ n < Len(d) => n + 1 \in stops
  <2> HIDE DEF stops
  <2> QED BY PopsIs
<1> HIDE DEF n
<1>3. r \in Seq(Nat) /\ Len(r) = Len(d) - n /\ \A i \in 1 .. Len(r) : r[i] = d[n + i]
  BY <1>1, <1>2
<1>4. b \in Seq(Nat) /\ Len(b) = n /\ \A i \in 1 .. n : b[i] = d[i]
  BY <1>1, <1>2
<1>5. r # <<>> => n < Len(d) /\ Len(r) >= 1 /\ Len(d) >= 1 BY <1>2, <1>3
<1>6. r # <<>> => r[1] >= time /\ d # <<>> /\ r[Len(r)] = d[Len(d)]
  <2> SUFFICES ASSUME r # <<>> PROVE r[1] >= time /\ d # <<>> /\ r[Len(r)] = d[Len(d)] OBVIOUS
  <2>1. n + 1 \in stops BY <1>2, <1>5
  <2>2. r[1] = d[n + 1] BY <1>3, <1>5
  <2>3. n + Len(r) = Len(d) /\ Len(r) \in 1 .. Len(r) BY <1>2, <1>3, <1>5
  <2> QED BY <1>3, <1>5, <2>1, <2>2, <2>3
<1>7. \A i \in 1 .. Len(r) : \E j \in 1 .. Len(d) : r[i] = d[j]
  <2>1. \A i \in 1 .. Len(r) : n + i \in 1 .. Len(d) BY <1>2, <1>3
  <2> QED BY <1>3, <2>1
<1>8. \A i \in 1 .. Len(b) : b[i] < time BY <1>2, <1>4
<1>9. d # <<>> /\ d[Len(d)] >= time => r # <<>>
  <2> SUFFICES ASSUME d # <<>>, d[Len(d)] >= time PROVE Len(r) > 0 BY <1>3
  <2>1. Len(d) \in stops /\ Len(d) \in 1 .. Len(d) OBVIOUS
  <2>2. n # Len(d) BY <1>2, <2>1
  <2> QED BY <1>2, <1>3, <2>2
<1> QED BY <1>3, <1>4, <1>6, <1>7, <1>8, <1>9 DEF r, b

(* The filter and the deque as the loops see them. *)
Flaws == {"empty", "back", "again"}

Feeds == [deque : Seq(Nat), next : Nat, first : BOOLEAN, current : Nat, predict : Nat,
          flaws : SUBSET Flaws, used : Int, delay : Int]

(* The deque ends with the last sample, and the filter is not ahead of it. *)
Sound(s) ==
  /\ s.deque # <<>> => s.deque[Len(s.deque)] = last_timestamp_imu
  /\ \A i \in 1 .. Len(s.deque) : s.deque[i] <= last_timestamp_imu
  /\ ~s.first => s.predict <= last_timestamp_imu
  /\ "empty" \notin s.flaws

(* The next sample is one the filter has not reached, or it is replaced. *)
NextIsNew(s) ==
  ~s.first /\ s.deque # <<>> /\ s.next < s.predict =>
    s.next = s.deque[1] \/ s.deque[1] >= s.predict

Ordered(s) == s.flaws = {} /\ s.used < s.predict /\ NextIsNew(s)

(* Loops that leave the end of the deque leave it sound. *)
LEMMA SoundFrom ==
  ASSUME last_timestamp_imu \in Int, NEW s \in Feeds, NEW time \in Nat, NEW t \in Feeds, Sound(s),
         t.deque = Lio!From(s.deque, time), t.first => s.first, "empty" \notin t.flaws,
         ~t.first => t.predict <= last_timestamp_imu
  PROVE  Sound(t)
<1> DEFINE d == s.deque
           r == t.deque
<1>1. d \in Seq(Nat) /\ r = Lio!From(d, time) BY DEF Feeds
<1>2. /\ r # <<>> => d # <<>> /\ r[Len(r)] = d[Len(d)]
      /\ \A i \in 1 .. Len(r) : \E j \in 1 .. Len(d) : r[i] = d[j]
  <2> HIDE DEF d
  <2> DEFINE f == Lio!From(d, time)
  <2>1. /\ f # <<>> => d # <<>> /\ f[Len(f)] = d[Len(d)]
        /\ \A i \in 1 .. Len(f) : \E j \in 1 .. Len(d) : f[i] = d[j]
    BY <1>1, FromIs
  <2> QED BY <1>1, <2>1
<1> QED BY <1>2 DEF Sound

LEMMA TailIs ==
  ASSUME NEW d \in Seq(Nat), d # <<>>
  PROVE  /\ Tail(d) \in Seq(Nat) /\ Len(Tail(d)) = Len(d) - 1 /\ Head(d) = d[1] /\ d[1] \in Nat
         /\ \A i \in 1 .. Len(Tail(d)) : Tail(d)[i] = d[i + 1]
         /\ Tail(d) # <<>> => Tail(d)[Len(Tail(d))] = d[Len(d)]
<1>1. Tail(d) \in Seq(Nat) /\ Len(Tail(d)) = Len(d) - 1 /\ Len(d) >= 1 /\ Len(d) \in Nat OBVIOUS
<1>2. \A i \in 1 .. Len(Tail(d)) : Tail(d)[i] = d[i + 1] OBVIOUS
<1>3. Tail(d) # <<>> => Len(Tail(d)) \in 1 .. Len(Tail(d)) /\ Len(Tail(d)) + 1 = Len(d) BY <1>1
<1> QED BY <1>1, <1>2, <1>3

LEMMA SoundTail ==
  ASSUME NEW s \in Feeds, Sound(s), s.deque # <<>>
  PROVE  Sound([s EXCEPT !.deque = Tail(@)]) /\ [s EXCEPT !.deque = Tail(@)] \in Feeds
<1> DEFINE d == s.deque
           t == [s EXCEPT !.deque = Tail(@)]
<1>1. d \in Seq(Nat) /\ d # <<>> BY DEF Feeds
<1>2. /\ Tail(d) \in Seq(Nat) /\ Len(Tail(d)) = Len(d) - 1 /\ Len(d) \in Nat
      /\ \A i \in 1 .. Len(Tail(d)) : Tail(d)[i] = d[i + 1]
      /\ Tail(d) # <<>> => Tail(d)[Len(Tail(d))] = d[Len(d)]
  <2> HIDE DEF d
  <2> QED BY <1>1, TailIs
<1>3. /\ t.deque = Tail(d) /\ t.first = s.first /\ t.predict = s.predict /\ t.flaws = s.flaws
      /\ t \in Feeds
  BY <1>2 DEF Feeds
<1>4. \A i \in 1 .. Len(Tail(d)) : i + 1 \in 1 .. Len(d) BY <1>2
<1> HIDE DEF t
<1>5. \A i \in 1 .. Len(Tail(d)) : Tail(d)[i] <= last_timestamp_imu BY <1>2, <1>4 DEF Sound
<1>6. Sound(t) BY <1>2, <1>3, <1>5 DEF Sound
<1> QED BY <1>3, <1>6 DEF t

LEMMA LastIs ==
  ASSUME NEW x \in Nat, NEW b \in Seq(Nat)
  PROVE  /\ Lio!Last(<<x>> \o b) \in Nat
         /\ Lio!Last(<<x>> \o b) = x \/ \E i \in 1 .. Len(b) : Lio!Last(<<x>> \o b) = b[i]
<1> DEFINE e == <<x>> \o b
           l == Lio!Last(e)
<1>1. e \in Seq(Nat) /\ Len(e) = Len(b) + 1 /\ e[1] = x /\ \A i \in 1 .. Len(b) : e[i + 1] = b[i]
  OBVIOUS
<1>2. l = e[Len(b) + 1] BY <1>1 DEF Lio!Last
<1> HIDE DEF e, l
<1>3. l \in Nat /\ (l = x \/ \E i \in 1 .. Len(b) : l = b[i])
  <2>1. CASE Len(b) = 0 BY <1>1, <1>2, <2>1
  <2>2. CASE Len(b) # 0
    <3>1. Len(b) \in 1 .. Len(b) BY <2>2
    <3>2. e[Len(b) + 1] = b[Len(b)] /\ b[Len(b)] \in Nat BY <1>1, <3>1
    <3> QED BY <1>2, <3>1, <3>2
  <2> QED BY <2>1, <2>2
<1> QED BY <1>3 DEF e, l

LEMMA NextOfIs ==
  ASSUME NEW rest \in Seq(Nat), NEW popped \in Seq(Nat), NEW next \in Nat
  PROVE  /\ Lio!NextOf(rest, popped, next) \in Nat
         /\ rest # <<>> => Lio!NextOf(rest, popped, next) = rest[1]
<1>1. CASE rest # <<>>
  <2>1. Head(rest) = rest[1] /\ rest[1] \in Nat BY <1>1
  <2> QED BY <1>1, <2>1 DEF Lio!NextOf
<1>2. CASE rest = <<>>
  <2>1. Lio!Last(<<next>> \o popped) \in Nat BY LastIs
  <2> QED BY <1>2, <2>1 DEF Lio!NextOf
<1> QED BY <1>1, <1>2

(* The loop that pops up to a time: with a sample in the deque it leaves a   *)
(* sound deque, and imu_next from this time on or nothing. *)
LEMMA PoppedIs ==
  ASSUME last_timestamp_imu \in Int, NEW s \in Feeds, Sound(s), s.deque # <<>>, NEW time \in Nat
  PROVE  LET t == Lio!Popped(s, time)
         IN  /\ t \in Feeds /\ Sound(t)
             /\ t.first = s.first /\ t.predict = s.predict /\ t.flaws = s.flaws /\ t.used = s.used
             /\ t.deque # <<>> => t.next >= time
<1>1. CASE s.next >= time BY <1>1 DEF Lio!Popped
<1>2. CASE ~(s.next >= time)
  <2> DEFINE u == [s EXCEPT !.deque = Tail(@)]
             d == u.deque
             rest == Lio!From(d, time)
             b == Lio!Before(d, time)
             n == Lio!NextOf(rest, b, s.next)
             t == [s EXCEPT !.deque = rest, !.next = n]
  <2>1. u \in Feeds /\ Sound(u) BY SoundTail
  <2>2. d = Tail(s.deque) /\ d \in Seq(Nat) /\ s.next \in Nat
    <3>1. d = Tail(s.deque) BY DEF Feeds
    <3> HIDE DEF u
    <3> QED BY <2>1, <3>1 DEF Feeds
  <2>3. Lio!Popped(s, time) = t BY <1>2, <2>2 DEF Lio!Popped
  <2>4. u.first = s.first /\ u.predict = s.predict /\ u.flaws = s.flaws /\ u.used = s.used
    BY DEF Feeds
  <2> HIDE DEF u, d
  <2>5. rest \in Seq(Nat) /\ b \in Seq(Nat) /\ (rest # <<>> => rest[1] >= time)
    BY <2>2, FromIs
  <2> HIDE DEF rest, b
  <2>7. n \in Nat /\ (rest # <<>> => n = rest[1])
    BY <2>2, <2>5, NextOfIs
  <2> HIDE DEF n
  <2>8. /\ t \in Feeds /\ t.deque = rest /\ t.next = n /\ t.first = s.first /\ t.predict = s.predict
        /\ t.flaws = s.flaws /\ t.used = s.used
    BY <2>5, <2>7 DEF Feeds
  <2> HIDE DEF t
  <2>9. Sound(t)
    <3>1. t.deque = Lio!From(u.deque, time) BY <2>8 DEF rest, d
    <3>2. "empty" \notin t.flaws /\ (~t.first => t.predict <= last_timestamp_imu)
      BY <2>8 DEF Sound
    <3> QED BY <2>1, <2>4, <2>8, <3>1, <3>2, SoundFrom
  <2> QED BY <2>3, <2>5, <2>7, <2>8, <2>9
<1> QED BY <1>1, <1>2

LEMMA FirstFrameIs ==
  ASSUME last_timestamp_imu \in Int, NEW s \in Feeds, Sound(s), NEW time \in Nat,
         s.first => s.deque # <<>>, time <= last_timestamp_imu
  PROVE  LET t == Lio!FirstFrame(s, time)
         IN  /\ t \in Feeds /\ Sound(t) /\ ~t.first
             /\ t.flaws = s.flaws /\ t.used = s.used
             /\ t.predict = IF s.first THEN time ELSE s.predict
             /\ Ordered(s) /\ s.predict <= time => Ordered(t)
<1>1. CASE ~s.first BY <1>1 DEF Lio!FirstFrame, Feeds
<1>2. CASE s.first
  <2> DEFINE u == Lio!Popped(s, time)
             t == [u EXCEPT !.first = FALSE, !.predict = time, !.current = time]
  <2>1. Lio!FirstFrame(s, time) = t BY <1>2 DEF Lio!FirstFrame
  <2>2. /\ u \in Feeds /\ Sound(u) /\ u.flaws = s.flaws /\ u.used = s.used
        /\ u.deque # <<>> => u.next >= time
    BY <1>2, PoppedIs
  <2> HIDE DEF u
  <2>3. /\ t \in Feeds /\ t.deque = u.deque /\ t.next = u.next /\ ~t.first /\ t.predict = time
        /\ t.flaws = s.flaws /\ t.used = s.used
    BY <2>2 DEF Feeds
  <2> HIDE DEF t
  <2>4. Sound(t) BY <2>2, <2>3 DEF Sound
  <2>5. Ordered(s) /\ s.predict <= time => Ordered(t)
    <3>1. NextIsNew(t) BY <2>2, <2>3 DEF NextIsNew, Feeds
    <3> QED BY <2>3, <3>1 DEF Ordered, Feeds
  <2> QED BY <1>2, <2>1, <2>3, <2>4, <2>5
<1> QED BY <1>1, <1>2

(* The filter is caught up with: the deque keeps its last sample, and        *)
(* imu_next is one the filter has not reached. *)
LEMMA CatchUpIs ==
  ASSUME last_timestamp_imu \in Int, NEW s \in Feeds, Sound(s), s.deque # <<>>, ~s.first
  PROVE  LET t == Lio!CatchUp(s)
         IN  /\ t \in Feeds /\ Sound(t) /\ ~t.first /\ t.deque # <<>>
             /\ t.flaws = s.flaws /\ t.used = s.used /\ t.predict = s.predict
             /\ NextIsNew(s) => t.next >= t.predict
<1> DEFINE d == s.deque
<1>1. d \in Seq(Nat) /\ d # <<>> /\ Head(d) = d[1] /\ d[1] \in Nat /\ s.predict \in Nat /\ s.next \in Nat
  <2>1. d \in Seq(Nat) /\ d # <<>> /\ s.predict \in Nat /\ s.next \in Nat BY DEF Feeds
  <2> HIDE DEF d
  <2> QED BY <2>1
<1>2. CASE s.next >= s.predict
  BY <1>1, <1>2 DEF Lio!CatchUp
<1>3. CASE s.next < s.predict /\ s.next # d[1]
  <2> DEFINE t == [s EXCEPT !.next = d[1]]
  <2>1. Lio!CatchUp(s) = t BY <1>1, <1>3 DEF Lio!CatchUp
  <2>2. /\ t \in Feeds /\ t.deque = d /\ t.next = d[1] /\ t.first = s.first
        /\ t.flaws = s.flaws /\ t.used = s.used /\ t.predict = s.predict
    BY <1>1 DEF Feeds
  <2> HIDE DEF t
  <2>3. Sound(t) BY <2>2 DEF Sound
  <2>4. NextIsNew(s) => t.next >= t.predict BY <1>1, <1>3, <2>2 DEF NextIsNew
  <2> QED BY <1>1, <2>1, <2>2, <2>3, <2>4
<1>4. CASE s.next < s.predict /\ s.next = d[1]
  <2> DEFINE rest == Lio!From(d, s.predict)
             b == Lio!Before(d, s.predict)
             n == Lio!NextOf(rest, b, s.next)
             t == [s EXCEPT !.deque = rest, !.next = n]
  <2>1. Lio!CatchUp(s) = t BY <1>1, <1>4 DEF Lio!CatchUp
  <2>2. d[Len(d)] = last_timestamp_imu /\ s.predict <= last_timestamp_imu BY <1>1 DEF Sound
  <2> HIDE DEF d
  <2>3. rest \in Seq(Nat) /\ b \in Seq(Nat) /\ rest # <<>> /\ rest[1] >= s.predict
    BY <1>1, <2>2, FromIs
  <2> HIDE DEF rest, b
  <2>4. n \in Nat /\ n = rest[1] BY <1>1, <2>3, NextOfIs
  <2> HIDE DEF n
  <2>5. /\ t \in Feeds /\ t.deque = rest /\ t.next = n /\ t.first = s.first
        /\ t.flaws = s.flaws /\ t.used = s.used /\ t.predict = s.predict
    BY <2>3, <2>4 DEF Feeds
  <2> HIDE DEF t
  <2>6. Sound(t)
    <3>1. t.deque = Lio!From(s.deque, s.predict) BY <2>5 DEF rest, d
    <3>2. "empty" \notin t.flaws /\ (~t.first => t.predict <= last_timestamp_imu)
      BY <2>5 DEF Sound
    <3> QED BY <1>1, <2>5, <3>1, <3>2, SoundFrom
  <2> QED BY <2>1, <2>3, <2>4, <2>5, <2>6
<1> QED BY <1>1, <1>2, <1>3, <1>4

(* The samples before a time move the filter up to the last of them. *)
LEMMA UseSamplesIs ==
  ASSUME last_timestamp_imu \in Int, NEW s \in Feeds, Sound(s), s.deque # <<>>, ~s.first,
         NEW time \in Nat, time <= last_timestamp_imu
  PROVE  LET t == Lio!UseSamples(s, time)
         IN  /\ t \in Feeds /\ Sound(t) /\ ~t.first
             /\ s.next >= time => t = s
             /\ s.next < time =>
                  /\ t.predict < time /\ t.used < time
                  /\ t.deque # <<>> => t.deque[1] >= time
             /\ s.flaws = {} /\ s.next >= s.predict /\ s.used < s.predict => t.flaws = {}
<1>1. CASE s.next >= time
  <2>1. Lio!UseSamples(s, time) = s BY <1>1 DEF Lio!UseSamples
  <2> QED BY <1>1, <2>1 DEF Feeds
<1>2. CASE ~(s.next >= time)
  <2> DEFINE u == [s EXCEPT !.deque = Tail(@)]
             d == u.deque
             rest == Lio!From(d, time)
             b == Lio!Before(d, time)
             n == Lio!NextOf(rest, b, s.next)
             l == Lio!Last(<<s.next>> \o b)
             f == s.flaws \cup (IF s.deque = <<>> THEN {"empty"} ELSE {})
                          \cup (IF s.next < s.predict THEN {"back"} ELSE {})
                          \cup (IF s.next <= s.used THEN {"again"} ELSE {})
             t == [s EXCEPT !.deque = rest, !.next = n, !.predict = l, !.used = l, !.flaws = f]
  <2>1. u \in Feeds /\ Sound(u) BY SoundTail
  <2>2. d = Tail(s.deque) /\ d \in Seq(Nat) /\ s.next \in Nat /\ s.next < time
    <3>1. d = Tail(s.deque) BY DEF Feeds
    <3> HIDE DEF u
    <3> QED BY <1>2, <2>1, <3>1 DEF Feeds
  <2>3. Lio!UseSamples(s, time) = t BY <1>2, <2>2 DEF Lio!UseSamples
  <2>4. u.first = s.first BY DEF Feeds
  <2> HIDE DEF u, d
  <2>5. rest \in Seq(Nat) /\ b \in Seq(Nat) /\ (rest # <<>> => rest[1] >= time)
        /\ \A i \in 1 .. Len(b) : b[i] < time
    BY <2>2, FromIs
  <2> HIDE DEF rest, b
  <2>6. n \in Nat BY <2>2, <2>5, NextOfIs
  <2>7. l \in Nat /\ (l = s.next \/ \E i \in 1 .. Len(b) : l = b[i]) BY <2>2, <2>5, LastIs
  <2> HIDE DEF n, l
  <2>8. l < time BY <2>2, <2>5, <2>7
  <2>9. /\ f \in SUBSET Flaws /\ "empty" \notin f
        /\ s.flaws = {} /\ s.next >= s.predict /\ s.used < s.predict => f = {}
    BY <2>2 DEF Feeds, Flaws, Sound
  <2> HIDE DEF f
  <2>10. /\ t \in Feeds /\ t.deque = rest /\ t.predict = l /\ t.used = l /\ t.flaws = f
         /\ t.first = s.first
    <3>1. l \in Int BY <2>7
    <3>2. t \in Feeds BY <2>5, <2>6, <2>7, <2>9, <3>1 DEF Feeds
    <3> QED BY <3>2 DEF Feeds
  <2> HIDE DEF t
  <2>11. Sound(t)
    <3>1. t.deque = Lio!From(u.deque, time) BY <2>10 DEF rest, d
    <3>2. t.predict <= last_timestamp_imu BY <2>7, <2>8, <2>10
    <3> QED BY <2>1, <2>4, <2>9, <2>10, <3>1, <3>2, SoundFrom
  <2> QED BY <2>2, <2>3, <2>5, <2>8, <2>9, <2>10, <2>11
<1> QED BY <1>1, <1>2

LEMMA LeastOf ==
  ASSUME NEW a \in Int, NEW b \in Int
  PROVE  Lio!Max({a, b}) \in Int
<1> DEFINE P(x) == x \in {a, b} /\ \A y \in {a, b} : x >= y
<1>1. \E x : P(x)
  <2>1. P(a) \/ P(b) OBVIOUS
  <2> QED BY <2>1, Zenon
<1>2. Lio!Max({a, b}) = CHOOSE x \in {a, b} : \A y \in {a, b} : x >= y BY DEF Lio!Max
<1>3. \E x \in {a, b} : \A y \in {a, b} : x >= y BY <1>1
<1>4. Lio!Max({a, b}) \in {a, b} BY <1>2, <1>3, Zenon
<1> QED BY <1>4

(* The points of a bin correct the filter at a time it is not past. *)
LEMMA CorrectIs ==
  ASSUME last_timestamp_imu \in Int, NEW s \in Feeds, Sound(s), ~s.first,
         NEW time \in Nat, time <= last_timestamp_imu, NEW true \in Nat
  PROVE  LET t == Lio!Correct(s, time, true)
         IN  /\ t \in Feeds /\ Sound(t) /\ ~t.first
             /\ t.predict = time /\ t.deque = s.deque /\ t.next = s.next /\ t.used = s.used
             /\ s.flaws = {} /\ s.predict <= time => t.flaws = {}
<1> DEFINE f == s.flaws \cup (IF time < s.predict THEN {"back"} ELSE {})
           m == Lio!Max({s.delay, true - time})
           t == [s EXCEPT !.current = time, !.predict = time, !.flaws = f, !.delay = m]
<1>1. Lio!Correct(s, time, true) = t BY DEF Lio!Correct
<1>2. m \in Int
  <2>1. s.delay \in Int /\ true - time \in Int BY DEF Feeds
  <2> QED BY <2>1, LeastOf
<1>3. /\ f \in SUBSET Flaws /\ "empty" \notin f
      /\ s.flaws = {} /\ s.predict <= time => f = {}
  BY DEF Feeds, Flaws, Sound
<1> HIDE DEF m, f
<1>4. /\ t \in Feeds /\ t.predict = time /\ t.deque = s.deque /\ t.next = s.next /\ t.used = s.used
      /\ t.first = s.first /\ t.flaws = f
  BY <1>2, <1>3 DEF Feeds
<1> HIDE DEF t
<1>5. Sound(t) BY <1>3, <1>4 DEF Sound
<1> QED BY <1>1, <1>3, <1>4, <1>5

LEMMA BinTimeIs ==
  ASSUME NEW a \in Nat PROVE Lio!BinTime(a) \in Nat /\ Lio!BinTime(a) <= a
BY DEF Lio!BinTime

LEMMA BinTimesGrow ==
  ASSUME NEW a \in Nat, NEW b \in Nat, a <= b PROVE Lio!BinTime(a) <= Lio!BinTime(b)
BY DEF Lio!BinTime

(* A bin of a scan that the samples cover. *)
LEMMA BinIs ==
  ASSUME last_timestamp_imu \in Int, NEW s \in Feeds, Sound(s), s.first => s.deque # <<>>,
         NEW begin \in Nat, NEW offset \in Nat, begin + offset <= last_timestamp_imu
  PROVE  LET t == Lio!Bin(s, begin, offset)
         IN  /\ t \in Feeds /\ Sound(t) /\ ~t.first
             /\ t.predict = begin + Lio!BinTime(offset)
             /\ Ordered(s) /\ s.predict <= begin + Lio!BinTime(offset) => Ordered(t)
<1> DEFINE time == begin + Lio!BinTime(offset)
           ready == Lio!FirstFrame(s, time)
           caught == Lio!CatchUp(ready)
           fed == IF ready.deque = <<>> THEN ready ELSE Lio!UseSamples(caught, time)
           t == Lio!Correct(fed, time, begin + offset)
           InOrder == Ordered(s) /\ s.predict <= time
<1>1. Lio!Bin(s, begin, offset) = t BY DEF Lio!Bin
<1>2. time \in Nat /\ time <= last_timestamp_imu /\ begin + offset \in Nat
  <2>1. Lio!BinTime(offset) \in Nat /\ Lio!BinTime(offset) <= offset BY BinTimeIs
  <2> QED BY <2>1
<1> HIDE DEF time
<1>3. /\ ready \in Feeds /\ Sound(ready) /\ ~ready.first
      /\ ready.predict = (IF s.first THEN time ELSE s.predict)
      /\ InOrder => Ordered(ready)
  BY <1>2, FirstFrameIs
<1>4. InOrder => ready.predict <= time BY <1>2, <1>3 DEF Feeds
<1> HIDE DEF InOrder, ready
<1>5. /\ fed \in Feeds /\ Sound(fed) /\ ~fed.first
      /\ InOrder => /\ fed.flaws = {} /\ fed.predict <= time /\ fed.used < time
                    /\ fed.deque # <<>> /\ fed.next < time => fed.deque[1] >= time
  <2>1. CASE ready.deque = <<>>
    <3>1. fed = ready BY <2>1
    <3>2. ready.used \in Int /\ ready.predict \in Int BY <1>3 DEF Feeds
    <3> QED BY <1>2, <1>3, <1>4, <2>1, <3>1, <3>2 DEF Ordered
  <2>2. CASE ready.deque # <<>>
    <3>1. /\ caught \in Feeds /\ Sound(caught) /\ ~caught.first /\ caught.deque # <<>>
          /\ caught.flaws = ready.flaws /\ caught.used = ready.used /\ caught.predict = ready.predict
          /\ NextIsNew(ready) => caught.next >= caught.predict
      BY <1>3, <2>2, CatchUpIs
    <3>2. fed = Lio!UseSamples(caught, time) BY <2>2
    <3> HIDE DEF caught, fed
    <3>3. /\ fed \in Feeds /\ Sound(fed) /\ ~fed.first
          /\ caught.next >= time => fed = caught
          /\ caught.next < time =>
               /\ fed.predict < time /\ fed.used < time
               /\ fed.deque # <<>> => fed.deque[1] >= time
          /\ caught.flaws = {} /\ caught.next >= caught.predict /\ caught.used < caught.predict
               => fed.flaws = {}
      BY <1>2, <3>1, <3>2, UseSamplesIs
    <3>4. InOrder => fed.flaws = {} BY <1>3, <3>1, <3>3 DEF Ordered
    <3>5. /\ caught.next \in Nat /\ caught.predict \in Nat /\ caught.used \in Int
          /\ fed.predict \in Nat /\ fed.used \in Int
      BY <3>1, <3>3 DEF Feeds
    <3>6. InOrder => caught.predict <= time /\ caught.used < time
      BY <1>2, <1>3, <1>4, <3>1, <3>5 DEF Ordered
    <3>7. CASE caught.next >= time BY <1>2, <3>3, <3>4, <3>5, <3>6, <3>7
    <3>8. CASE caught.next < time BY <1>2, <3>3, <3>4, <3>5, <3>8
    <3> QED BY <1>2, <3>5, <3>7, <3>8
  <2> QED BY <2>1, <2>2
<1> HIDE DEF fed
<1>6. /\ t \in Feeds /\ Sound(t) /\ ~t.first
      /\ t.predict = time /\ t.deque = fed.deque /\ t.next = fed.next /\ t.used = fed.used
      /\ fed.flaws = {} /\ fed.predict <= time => t.flaws = {}
  BY <1>2, <1>5, CorrectIs
<1> HIDE DEF t
<1>7. InOrder => Ordered(t) BY <1>5, <1>6 DEF Ordered, NextIsNew
<1> QED BY <1>1, <1>6, <1>7 DEF time, InOrder

(* What a bin leaves for the next one of its scan. *)
Fed(begin, i, s) ==
  /\ Sound(s)
  /\ IF i = 0 THEN s.first => s.deque # <<>>
     ELSE ~s.first /\ s.predict = begin + Lio!BinTime(Bins[i])

LEMMA BinsAre ==
  /\ Len(Bins) \in Nat /\ Len(Bins) >= 1
  /\ \A i \in 1 .. Len(Bins) : Bins[i] \in Nat /\ Bins[i] < ScanStep
  /\ \A i \in 1 .. Len(Bins) : Bins[i] <= Bins[Len(Bins)]
  /\ \A i \in 1 .. Len(Bins) - 1 : Bins[i] <= Bins[i + 1]
  /\ Lio!Last(Bins) = Bins[Len(Bins)]
<1>1. Len(Bins) \in Nat /\ Len(Bins) >= 1 BY LioConstants
<1>2. \A i \in 1 .. Len(Bins) : Bins[i] \in 0 .. ScanStep - 1 BY LioConstants
<1>3. \A i \in 1 .. Len(Bins) : Bins[i] \in Nat /\ Bins[i] < ScanStep BY <1>2, LioConstants
<1>4. \A i \in 1 .. Len(Bins) : Bins[i] <= Bins[Len(Bins)]
  <2> TAKE i \in 1 .. Len(Bins)
  <2>1. CASE i = Len(Bins) BY <1>3, <2>1
  <2>2. CASE i # Len(Bins)
    <3>1. Len(Bins) \in 1 .. Len(Bins) /\ i < Len(Bins) BY <1>1, <2>2
    <3> QED BY <3>1, LioConstants
  <2> QED BY <2>1, <2>2
<1>5. \A i \in 1 .. Len(Bins) - 1 : Bins[i] <= Bins[i + 1]
  <2> TAKE i \in 1 .. Len(Bins) - 1
  <2>1. i \in 1 .. Len(Bins) /\ i + 1 \in 1 .. Len(Bins) /\ i < i + 1 BY <1>1
  <2> QED BY <2>1, LioConstants
<1>6. Lio!Last(Bins) = Bins[Len(Bins)] BY DEF Lio!Last
<1> QED BY <1>1, <1>3, <1>4, <1>5, <1>6

(* The bins of a scan whose end the samples reach, one after the other. *)
LEMMA NextBinIs ==
  ASSUME last_timestamp_imu \in Int, NEW begin \in Nat,
         begin + Bins[Len(Bins)] <= last_timestamp_imu,
         NEW i \in 1 .. Len(Bins), NEW s \in Feeds, Fed(begin, i - 1, s)
  PROVE  LET t == Lio!Bin(s, begin, Bins[i])
         IN  /\ t \in Feeds /\ Fed(begin, i, t)
             /\ Ordered(s) /\ (i = 1 => s.predict <= begin) => Ordered(t)
<1> DEFINE offset == Bins[i]
           t == Lio!Bin(s, begin, offset)
<1>1. offset \in Nat /\ begin + offset <= last_timestamp_imu BY BinsAre
<1>2. Sound(s) /\ (s.first => s.deque # <<>>)
  <2>1. CASE i = 1 BY <2>1 DEF Fed
  <2>2. CASE i # 1 BY <2>2 DEF Fed
  <2> QED BY <2>1, <2>2
<1>3. (i = 1 => s.predict <= begin) => s.predict <= begin + Lio!BinTime(offset)
  <2>1. CASE i = 1
    <3>1. s.predict \in Nat BY DEF Feeds
    <3> HIDE DEF offset
    <3>2. Lio!BinTime(offset) \in Nat BY <1>1, BinTimeIs
    <3> QED BY <2>1, <3>1, <3>2
  <2>2. CASE i # 1
    <3>1. i - 1 \in 1 .. Len(Bins) - 1 /\ (i - 1) + 1 = i /\ i - 1 \in 1 .. Len(Bins) BY <2>2, BinsAre
    <3>2. Bins[i - 1] <= offset /\ Bins[i - 1] \in Nat BY <3>1, BinsAre
    <3> DEFINE before == Bins[i - 1]
    <3>3. s.predict = begin + Lio!BinTime(before) BY <2>2, <3>1 DEF Fed
    <3> HIDE DEF before, offset
    <3>4. /\ Lio!BinTime(before) \in Nat /\ Lio!BinTime(offset) \in Nat
          /\ Lio!BinTime(before) <= Lio!BinTime(offset)
      BY <1>1, <3>2, BinTimeIs, BinTimesGrow DEF before
    <3> QED BY <3>3, <3>4
  <2> QED BY <2>1, <2>2
<1> HIDE DEF offset
<1>4. /\ t \in Feeds /\ Sound(t) /\ ~t.first
      /\ t.predict = begin + Lio!BinTime(offset)
      /\ Ordered(s) /\ s.predict <= begin + Lio!BinTime(offset) => Ordered(t)
  BY <1>1, <1>2, BinIs
<1> HIDE DEF t
<1>5. Fed(begin, i, t) BY <1>4 DEF Fed, offset
<1> QED BY <1>3, <1>4, <1>5 DEF t, offset

LEMMA OnlyOne ==
  ASSUME NEW x
  PROVE  (CHOOSE s \in {x} : TRUE) = x
<1>1. \E s \in {x} : TRUE OBVIOUS
<1>2. (CHOOSE s \in {x} : TRUE) \in {x} BY <1>1, Zenon
<1> QED BY <1>2

LEMMA DenseScanIs ==
  ASSUME last_timestamp_imu \in Int, NEW s \in Feeds, Sound(s), s.deque # <<>>,
         NEW begin \in Nat, begin + Bins[Len(Bins)] <= last_timestamp_imu
  PROVE  LET t == Lio!DenseScan(s, begin)
         IN  /\ t \in Feeds /\ Sound(t) /\ ~t.first
             /\ Ordered(s) /\ s.predict <= begin =>
                  Ordered(t) /\ t.predict <= begin + Bins[Len(Bins)]
<1> DEFINE N == Len(Bins)
           F == [n \in Nat |-> [u \in Feeds |->
                   IF n \in 1 .. N /\ Fed(begin, n - 1, u) THEN Lio!Bin(u, begin, Bins[n]) ELSE u]]
           fed[i \in 0 .. N] ==
             IF i = 0 THEN s
             ELSE CHOOSE t \in {Lio!Bin(u, begin, Bins[i]) : u \in {fed[i - 1]}} : TRUE
<1>1. Lio!DenseScan(s, begin) = fed[N] BY Zenon DEF Lio!DenseScan
<1>2. N \in Nat /\ N >= 1 BY BinsAre
<1>3. ASSUME NEW n \in 1 .. N, NEW u \in Feeds, Fed(begin, n - 1, u)
      PROVE  /\ F[n][u] = Lio!Bin(u, begin, Bins[n])
             /\ F[n][u] \in Feeds /\ Fed(begin, n, F[n][u])
             /\ Ordered(u) /\ (n = 1 => u.predict <= begin) => Ordered(F[n][u])
  <2>1. F[n][u] = Lio!Bin(u, begin, Bins[n]) BY <1>2, <1>3
  <2> HIDE DEF F
  <2> QED BY <1>3, <2>1, NextBinIs
<1>4. \A n \in Nat, u \in Feeds : F[n][u] \in Feeds
  <2> TAKE n \in Nat, u \in Feeds
  <2>1. CASE n \in 1 .. N /\ Fed(begin, n - 1, u) BY <1>3, <2>1
  <2>2. CASE ~(n \in 1 .. N /\ Fed(begin, n - 1, u)) BY <2>2
  <2> QED BY <2>1, <2>2
<1> HIDE DEF F
<1>5. StaysIn(F, Feeds) BY <1>4 DEF StaysIn
<1>6. PICK g : Steps(g, N, Feeds, s, F) BY <1>2, <1>5, Recursion, Zenon
<1>7. g[0] = s /\ \A i \in 0 .. N : g[i] \in Feeds BY <1>2, <1>6 DEF Steps
<1> DEFINE S == {n \in Nat : n <= N => Fed(begin, n, g[n])}
<1>8. 0 \in S BY <1>7 DEF Fed
<1>9. ASSUME NEW n \in Nat, n \in S PROVE n + 1 \in S
  <2> SUFFICES ASSUME n + 1 <= N PROVE Fed(begin, n + 1, g[n + 1]) OBVIOUS
  <2>1. n + 1 \in 1 .. N /\ (n + 1) - 1 = n /\ n \in 0 .. N BY <1>2
  <2>2. Fed(begin, n, g[n]) /\ g[n] \in Feeds BY <1>7, <1>9, <2>1
  <2>3. g[n + 1] = F[n + 1][g[n]] BY <1>6, <2>1 DEF Steps
  <2> QED BY <1>3, <2>1, <2>2, <2>3
<1> HIDE DEF S
<1>10. Nat \subseteq S BY <1>8, <1>9, SetInduction
<1>11. \A n \in 0 .. N : Fed(begin, n, g[n]) BY <1>2, <1>10 DEF S
<1>12. g = [i \in 0 .. N |->
              IF i = 0 THEN s
              ELSE CHOOSE t \in {Lio!Bin(u, begin, Bins[i]) : u \in {g[i - 1]}} : TRUE]
  <2>1. ASSUME NEW i \in 0 .. N, i # 0
        PROVE  g[i] = CHOOSE t \in {Lio!Bin(u, begin, Bins[i]) : u \in {g[i - 1]}} : TRUE
    <3>1. i \in 1 .. N /\ i - 1 \in 0 .. N BY <1>2, <2>1
    <3>2. g[i] = F[i][g[i - 1]] BY <1>6, <3>1 DEF Steps
    <3>3. g[i] = Lio!Bin(g[i - 1], begin, Bins[i]) BY <1>3, <1>7, <1>11, <3>1, <3>2
    <3>4. {Lio!Bin(u, begin, Bins[i]) : u \in {g[i - 1]}} = {g[i]} BY <3>3
    <3> QED BY <3>4, OnlyOne
  <2>2. DOMAIN g = 0 .. N /\ g = [i \in 0 .. N |-> g[i]] BY <1>6 DEF Steps
  <2> QED BY <1>7, <2>1, <2>2
<1>13. fed = [i \in 0 .. N |->
                IF i = 0 THEN s
                ELSE CHOOSE t \in {Lio!Bin(u, begin, Bins[i]) : u \in {fed[i - 1]}} : TRUE]
  BY <1>12, Zenon
<1> HIDE DEF fed
<1>14. fed[0] = s BY <1>2, <1>13
<1>15. ASSUME NEW i \in 1 .. N PROVE fed[i] = Lio!Bin(fed[i - 1], begin, Bins[i])
  <2>1. i \in 0 .. N /\ i # 0 BY <1>2
  <2>2. fed[i] = CHOOSE t \in {Lio!Bin(u, begin, Bins[i]) : u \in {fed[i - 1]}} : TRUE
    BY <1>13, <2>1
  <2>3. {Lio!Bin(u, begin, Bins[i]) : u \in {fed[i - 1]}} = {Lio!Bin(fed[i - 1], begin, Bins[i])}
    OBVIOUS
  <2> QED BY <2>2, <2>3, OnlyOne
<1> DEFINE InOrder == Ordered(s) /\ s.predict <= begin
           U == {n \in Nat : n <= N => /\ fed[n] \in Feeds /\ Fed(begin, n, fed[n])
                                       /\ InOrder => Ordered(fed[n])}
<1>16. 0 \in U BY <1>14 DEF Fed
<1>17. ASSUME NEW n \in Nat, n \in U PROVE n + 1 \in U
  <2> SUFFICES ASSUME n + 1 <= N
               PROVE  /\ fed[n + 1] \in Feeds /\ Fed(begin, n + 1, fed[n + 1])
                      /\ InOrder => Ordered(fed[n + 1])
    OBVIOUS
  <2>1. n + 1 \in 1 .. N /\ (n + 1) - 1 = n /\ n <= N BY <1>2
  <2>2. fed[n] \in Feeds /\ Fed(begin, n, fed[n]) /\ (InOrder => Ordered(fed[n])) BY <1>17, <2>1
  <2>3. fed[n + 1] = Lio!Bin(fed[n], begin, Bins[n + 1]) BY <1>15, <2>1
  <2>4. InOrder => (n + 1 = 1 => fed[n].predict <= begin) BY <1>14
  <2> HIDE DEF InOrder
  <2>5. /\ fed[n + 1] \in Feeds /\ Fed(begin, n + 1, fed[n + 1])
        /\ Ordered(fed[n]) /\ (n + 1 = 1 => fed[n].predict <= begin) => Ordered(fed[n + 1])
    BY <2>1, <2>2, <2>3, NextBinIs
  <2> QED BY <2>2, <2>4, <2>5
<1> HIDE DEF U
<1>18. Nat \subseteq U BY <1>16, <1>17, SetInduction
<1>19. fed[N] \in Feeds /\ Fed(begin, N, fed[N]) /\ (InOrder => Ordered(fed[N])) BY <1>2, <1>18 DEF U
<1>20. fed[N].predict <= begin + Bins[N] /\ Sound(fed[N]) /\ ~fed[N].first
  <2>1. Bins[N] \in Nat BY <1>2, BinsAre
  <2>2. Lio!BinTime(Bins[N]) \in Nat /\ Lio!BinTime(Bins[N]) <= Bins[N] BY <2>1, BinTimeIs
  <2> QED BY <1>2, <1>19, <2>1, <2>2 DEF Fed
<1> QED BY <1>1, <1>19, <1>20

(* Too few points: the clocks follow the samples, and none is missing. *)
LEMMA SparseScanIs ==
  ASSUME last_timestamp_imu \in Int, NEW s \in Feeds, Sound(s), NEW begin \in Nat
  PROVE  LET t == Lio!SparseScan(s, begin)
         IN  t \in Feeds /\ Sound(t) /\ (t.first => s.first)
<1>1. CASE s.deque = <<>>
  <2>1. Lio!SparseScan(s, begin) = s BY <1>1 DEF Lio!SparseScan
  <2> QED BY <2>1
<1>2. CASE s.deque # <<>>
  <2> DEFINE d == s.deque
             stops == {i \in 1 .. Len(d) : \/ d[i] >= begin + lidar_time_inte
                                           \/ d[i] <= IF i = 1 THEN s.current ELSE d[i - 1]}
             n == Lio!Pops(d, stops)
             rest == SubSeq(d, n + 1, Len(d))
             x == IF rest = <<>> THEN d[n] ELSE Head(rest)
             t == [s EXCEPT !.deque = rest, !.next = x, !.first = FALSE, !.current = d[n], !.predict = d[n]]
             u == [s EXCEPT !.next = Head(d)]
  <2>1. Lio!SparseScan(s, begin) = IF n = 0 THEN u ELSE t BY <1>2 DEF Lio!SparseScan
  <2>2. d \in Seq(Nat) /\ d # <<>> BY <1>2 DEF Feeds
  <2>3. /\ d[Len(d)] = last_timestamp_imu
        /\ \A i \in 1 .. Len(d) : d[i] <= last_timestamp_imu
    BY <1>2 DEF Sound
  <2> HIDE DEF d, stops
  <2>4. n \in 0 .. Len(d) BY <2>2, PopsIs
  <2> HIDE DEF n
  <2>5. Head(d) \in Nat BY <2>2
  <2>6. CASE n = 0
    <3>1. /\ u \in Feeds /\ u.deque = s.deque /\ u.first = s.first /\ u.predict = s.predict
          /\ u.flaws = s.flaws
      BY <2>5 DEF Feeds
    <3> HIDE DEF u
    <3> QED BY <2>1, <2>6, <3>1 DEF Sound
  <2>7. CASE n # 0
    <3>1. rest \in Seq(Nat) /\ Len(rest) = Len(d) - n /\ \A i \in 1 .. Len(rest) : rest[i] = d[n + i]
      BY <2>2, <2>4
    <3>2. d[n] \in Nat /\ d[n] <= last_timestamp_imu BY <2>2, <2>3, <2>4, <2>7
    <3> HIDE DEF rest
    <3>3. x \in Nat BY <3>1, <3>2
    <3> HIDE DEF x
    <3>4. /\ t \in Feeds /\ t.deque = rest /\ ~t.first /\ t.predict = d[n] /\ t.flaws = s.flaws
      BY <3>1, <3>2, <3>3 DEF Feeds
    <3> HIDE DEF t
    <3>5. rest # <<>> => rest[Len(rest)] = last_timestamp_imu
      <4> SUFFICES ASSUME rest # <<>> PROVE rest[Len(rest)] = last_timestamp_imu OBVIOUS
      <4>1. Len(rest) \in 1 .. Len(rest) /\ n + Len(rest) = Len(d) BY <2>2, <2>4, <3>1
      <4> QED BY <2>3, <3>1, <4>1
    <3>6. \A i \in 1 .. Len(rest) : rest[i] <= last_timestamp_imu
      <4>1. \A i \in 1 .. Len(rest) : n + i \in 1 .. Len(d) BY <2>2, <2>4, <3>1
      <4> QED BY <2>3, <3>1, <4>1
    <3>7. Sound(t) BY <3>2, <3>4, <3>5, <3>6 DEF Sound
    <3> QED BY <2>1, <2>7, <3>4, <3>7
  <2> QED BY <2>6, <2>7
<1> QED BY <1>1, <1>2

-----------------------------------------------------------------------------
(* The odometry's invariant: the deque is sound; the scans waiting are in    *)
(* order and the filter has reached none of them, nor the next one to come;  *)
(* and until a scan has too few points, the next sample is one the filter    *)
(* has not reached. *)
LioType ==
  /\ Lio!State \in Feeds
  /\ last_timestamp_imu \in Int /\ last_timestamp_lidar \in Nat
  /\ lidar_buffer \in Seq([begin : Nat, dense : BOOLEAN])
  /\ sparse \in BOOLEAN
  /\ phase # "run" => is_first_frame

ScansInOrder ==
  /\ last_timestamp_lidar % ScanStep = 0
  /\ \A i \in 1 .. Len(lidar_buffer) :
       lidar_buffer[i].begin % ScanStep = 0 /\ lidar_buffer[i].begin <= last_timestamp_lidar
  /\ \A i, j \in 1 .. Len(lidar_buffer) : i < j => lidar_buffer[i].begin < lidar_buffer[j].begin

NotAhead ==
  /\ time_predict < last_timestamp_lidar + ScanStep
  /\ \A i \in 1 .. Len(lidar_buffer) : time_predict < lidar_buffer[i].begin

LioInv ==
  /\ LioType /\ Sound(Lio!State) /\ ScansInOrder
  /\ ~sparse => Ordered(Lio!State) /\ NotAhead

(* Scans are at least a step apart. *)
LEMMA StepApart ==
  ASSUME NEW a \in Nat, NEW b \in Nat, a % ScanStep = 0, b % ScanStep = 0, a < b
  PROVE  a + ScanStep <= b
<1> DEFINE p == a \div ScanStep
           q == b \div ScanStep
<1>1. ScanStep \in Nat \ {0} BY LioConstants
<1>2. p \in Nat /\ q \in Nat /\ a = ScanStep * p /\ b = ScanStep * q BY <1>1
<1> HIDE DEF p, q
<1>3. p < q
  <2> SUFFICES ASSUME q <= p PROVE FALSE BY <1>2
  <2>1. p - q \in Nat BY <1>2
  <2>2. ScanStep * (p - q) \in Nat /\ ScanStep * (p - q) = ScanStep * p - ScanStep * q BY <1>1, <1>2, <2>1
  <2> QED BY <1>2, <2>2
<1>4. q - p - 1 \in Nat BY <1>2, <1>3
<1>5. ScanStep * (q - p - 1) \in Nat /\ ScanStep * (q - p - 1) = ScanStep * q - ScanStep * p - ScanStep
  BY <1>1, <1>2, <1>4
<1> QED BY <1>1, <1>2, <1>5

LEMMA LioInit == Lio!Init => LioInv
<1> SUFFICES ASSUME Lio!Init PROVE LioInv OBVIOUS
<1>1. Lio!State \in Feeds BY DEF Lio!Init, Lio!State, Feeds, Flaws
<1>2. LioType
  <2>1. last_timestamp_imu \in Int /\ last_timestamp_lidar \in Nat
    <3>1. last_timestamp_imu = -1 /\ last_timestamp_lidar = 0 BY DEF Lio!Init
    <3> QED BY <3>1
  <2>3. sparse \in BOOLEAN BY Zenon DEF Lio!Init
  <2>2. lidar_buffer \in Seq([begin : Nat, dense : BOOLEAN])
    <3>1. lidar_buffer = <<>> BY DEF Lio!Init
    <3> QED BY <3>1
  <2> QED BY <1>1, <2>1, <2>2, <2>3 DEF Lio!Init, LioType
<1>3. Sound(Lio!State) BY DEF Lio!Init, Lio!State, Sound
<1>4. 0 % ScanStep = 0 /\ ScanStep \in Nat \ {0} BY LioConstants
<1>5. ScansInOrder /\ NotAhead BY <1>4 DEF Lio!Init, ScansInOrder, NotAhead
<1>6. Ordered(Lio!State) BY DEF Lio!Init, Lio!State, Ordered, NextIsNew
<1> QED BY <1>2, <1>3, <1>5, <1>6 DEF LioInv

LEMMA ImuCallbackKeeps ==
  ASSUME LioInv, NEW stamp \in Nat, stamp # last_timestamp_imu, Lio!ImuCallback(stamp)
  PROVE  LioInv'
<1> DEFINE s == Lio!State
           d == imu_deque
           e == Append(d, stamp)
           t == [deque |-> e, next |-> imu_next, first |-> is_first_frame,
                 current |-> time_current, predict |-> time_predict,
                 flaws |-> flaws, used |-> last_used, delay |-> delay]
<1>1. /\ imu_deque' = Append(d, stamp) /\ last_timestamp_imu' = stamp /\ stamp > last_timestamp_imu
      /\ UNCHANGED <<lidar_buffer, last_timestamp_lidar, phase, imu_next, is_first_frame,
                     time_current, time_predict, sparse, flaws, last_used, delay>>
  BY DEF Lio!ImuCallback, Lio!filter, Lio!history, LioInv, LioType
<1>2. Lio!State' = t BY <1>1 DEF Lio!State
<1>3. s \in Feeds /\ s.deque = d /\ d \in Seq(Nat) BY DEF LioInv, LioType, Lio!State, Feeds
<1>4. /\ e \in Seq(Nat) /\ Len(e) = Len(d) + 1
      /\ e[Len(d) + 1] = stamp /\ \A i \in 1 .. Len(d) : e[i] = d[i]
      /\ e # <<>>
  <2>1. d \in Seq(Nat) BY <1>3
  <2> HIDE DEF d
  <2>2. /\ e \in Seq(Nat) /\ Len(e) = Len(d) + 1 /\ Len(d) \in Nat
        /\ e[Len(d) + 1] = stamp /\ \A i \in 1 .. Len(d) : e[i] = d[i]
    BY <2>1
  <2> HIDE DEF e
  <2> QED BY <2>2
<1>5. /\ t \in Feeds /\ t.deque = e /\ t.next = s.next /\ t.first = s.first /\ t.predict = s.predict
      /\ t.flaws = s.flaws /\ t.used = s.used
  <2> HIDE DEF e
  <2> QED BY <1>3, <1>4 DEF Feeds, Lio!State
<1> HIDE DEF e, d, t
<1>6. LioType' BY <1>1, <1>2, <1>5 DEF LioInv, LioType
<1>7. /\ \A i \in 1 .. Len(d) : d[i] <= last_timestamp_imu
      /\ ~s.first => s.predict <= last_timestamp_imu
      /\ "empty" \notin s.flaws
  BY <1>3 DEF LioInv, Sound
<1>8. last_timestamp_imu \in Int /\ Len(d) \in Nat BY <1>3 DEF LioInv, LioType
<1>9. \A i \in 1 .. Len(e) : e[i] <= stamp
  <2> TAKE i \in 1 .. Len(e)
  <2>1. CASE i = Len(d) + 1 BY <1>4, <2>1 DEF e
  <2>2. CASE i # Len(d) + 1
    <3>1. i \in 1 .. Len(d) BY <1>4, <1>8, <2>2 DEF e
    <3>2. d[i] <= last_timestamp_imu /\ d[i] \in Nat /\ e[i] = d[i] BY <1>3, <1>4, <1>7, <3>1 DEF e
    <3> QED BY <1>1, <1>8, <3>2
  <2> QED BY <2>1, <2>2
<1>10. s.predict \in Nat /\ s.next \in Nat BY <1>3 DEF Feeds
<1>11. e[Len(e)] = stamp BY <1>4 DEF e
<1>12. ~t.first => t.predict <= stamp BY <1>1, <1>5, <1>7, <1>8, <1>10
<1> DEFINE SoundAt(r, last) ==
  /\ r.deque # <<>> => r.deque[Len(r.deque)] = last
  /\ \A i \in 1 .. Len(r.deque) : r.deque[i] <= last
  /\ ~r.first => r.predict <= last
  /\ "empty" \notin r.flaws
<1>13. SoundAt(t, stamp) BY <1>5, <1>7, <1>9, <1>11, <1>12
<1>14. Sound(Lio!State)' BY <1>1, <1>2, <1>13 DEF Sound
<1>15. ScansInOrder' BY <1>1 DEF LioInv, ScansInOrder
<1>16. ASSUME ~sparse PROVE Ordered(Lio!State)' /\ NotAhead'
  <2>1. Ordered(s) /\ NotAhead BY <1>16 DEF LioInv
  <2>2. NextIsNew(t)
    <3> SUFFICES ASSUME ~t.first, t.next < t.predict
                 PROVE  t.next = e[1] \/ e[1] >= t.predict
      BY <1>5 DEF NextIsNew
    <3>1. CASE d = <<>>
      <4>1. e[1] = stamp BY <1>4, <3>1 DEF e
      <4> QED BY <1>1, <1>5, <1>12, <1>10, <4>1
    <3>2. CASE d # <<>>
      <4>1. e[1] = d[1] BY <1>3, <1>4, <3>2 DEF e
      <4> QED BY <1>3, <1>5, <2>1, <3>2, <4>1 DEF Ordered, NextIsNew
    <3> QED BY <3>1, <3>2
  <2>3. Ordered(t) BY <1>5, <2>1, <2>2 DEF Ordered
  <2>4. Ordered(Lio!State') BY <1>2, <2>3
  <2>5. NotAhead' BY <1>1, <2>1 DEF NotAhead
  <2> QED BY <2>4, <2>5 DEF Ordered, NextIsNew
<1> QED BY <1>1, <1>6, <1>14, <1>15, <1>16 DEF LioInv

LEMMA LidarCallbackKeeps ==
  ASSUME LioInv, NEW stamp \in Nat, stamp % ScanStep = 0, stamp # last_timestamp_lidar,
         NEW dense \in BOOLEAN, Lio!LidarCallback(stamp, dense)
  PROVE  LioInv'
<1> DEFINE new == [begin |-> stamp, dense |-> dense]
           e == Append(lidar_buffer, new)
<1>1. /\ lidar_buffer' = e /\ last_timestamp_lidar' = stamp /\ stamp > last_timestamp_lidar
      /\ UNCHANGED <<imu_deque, last_timestamp_imu, phase, imu_next, is_first_frame,
                     time_current, time_predict, sparse, flaws, last_used, delay>>
  BY DEF Lio!LidarCallback, Lio!filter, Lio!history, LioInv, LioType
<1>2. Lio!State' = Lio!State BY <1>1 DEF Lio!State
<1>3. /\ lidar_buffer \in Seq([begin : Nat, dense : BOOLEAN]) /\ last_timestamp_lidar \in Nat
      /\ last_timestamp_lidar % ScanStep = 0 /\ new \in [begin : Nat, dense : BOOLEAN]
      /\ new.begin = stamp
  BY DEF LioInv, LioType, ScansInOrder
<1> HIDE DEF new
<1>4. /\ e \in Seq([begin : Nat, dense : BOOLEAN]) /\ Len(e) = Len(lidar_buffer) + 1
      /\ e[Len(lidar_buffer) + 1] = new /\ \A i \in 1 .. Len(lidar_buffer) : e[i] = lidar_buffer[i]
      /\ Len(lidar_buffer) \in Nat
  BY <1>3
<1> HIDE DEF e
<1>5. LioType' BY <1>1, <1>2, <1>4 DEF LioInv, LioType
<1>6. Sound(Lio!State)' BY <1>1, <1>2 DEF LioInv, Sound
<1>7. \A i \in 1 .. Len(lidar_buffer) :
        /\ lidar_buffer[i].begin % ScanStep = 0 /\ lidar_buffer[i].begin <= last_timestamp_lidar
        /\ lidar_buffer[i].begin \in Nat
  <2> TAKE i \in 1 .. Len(lidar_buffer)
  <2> DEFINE R == [begin : Nat, dense : BOOLEAN]
  <2>1. lidar_buffer[i] \in R
    <3> HIDE DEF R
    <3>1. lidar_buffer \in Seq(R) BY <1>3 DEF R
    <3> QED BY <3>1
  <2>2. ScansInOrder BY DEF LioInv
  <2> QED BY <2>1, <2>2 DEF ScansInOrder
<1>8. \A i \in 1 .. Len(e) : i # Len(lidar_buffer) + 1 => i \in 1 .. Len(lidar_buffer) BY <1>4
<1>9. \A i \in 1 .. Len(e) : e[i].begin % ScanStep = 0 /\ e[i].begin <= stamp
  <2> TAKE i \in 1 .. Len(e)
  <2>1. CASE i = Len(lidar_buffer) + 1 BY <1>3, <1>4, <2>1
  <2>2. CASE i # Len(lidar_buffer) + 1
    <3>1. i \in 1 .. Len(lidar_buffer) BY <1>8, <2>2
    <3>2. e[i] = lidar_buffer[i] BY <1>4, <3>1
    <3>3. e[i].begin % ScanStep = 0 /\ e[i].begin <= last_timestamp_lidar /\ e[i].begin \in Nat
      BY <1>7, <3>1, <3>2
    <3> QED BY <1>1, <1>3, <3>3
  <2> QED BY <2>1, <2>2
<1>10. \A i, j \in 1 .. Len(e) : i < j => e[i].begin < e[j].begin
  <2> SUFFICES ASSUME NEW i \in 1 .. Len(e), NEW j \in 1 .. Len(e), i < j
               PROVE  e[i].begin < e[j].begin
    OBVIOUS
  <2>1. i \in 1 .. Len(lidar_buffer) BY <1>4
  <2>2. CASE j = Len(lidar_buffer) + 1 BY <1>1, <1>3, <1>4, <1>7, <2>1, <2>2
  <2>3. CASE j # Len(lidar_buffer) + 1
    <3>1. j \in 1 .. Len(lidar_buffer) BY <1>8, <2>3
    <3> QED BY <1>4, <2>1, <3>1 DEF LioInv, ScansInOrder
  <2> QED BY <2>2, <2>3
<1>11. ScansInOrder' BY <1>1, <1>9, <1>10 DEF ScansInOrder
<1>12. ASSUME ~sparse PROVE Ordered(Lio!State)' /\ NotAhead'
  <2>1. Ordered(Lio!State) /\ NotAhead BY <1>12 DEF LioInv
  <2>2. Ordered(Lio!State') BY <1>2, <2>1
  <2>3. last_timestamp_lidar + ScanStep <= stamp BY <1>1, <1>3, StepApart
  <2>4. time_predict \in Nat /\ ScanStep \in Nat \ {0}
    BY LioConstants DEF LioInv, LioType, Lio!State, Feeds
  <2>5. time_predict < stamp /\ time_predict < stamp + ScanStep
    BY <1>3, <2>1, <2>3, <2>4 DEF NotAhead
  <2>6. \A i \in 1 .. Len(e) : time_predict < e[i].begin
    BY <1>3, <1>4, <1>8, <2>1, <2>5 DEF NotAhead
  <2>7. NotAhead' BY <1>1, <2>5, <2>6 DEF NotAhead
  <2> QED BY <2>2, <2>7 DEF Ordered, NextIsNew
<1> QED BY <1>1, <1>5, <1>6, <1>11, <1>12 DEF LioInv

(* A scan is taken: what the loop knows of it and of those behind it. *)
LEMMA TakeScanIs ==
  ASSUME LioInv, Lio!TakeScan, NEW front, front = Head(lidar_buffer)
  PROVE  /\ front \in [begin : Nat, dense : BOOLEAN] /\ imu_deque # <<>>
         /\ front.begin + Bins[Len(Bins)] <= last_timestamp_imu
         /\ front.begin <= last_timestamp_lidar /\ front.begin % ScanStep = 0
         /\ lidar_buffer' \in Seq([begin : Nat, dense : BOOLEAN])
         /\ ScansInOrder'
         /\ \A i \in 1 .. Len(lidar_buffer') : front.begin + ScanStep <= lidar_buffer'[i].begin
         /\ \A i \in 1 .. Len(lidar_buffer') : \E j \in 1 .. Len(lidar_buffer) :
              lidar_buffer'[i] = lidar_buffer[j]
         /\ UNCHANGED <<last_timestamp_imu, last_timestamp_lidar>>
<1> DEFINE b == lidar_buffer
           c == lidar_buffer'
           R == [begin : Nat, dense : BOOLEAN]
<1>1. b \in Seq(R) /\ b # <<>> /\ imu_deque # <<>> /\ Lio!Covered(Head(b))
  BY DEF Lio!TakeScan, Lio!Synced, LioInv, LioType
<1>2. c = Tail(b) /\ UNCHANGED <<last_timestamp_imu, last_timestamp_lidar>> BY DEF Lio!TakeScan
<1>3. \A i \in 1 .. Len(b) :
        b[i].begin % ScanStep = 0 /\ b[i].begin <= last_timestamp_lidar
  BY DEF LioInv, ScansInOrder
<1>4. \A i, j \in 1 .. Len(b) : i < j => b[i].begin < b[j].begin BY DEF LioInv, ScansInOrder
<1>5. last_timestamp_lidar % ScanStep = 0 BY DEF LioInv, ScansInOrder
<1> HIDE DEF b, c, R
<1>6. /\ Len(b) \in Nat /\ 1 \in 1 .. Len(b) /\ Head(b) = b[1] /\ \A i \in 1 .. Len(b) : b[i] \in R
      /\ c \in Seq(R) /\ Len(c) = Len(b) - 1 /\ \A i \in 1 .. Len(c) : c[i] = b[i + 1]
  BY <1>1, <1>2
<1>7. front = b[1] /\ front \in R BY <1>6 DEF b
<1>8. \A i \in 1 .. Len(b) : b[i].begin \in Nat BY <1>6 DEF R
<1>9. \A i \in 1 .. Len(c) : i + 1 \in 1 .. Len(b) /\ 1 < i + 1 BY <1>6
<1>10. \A i \in 1 .. Len(c) : front.begin + ScanStep <= c[i].begin
  <2> TAKE i \in 1 .. Len(c)
  <2>1. c[i] = b[i + 1] /\ i + 1 \in 1 .. Len(b) /\ b[1].begin < b[i + 1].begin BY <1>4, <1>6, <1>9
  <2>2. b[1].begin \in Nat /\ b[i + 1].begin \in Nat /\ b[1].begin % ScanStep = 0
        /\ b[i + 1].begin % ScanStep = 0
    BY <1>3, <1>6, <1>8, <2>1
  <2>3. b[1].begin + ScanStep <= b[i + 1].begin BY <2>1, <2>2, StepApart
  <2> QED BY <1>7, <2>1, <2>3
<1>11. \A i \in 1 .. Len(c) : c[i].begin % ScanStep = 0 /\ c[i].begin <= last_timestamp_lidar
  BY <1>3, <1>6, <1>9
<1>12. \A i, j \in 1 .. Len(c) : i < j => c[i].begin < c[j].begin
  <2> TAKE i, j \in 1 .. Len(c)
  <2>1. i < j => i + 1 < j + 1 OBVIOUS
  <2> QED BY <1>4, <1>6, <1>9, <2>1
<1>13. ScansInOrder' BY <1>2, <1>5, <1>11, <1>12 DEF ScansInOrder, c
<1>14. front.begin + Bins[Len(Bins)] <= last_timestamp_imu
  <2>1. Lio!Covered(front) BY <1>1 DEF b
  <2>2. last_timestamp_imu \in Int /\ front.begin \in Nat /\ Bins[Len(Bins)] \in Nat
    BY <1>7, BinsAre DEF LioInv, LioType, R
  <2> QED BY <2>1, <2>2, BinsAre DEF Lio!Covered, Lio!EndOf
<1>15. front.begin <= last_timestamp_lidar /\ front.begin % ScanStep = 0 BY <1>3, <1>6, <1>7
<1> QED BY <1>1, <1>2, <1>6, <1>7, <1>9, <1>10, <1>13, <1>14, <1>15 DEF b, c, R

(* A step that takes a scan and leaves the filter and the deque as t. *)
LEMMA ScanKeeps ==
  ASSUME LioInv, Lio!TakeScan, NEW t \in Feeds, Sound(t), Lio!State' = t,
         phase' # "run" => t.first, sparse' \in BOOLEAN,
         ~sparse' => ~sparse /\ Ordered(t)
                     /\ (t.predict = time_predict
                         \/ t.predict <= Head(lidar_buffer).begin + Bins[Len(Bins)])
  PROVE  LioInv'
<1> DEFINE front == Head(lidar_buffer)
<1>1. /\ front \in [begin : Nat, dense : BOOLEAN]
      /\ front.begin <= last_timestamp_lidar
      /\ lidar_buffer' \in Seq([begin : Nat, dense : BOOLEAN])
      /\ ScansInOrder'
      /\ \A i \in 1 .. Len(lidar_buffer') : front.begin + ScanStep <= lidar_buffer'[i].begin
      /\ \A i \in 1 .. Len(lidar_buffer') : \E j \in 1 .. Len(lidar_buffer) :
           lidar_buffer'[i] = lidar_buffer[j]
      /\ UNCHANGED <<last_timestamp_imu, last_timestamp_lidar>>
  BY TakeScanIs
<1> HIDE DEF front
<1>2. /\ t.first = is_first_frame' /\ t.predict = time_predict' /\ t.deque = imu_deque'
      /\ t.next = imu_next' /\ t.flaws = flaws' /\ t.used = last_used'
  BY DEF Lio!State
<1>3. LioType'
  <2>1. last_timestamp_imu \in Int /\ last_timestamp_lidar \in Nat BY DEF LioInv, LioType
  <2>2. (Lio!State \in Feeds)' BY DEF Feeds, Flaws
  <2> QED BY <1>1, <1>2, <2>1, <2>2 DEF LioType
<1>4. Sound(Lio!State)' BY <1>1, <1>2 DEF Sound
<1>5. ASSUME ~sparse' PROVE Ordered(Lio!State)' /\ NotAhead'
  <2>1. Ordered(t) /\ ~sparse BY <1>5
  <2>2. Ordered(Lio!State)' BY <2>1 DEF Ordered, NextIsNew
  <2>3. NotAhead BY <2>1 DEF LioInv
  <2>4. /\ last_timestamp_lidar \in Nat /\ front.begin \in Nat /\ t.predict \in Nat
        /\ ScanStep \in Nat \ {0} /\ Bins[Len(Bins)] \in Nat /\ Bins[Len(Bins)] < ScanStep
    BY <1>1, BinsAre, LioConstants DEF LioInv, LioType, Feeds
  <2>5. CASE t.predict = time_predict
    <3>1. time_predict' < last_timestamp_lidar' + ScanStep BY <1>1, <1>2, <2>3, <2>5 DEF NotAhead
    <3>2. \A i \in 1 .. Len(lidar_buffer') : time_predict' < lidar_buffer'[i].begin
      BY <1>1, <1>2, <2>3, <2>5 DEF NotAhead
    <3> QED BY <2>2, <3>1, <3>2 DEF NotAhead
  <2>6. CASE t.predict <= front.begin + Bins[Len(Bins)]
    <3>1. t.predict < front.begin + ScanStep BY <2>4, <2>6
    <3>2. time_predict' < last_timestamp_lidar' + ScanStep BY <1>1, <1>2, <2>4, <3>1
    <3>3. \A i \in 1 .. Len(lidar_buffer') : time_predict' < lidar_buffer'[i].begin
      <4> TAKE i \in 1 .. Len(lidar_buffer')
      <4> DEFINE R == [begin : Nat, dense : BOOLEAN]
      <4>1. lidar_buffer'[i] \in R
        <5> HIDE DEF R
        <5>1. lidar_buffer' \in Seq(R) BY <1>1 DEF R
        <5> QED BY <5>1
      <4>2. lidar_buffer'[i].begin \in Nat BY <4>1
      <4>3. front.begin + ScanStep <= lidar_buffer'[i].begin BY <1>1
      <4> QED BY <1>2, <2>4, <3>1, <4>2, <4>3
    <3> QED BY <2>2, <3>2, <3>3 DEF NotAhead
  <2> QED BY <1>5, <2>5, <2>6 DEF front
<1> QED BY <1>1, <1>3, <1>4, <1>5 DEF LioInv

LEMMA InitialiseImuKeeps ==
  ASSUME LioInv, NEW enough \in BOOLEAN, Lio!InitialiseImu(enough)
  PROVE  LioInv'
<1> DEFINE front == Head(lidar_buffer)
           moved == Lio!Before(imu_deque, Lio!EndOf(front))
           rest == Lio!From(imu_deque, Lio!EndOf(front))
           n == Lio!NextOf(rest, moved, imu_next)
           s == [Lio!State EXCEPT !.deque = rest, !.next = n, !.current = 0]
           t == IF init_iter_num = 0 THEN Lio!Popped(s, front.begin) ELSE s
<1>1. Lio!TakeScan /\ phase = "init" /\ UNCHANGED sparse BY DEF Lio!InitialiseImu
<1>2. Lio!Store(t)
  <2>1. s = [Lio!State EXCEPT !.deque = rest, !.next = Lio!NextOf(rest, moved, @), !.current = 0]
    BY DEF Lio!State
  <2>2. Lio!Store(IF init_iter_num = 0
                  THEN Lio!Popped([Lio!State EXCEPT !.deque = rest, !.next = Lio!NextOf(rest, moved, @), !.current = 0], front.begin)
                  ELSE [Lio!State EXCEPT !.deque = rest, !.next = Lio!NextOf(rest, moved, @), !.current = 0])
    BY Zenon DEF Lio!InitialiseImu
  <2> QED BY <2>1, <2>2
<1>3. /\ front \in [begin : Nat, dense : BOOLEAN] /\ imu_deque # <<>>
      /\ front.begin + Bins[Len(Bins)] <= last_timestamp_imu
  BY <1>1, TakeScanIs
<1>4. Lio!EndOf(front) \in Nat /\ Lio!EndOf(front) = front.begin + Bins[Len(Bins)] /\ front.begin \in Nat
  BY <1>3, BinsAre DEF Lio!EndOf
<1>5. /\ Lio!State \in Feeds /\ Sound(Lio!State) /\ is_first_frame /\ imu_deque \in Seq(Nat)
      /\ last_timestamp_imu \in Int /\ imu_next \in Nat
      /\ imu_deque[Len(imu_deque)] = last_timestamp_imu
  <2>1. Lio!State \in Feeds /\ Sound(Lio!State) /\ is_first_frame /\ last_timestamp_imu \in Int
    BY <1>1 DEF LioInv, LioType
  <2>2. Lio!State.deque = imu_deque /\ Lio!State.next = imu_next BY DEF Lio!State
  <2> QED BY <1>3, <2>1, <2>2 DEF Feeds, Sound
<1> HIDE DEF front
<1>6. rest \in Seq(Nat) /\ moved \in Seq(Nat) /\ rest # <<>> BY <1>3, <1>4, <1>5, FromIs
<1> HIDE DEF rest, moved
<1>7. n \in Nat BY <1>5, <1>6, NextOfIs
<1> HIDE DEF n
<1>8. /\ s \in Feeds /\ s.deque = rest /\ s.first /\ s.predict = time_predict /\ s.flaws = flaws
      /\ s.used = last_used
  <2>1. Lio!State.first = is_first_frame /\ Lio!State.predict = time_predict /\ Lio!State.flaws = flaws
        /\ Lio!State.used = last_used
    BY DEF Lio!State
  <2> QED BY <1>5, <1>6, <1>7, <2>1 DEF Feeds
<1> HIDE DEF s
<1>9. Sound(s)
  <2>1. Lio!State.deque = imu_deque /\ Lio!State.flaws = flaws BY DEF Lio!State
  <2>2. "empty" \notin s.flaws BY <1>5, <1>8, <2>1 DEF Sound
  <2>3. Lio!State.first BY <1>5 DEF Lio!State
  <2> QED BY <1>4, <1>5, <1>8, <2>1, <2>2, <2>3, SoundFrom DEF rest
<1>10. /\ t \in Feeds /\ Sound(t) /\ t.first /\ t.predict = time_predict /\ t.flaws = flaws
       /\ t.used = last_used
  <2>1. CASE init_iter_num = 0 BY <1>4, <1>5, <1>6, <1>8, <1>9, <2>1, PoppedIs
  <2>2. CASE init_iter_num # 0 BY <1>8, <1>9, <2>2
  <2> QED BY <2>1, <2>2
<1> HIDE DEF t
<1>11. Lio!State' = t BY <1>2, <1>10 DEF Lio!Store, Lio!State, Feeds
<1>12. ~sparse => Ordered(t)
  <2>1. ~sparse => Ordered(Lio!State) BY DEF LioInv
  <2>2. Lio!State.predict = time_predict /\ Lio!State.flaws = flaws /\ Lio!State.used = last_used
    BY DEF Lio!State
  <2> QED BY <1>10, <2>1, <2>2 DEF Ordered, NextIsNew
<1>13. sparse \in BOOLEAN BY DEF LioInv, LioType
<1> QED BY <1>1, <1>10, <1>11, <1>12, <1>13, ScanKeeps

LEMMA InitialiseMapKeeps ==
  ASSUME LioInv, NEW enough \in BOOLEAN, Lio!InitialiseMap(enough)
  PROVE  LioInv'
<1>1. /\ Lio!TakeScan /\ phase = "map"
      /\ UNCHANGED <<imu_deque, imu_next, is_first_frame, time_current, time_predict, sparse, flaws,
                     last_used, delay>>
  BY DEF Lio!InitialiseMap, Lio!filter, Lio!history
<1>2. Lio!State' = Lio!State BY <1>1 DEF Lio!State
<1>3. Lio!State \in Feeds /\ Sound(Lio!State) /\ is_first_frame /\ sparse \in BOOLEAN
  BY <1>1 DEF LioInv, LioType
<1>4. ~sparse => Ordered(Lio!State) BY DEF LioInv
<1>5. Lio!State.first /\ Lio!State.predict = time_predict BY <1>3 DEF Lio!State
<1> QED BY <1>1, <1>2, <1>3, <1>4, <1>5, ScanKeeps

LEMMA RunFilterKeeps ==
  ASSUME LioInv, Lio!RunFilter
  PROVE  LioInv'
<1> DEFINE front == Head(lidar_buffer)
           s == Lio!State
           t == IF front.dense THEN Lio!DenseScan(s, front.begin) ELSE Lio!SparseScan(s, front.begin)
<1>1. /\ Lio!TakeScan /\ phase = "run" /\ phase' = "run" /\ Lio!Store(t)
      /\ sparse' = (sparse \/ ~front.dense)
  BY Zenon DEF Lio!RunFilter
<1>2. /\ front \in [begin : Nat, dense : BOOLEAN] /\ imu_deque # <<>>
      /\ front.begin + Bins[Len(Bins)] <= last_timestamp_imu
  BY <1>1, TakeScanIs
<1>3. front.begin \in Nat /\ front.dense \in BOOLEAN BY <1>2
<1>4. s \in Feeds /\ Sound(s) /\ last_timestamp_imu \in Int /\ sparse \in BOOLEAN
  BY DEF LioInv, LioType
<1>5. s.deque # <<>> /\ s.predict = time_predict BY <1>2 DEF Lio!State
<1>6. lidar_buffer # <<>> BY <1>1 DEF Lio!TakeScan, Lio!Synced
<1>7. ~sparse => Ordered(s) /\ s.predict <= front.begin
  <2> SUFFICES ASSUME ~sparse PROVE Ordered(s) /\ s.predict <= front.begin OBVIOUS
  <2>1. Ordered(s) /\ NotAhead BY DEF LioInv
  <2>2. front = lidar_buffer[1] /\ 1 \in 1 .. Len(lidar_buffer) BY <1>6 DEF LioInv, LioType
  <2>3. time_predict < front.begin BY <2>1, <2>2 DEF NotAhead
  <2>4. time_predict \in Nat BY <1>4, <1>5 DEF Feeds
  <2> QED BY <1>3, <1>5, <2>1, <2>3, <2>4
<1> HIDE DEF front, s
<1>8. /\ t \in Feeds /\ Sound(t)
      /\ ~sparse' => ~sparse /\ Ordered(t) /\ t.predict <= front.begin + Bins[Len(Bins)]
  <2>1. CASE front.dense
    <3>1. t = Lio!DenseScan(s, front.begin) BY <2>1
    <3> HIDE DEF t
    <3>2. /\ t \in Feeds /\ Sound(t)
          /\ Ordered(s) /\ s.predict <= front.begin => Ordered(t) /\ t.predict <= front.begin + Bins[Len(Bins)]
      BY <1>2, <1>3, <1>4, <1>5, <3>1, DenseScanIs
    <3> QED BY <1>1, <1>7, <3>2
  <2>2. CASE ~front.dense
    <3>1. t = Lio!SparseScan(s, front.begin) BY <2>2
    <3> HIDE DEF t
    <3>2. t \in Feeds /\ Sound(t) BY <1>3, <1>4, <3>1, SparseScanIs
    <3> QED BY <1>1, <2>2, <3>2
  <2> QED BY <2>1, <2>2
<1>9. Lio!State' = t
  <2> HIDE DEF t
  <2> QED BY <1>1, <1>8 DEF Lio!Store, Lio!State, Feeds
<1>10. sparse' \in BOOLEAN BY <1>1
<1> HIDE DEF t
<1> QED BY <1>1, <1>8, <1>9, <1>10, ScanKeeps DEF front

LEMMA LioKeeps == LioInv /\ [Lio!Next]_lioVars => LioInv'
<1> SUFFICES ASSUME LioInv, [Lio!Next]_lioVars PROVE LioInv' OBVIOUS
<1>1. CASE UNCHANGED lioVars
  <2>1. /\ Lio!State' = Lio!State
        /\ UNCHANGED <<last_timestamp_imu, last_timestamp_lidar, lidar_buffer, sparse, phase,
                       is_first_frame, time_predict>>
    BY <1>1 DEF lioVars, Lio!State
  <2>2. LioType' BY <2>1 DEF LioInv, LioType
  <2>3. Sound(Lio!State)' /\ ScansInOrder' BY <2>1 DEF LioInv, Sound, ScansInOrder
  <2>4. ~sparse => Ordered(Lio!State)' /\ NotAhead' BY <2>1 DEF LioInv, Ordered, NextIsNew, NotAhead
  <2> QED BY <2>1, <2>2, <2>3, <2>4 DEF LioInv
<1>2. ASSUME NEW stamp \in {t \in 0 .. MaxTime : t % ImuStep = 0} \ {last_timestamp_imu},
             Lio!ImuCallback(stamp)
      PROVE LioInv'
  <2>1. stamp \in Nat /\ stamp # last_timestamp_imu BY <1>2, LioConstants
  <2> QED BY <1>2, <2>1, ImuCallbackKeeps
<1>3. ASSUME NEW stamp \in {t \in 0 .. MaxTime : t % ScanStep = 0} \ {last_timestamp_lidar},
             NEW dense \in BOOLEAN, Lio!LidarCallback(stamp, dense)
      PROVE LioInv'
  <2>1. stamp \in Nat /\ stamp # last_timestamp_lidar /\ stamp % ScanStep = 0 BY <1>3, LioConstants
  <2> QED BY <1>3, <2>1, LidarCallbackKeeps
<1>4. ASSUME NEW enough \in BOOLEAN, Lio!InitialiseImu(enough) PROVE LioInv'
  BY <1>4, InitialiseImuKeeps
<1>5. ASSUME NEW enough \in BOOLEAN, Lio!InitialiseMap(enough) PROVE LioInv'
  BY <1>5, InitialiseMapKeeps
<1>6. CASE Lio!RunFilter BY <1>6, RunFilterKeeps
<1> QED BY <1>1, <1>2, <1>3, <1>4, <1>5, <1>6 DEF Lio!Next

(* Whatever the stamps of samples and scans, the bins of a scan and the way  *)
(* their times are computed: no sample is taken from an empty deque, and     *)
(* until a scan has too few points the filter's time never goes back and no  *)
(* sample is used twice or out of order. *)
THEOREM SamplesAreOrdered == Lio!Init /\ [][Lio!Next]_lioVars => []FedInOrder
<1>1. LioInv => FedInOrder
  <2> SUFFICES ASSUME LioInv PROVE FedInOrder OBVIOUS
  <2>1. Lio!State.flaws = flaws BY DEF Lio!State
  <2> QED BY <2>1 DEF LioInv, Sound, Ordered, FedInOrder, Lio!FedInOrder
<1> QED BY <1>1, LioInit, LioKeeps, PTL

-----------------------------------------------------------------------------
(* A behaviour of the run is one of each module. *)
LEMMA Composed ==
  MCSpec => /\ Spec
            /\ Packets!Init /\ [][Packets!Next]_packetVars
            /\ Samples!Init /\ [][Samples!Next]_sampleVars
            /\ Merge!Init /\ [][Merge!Next]_mergeVars
            /\ Lio!Init /\ [][Lio!Next]_lioVars
            /\ Reloc!Init /\ [][Reloc!Next]_relocVars
<1>1. MCInit => Init /\ Packets!Init /\ Samples!Init /\ Merge!Init /\ Lio!Init /\ Reloc!Init BY DEF MCInit
<1>2. [MCNext]_allVars =>
        /\ [Next]_vars
        /\ [Packets!Next]_packetVars /\ [Samples!Next]_sampleVars
        /\ [Merge!Next]_mergeVars /\ [Lio!Next]_lioVars /\ [Reloc!Next]_relocVars
  BY DEF MCNext, allVars, driverVars
<1> QED BY <1>1, <1>2, PTL DEF MCSpec, Spec

(* What holds of the modules holds of the run's specification, for any       *)
(* constants: none of its guards is needed. *)
THEOREM AllHold ==
  MCSpec => /\ []SamplingIsConfigured /\ []EveryPointOnce /\ []NoSampleStranded
            /\ []FedInOrder /\ []OdometryUsesResult
BY Composed, NoEarlySampling, NoPointIsLost, SampleIsPolled, SamplesAreOrdered, ResultIsUsed, PTL
=============================================================================
