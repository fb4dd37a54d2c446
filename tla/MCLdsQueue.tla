----------------------------- MODULE MCLdsQueue -----------------------------
(***************************************************************************)
(* Two lidars: either the second one is silent and the packets of the      *)
(* first differ, for the order of a ring, or both send and their packets   *)
(* are all alike, for sleeping, waking, delivering and leaving.            *)
(***************************************************************************)
EXTENDS LdsQueue

CONSTANT Alike

VARIABLE alone

MCInit == Init /\ alone \in BOOLEAN

Heard(l) == alone => l = 1

MCNext ==
  /\ UNCHANGED alone
  /\ \/ \E l \in Lidars, p \in Packets : Heard(l) /\ (~alone => p = Alike) /\ BeginPush(l, p)
     \/ \E l \in Lidars : Heard(l) /\ StartSampling(l)
     \/ Finish \/ StoreVisible \/ PollThread
     \/ RequestExit \/ SetExitSignal

MCSpec == MCInit /\ [][MCNext]_<<vars, alone>> /\ Fairness
=============================================================================
