--------------------------- MODULE PacketChannel ---------------------------
(***************************************************************************)
(* What the Livox driver promises between its receiving thread and its     *)
(* publishing thread: one bounded first-in first-out channel per lidar.    *)
(* A packet that finds the channel full is dropped, every accepted packet  *)
(* is taken exactly once and in order, and a packet without points is      *)
(* taken but not published.                                                *)
(***************************************************************************)
EXTENDS Naturals, Sequences

CONSTANTS
  Lidars,     \* the lidars of the driver
  Capacity,   \* packets a channel can hold
  Packets,    \* what a packet may contain
  Blank,      \* the packet without points
  Nothing     \* published before the first packet

VARIABLES
  buffer,     \* per lidar, the packets accepted and not yet taken
  published   \* per lidar, the packet published last

Init == /\ buffer = [l \in Lidars |-> <<>>]
        /\ published = [l \in Lidars |-> Nothing]

(* The receiving thread hands over a packet. *)
Accept(l, p) == /\ Len(buffer[l]) < Capacity
                /\ buffer' = [buffer EXCEPT ![l] = Append(@, p)]
                /\ UNCHANGED published

(* The publishing thread takes the oldest packet. *)
Take(l) == /\ buffer[l] # <<>>
           /\ buffer' = [buffer EXCEPT ![l] = Tail(@)]
           /\ published' = IF Head(buffer[l]) = Blank THEN published
                           ELSE [published EXCEPT ![l] = Head(buffer[l])]

Next == \E l \in Lidars : Take(l) \/ \E p \in Packets : Accept(l, p)

Spec == Init /\ [][Next]_<<buffer, published>>
=============================================================================
