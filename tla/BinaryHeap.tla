------------------------------ MODULE BinaryHeap ------------------------------
(***************************************************************************)
(* std::priority_queue with comp of theta_star.hpp, as libstdc++ keeps it: *)
(* a binary heap in an array, the smallest key on top.  Nothing is moved   *)
(* when the key of an entry is lowered where it lies, so that the heap     *)
(* order may be broken when an entry is pushed or popped.                  *)
(***************************************************************************)
EXTENDS Integers, Sequences

(* The position i and those above it up to the top. *)
Up[i \in Nat] == IF i = 0 THEN {} ELSE {i} \cup Up[i \div 2]

(* v is put into the hole i, or higher where the entries above are larger: *)
(* these sink by one. *)
Sift(h, i, v, key) ==
  LET sunk == {m \in Up[i] \ {1} : \A k \in Up[i] : k >= m => key[h[k \div 2]] > key[v]}
  IN  [m \in DOMAIN h |->
         IF m \in sunk THEN h[m \div 2]
         ELSE IF m \in Up[i] /\ \A k \in Up[i] : k > m => k \in sunk THEN v
         ELSE h[m]]

Push(h, v, key) == Sift(Append(h, v), Len(h) + 1, v, key)

(* Of n entries, the one below m that rises into a hole at m. *)
Riser(h, n, m, key) ==
  IF 2 * m < n /\ key[h[2 * m + 1]] <= key[h[2 * m]] THEN 2 * m + 1 ELSE 2 * m

(* Where the hole passes on its way from the top to the bottom. *)
Emptied(h, n, key) ==
  LET e[m \in Nat] == m = 1 \/ (m > 1 /\ e[m \div 2] /\ m = Riser(h, n, m \div 2, key))
  IN  e

(* The top is taken: the entries below rise into the hole, and the last    *)
(* entry is put where it ends. *)
Pop(h, key) ==
  LET n == Len(h) - 1
      emptied == Emptied(h, n, key)
      risen == [m \in 1 .. n |-> h[IF emptied[m] /\ 2 * m <= n THEN Riser(h, n, m, key) ELSE m]]
      hole == CHOOSE m \in 1 .. n : emptied[m] /\ 2 * m > n
  IN  IF n = 0 THEN << >> ELSE Sift(risen, hole, h[n + 1], key)
===============================================================================
