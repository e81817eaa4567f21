----------------------------- MODULE LossyFifo -----------------------------
(***************************************************************************)
(* What the path from a network interface to the test script promises,     *)
(* whatever sockets, threads and message queues it is made of: a packet    *)
(* may be lost on the way, but it is never duplicated, invented or handed  *)
(* over out of order.  EthPortIO implements one such path per table slot.  *)
(***************************************************************************)
EXTENDS Naturals, Sequences

CONSTANT Paths

VARIABLES
  captured,  \* number of the last packet seen on the network
  queue,     \* per path: numbers of the packets under way, oldest first
  received   \* per path: numbers of the packets handed to the script

fifoVars == <<captured, queue, received>>

Init ==
  /\ captured = 0
  /\ queue = [p \in Paths |-> <<>>]
  /\ received = [p \in Paths |-> <<>>]

\* A packet enters the paths in S; with S = {} nobody sees it.
Capture(S) ==
  /\ captured' = captured + 1
  /\ queue' = [p \in Paths |-> IF p \in S THEN Append(queue[p], captured') ELSE queue[p]]
  /\ UNCHANGED received

\* Some packets of a path are lost; the n that are kept keep their order.
Lose(p) ==
  /\ \E n \in 0 .. Len(queue[p]) : \E kept \in [1 .. n -> DOMAIN queue[p]] :
       /\ \A j, k \in 1 .. n : j < k => kept[j] < kept[k]
       /\ queue' = [queue EXCEPT ![p] = [k \in 1 .. n |-> queue[p][kept[k]]]]
  /\ UNCHANGED <<captured, received>>

HandOver(p) ==
  /\ queue[p] # <<>>
  /\ received' = [received EXCEPT ![p] = Append(@, Head(queue[p]))]
  /\ queue' = [queue EXCEPT ![p] = Tail(@)]
  /\ UNCHANGED captured

Next ==
  \/ \E S \in SUBSET Paths : Capture(S)
  \/ \E p \in Paths : Lose(p) \/ HandOver(p)

Spec == Init /\ [][Next]_fifoVars
=============================================================================
