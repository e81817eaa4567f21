----------------------------- MODULE PortQueues -----------------------------
(***************************************************************************)
(* The Ethernet ports as the script engine and the port table both see     *)
(* them: an ordered collection of open ports, each with a bounded queue of *)
(* packets.  Only the main thread opens, reads and closes ports; packets   *)
(* come in at any time, at ports that are open.  TestScript takes the      *)
(* ports to be this, and EthPortIO, with its slots, sockets and threads,   *)
(* implements it: what is checked of the engine over these queues holds of *)
(* the engine over EthPortIO.                                              *)
(***************************************************************************)
EXTENDS Naturals, Sequences

CONSTANTS Names, Messages, Capacity

VARIABLES
  open,   \* names of the open ports, in the order in which they were opened
  queue   \* the packets waiting at each port, oldest first

pqVars == <<open, queue>>

IsOpen(p) == \E i \in DOMAIN open : open[i] = p

Init ==
  /\ open = <<>>
  /\ queue = [p \in Names |-> <<>>]

\* A new port goes to the end, with nothing waiting at it.
Open(p) ==
  /\ ~IsOpen(p)
  /\ queue[p] = <<>>
  /\ open' = Append(open, p)
  /\ UNCHANGED queue

\* A packet that finds no room is lost, which is no step here.
Deliver(p, m) ==
  /\ IsOpen(p)
  /\ Len(queue[p]) < Capacity
  /\ queue' = [queue EXCEPT ![p] = Append(@, m)]
  /\ UNCHANGED open

Take(p) ==
  /\ IsOpen(p)
  /\ queue[p] # <<>>
  /\ queue' = [queue EXCEPT ![p] = Tail(@)]
  /\ UNCHANGED open

\* The n oldest ports are closed, and lose what is waiting at them.
Close(n) ==
  /\ open' = SubSeq(open, n + 1, Len(open))
  /\ queue' = [p \in Names |-> IF \E i \in 1 .. n : open[i] = p THEN <<>> ELSE queue[p]]

Next ==
  \/ \E p \in Names : Open(p) \/ Take(p) \/ (\E m \in Messages : Deliver(p, m))
  \/ \E n \in 1 .. Len(open) : Close(n)

Spec == Init /\ [][Next]_pqVars
=============================================================================
