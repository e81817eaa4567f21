------------------------------ MODULE MCPacket ------------------------------
(* Instances of Packet for TLC.                                            *)
EXTENDS Packet

MCRanges == {<<0, 3>>, <<0, 5>>, <<2, 6>>}
MCFrames == {<<1, 3>>, <<3, 1, 2>>, <<1, 2, 3, 1>>}
MCEvenRanges == {<<0, 3>>}

\* Three statements of up to four bytes, or a single one that sends a longer packet.
\* It has room for two checksums, each in the range of the other, and for three
\* words whose sum carries twice.
Long  == \E i \in 4 .. MaxPktSize - 1 : pkt[i] # 0
Sizes == IF statements = 1 THEN operation = "send" \/ Len(specified) <= 4
         ELSE ~Long /\ Len(specified) <= 4
=============================================================================
