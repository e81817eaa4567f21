------------------------------- MODULE Packet -------------------------------
(***************************************************************************)
(* packet.c: a send or receive statement is read token by token into the   *)
(* specified packet and its mask; a send fills the static send buffer from *)
(* it, from the last received packet and from check_sum; a receive         *)
(* compares it with what arrives.  The buffers keep their bytes from one   *)
(* statement to the next, which is where the bytes of old packets can get  *)
(* into new ones.                                                          *)
(*                                                                         *)
(* Statements and traffic are arbitrary: every token that could follow is  *)
(* offered.  SpecifiedPkt and SpecifiedPktMask are only read up to         *)
(* BytesInSpecifiedPkt, so they are one sequence, specified, here.  The    *)
(* tests that refuse a packet of more than MAX_PKT_SIZE bytes are left     *)
(* out: a statement has room for half as many tokens.                      *)
(***************************************************************************)
EXTENDS Integers, Sequences, FiniteSetsExt, SequencesExt

CONSTANTS
  ByteRange,      \* values of a byte (256)
  MaxPktSize,     \* MAX_PKT_SIZE
  MinFrame,       \* shortest packet EthPortSend sends (14)
  PadTo,          \* size to which the network pads a packet (60)
  MaxCsSize,      \* MAX_CS_SIZE
  HexValues,      \* numbers written as a hex byte
  CopyPositions,  \* numbers written after '?'
  Ranges,         \* <<n1, n2>> written after '&'
  Frames,         \* packets that can be received
  MaxBytes,       \* bound: bytes specified in one statement
  MaxStatements   \* bound: statements in one run

ASSUME PacketAssumption ==
  /\ {ByteRange, MaxPktSize, MinFrame, PadTo, MaxCsSize, MaxBytes, MaxStatements}
       \subseteq Nat
  /\ ByteRange > 1
  /\ MaxBytes < MaxPktSize
  /\ HexValues \subseteq Nat /\ CopyPositions \subseteq Nat
  /\ Ranges \subseteq Nat \X Nat
  /\ \A f \in Frames : f \in Seq(0 .. ByteRange - 1) /\ Len(f) \in 1 .. MaxPktSize

VARIABLES
  pc,         \* "idle", in the token loop, in packetSend or packetReceive, or past
              \* the end of an array ("overrun") or of the NULL pointer ("crashed")
  operation,  \* Operation
  specified,  \* SpecifiedPkt and SpecifiedPktMask
  csArr,      \* cs_arr
  recvPkt,    \* RecvPkt
  recvLen,    \* BytesInRecvPkt
  pkt,        \* static pkt of packetSend
  outcome,    \* how the statement ended; "none" while it is processed
  statements, \* statements begun so far (bounded)
  \* History variables; no action reads them.
  tokens,     \* the tokens of the statement
  lastFrame   \* the packet last received; <<>> after a timeout, as at the start

vars == <<pc, operation, specified, csArr, recvPkt, recvLen, pkt, outcome, statements,
          tokens, lastFrame>>

Bytes     == 0 .. ByteRange - 1
WordRange == ByteRange * ByteRange
Positions == 0 .. MaxPktSize - 1

MASK_EXACT == -1
MASK_SKIP  == -2
MASK_CS    == -3

Init ==
  /\ pc = "idle"
  /\ operation = "unknown"
  /\ specified = <<>>
  /\ csArr = <<>>
  /\ recvPkt = [i \in Positions |-> 0]
  /\ recvLen = 0
  /\ pkt = [i \in Positions |-> 0]
  /\ outcome = "none"
  /\ statements = 0
  /\ tokens = <<>>
  /\ lastFrame = <<>>

-----------------------------------------------------------------------------
(* packetRead: operation, port and the token loop.                         *)

\* The loop begins once the port is open.
StartStatement(op) ==
  /\ pc = "idle"
  /\ statements < MaxStatements
  /\ statements' = statements + 1
  /\ operation' = op
  /\ outcome' = "none"
  /\ pc' = "tokens"
  /\ UNCHANGED <<specified, csArr, recvPkt, recvLen, pkt, tokens, lastFrame>>

\* The statement ends with the given outcome.  What it specified is not read
\* again: BytesInSpecifiedPkt and cs_array_siz are set to 0 before the next loop.
Done(how) ==
  /\ pc' = "idle"
  /\ outcome' = how
  /\ specified' = <<>>
  /\ csArr' = <<>>
  /\ tokens' = <<>>

AtToken == pc = "tokens" /\ Len(specified) < MaxBytes

\* A token is taken as the given bytes.
Specify(token, entries) ==
  /\ specified' = specified \o entries
  /\ tokens' = Append(tokens, token)
  /\ UNCHANGED <<pc, operation, recvPkt, recvLen, pkt, outcome, statements, lastFrame>>

Exact(byte) == [mask |-> MASK_EXACT, byte |-> byte]
Masked(m)   == [mask |-> m, byte |-> 0]

\* Mutant of ReadHex: the number is stored as it is.
ReadHexUncut(v) ==
  /\ AtToken
  /\ Specify([kind |-> "hex", value |-> v], <<Exact(v)>>)
  /\ UNCHANGED csArr

\* A hex number is cut down to a byte.
ReadHex(v) ==
  /\ AtToken
  /\ Specify([kind |-> "hex", value |-> v], <<Exact(v % ByteRange)>>)
  /\ UNCHANGED csArr

ReadWildcard ==
  /\ AtToken
  /\ operation = "receive"
  /\ Specify([kind |-> "*"], <<Masked(MASK_SKIP)>>)
  /\ UNCHANGED csArr

\* So is the position after '?'; a '?' alone is read as position 0.
ReadCopy(n) ==
  /\ AtToken
  /\ operation = "send"
  /\ Specify([kind |-> "?", value |-> n], <<Masked(n % ByteRange)>>)
  /\ UNCHANGED csArr

\* Mutant of ReadChecksum: the second byte of the field is forgotten.
ReadChecksumOneByte(r) ==
  /\ AtToken
  /\ operation = "send"
  /\ Len(csArr) < MaxCsSize
  /\ csArr' = Append(csArr, [pos |-> Len(specified), start |-> r[1], end |-> r[2]])
  /\ Specify([kind |-> "&", value |-> r], <<Masked(MASK_CS)>>)

\* Two bytes of a send packet; a bound that is not a number is reported and
\* read as 0.
ReadChecksum(r) ==
  /\ AtToken
  /\ operation = "send"
  /\ Len(csArr) < MaxCsSize
  /\ csArr' = Append(csArr, [pos |-> Len(specified), start |-> r[1], end |-> r[2]])
  /\ Specify([kind |-> "&", value |-> r], <<Masked(MASK_CS), Masked(MASK_CS)>>)

\* In a receive statement '&' falls through to '*': one byte is skipped.
ReadChecksumAsWildcard(r) ==
  /\ AtToken
  /\ operation = "receive"
  /\ Specify([kind |-> "&", value |-> r], <<Masked(MASK_SKIP)>>)
  /\ UNCHANGED csArr

\* Nothing compares cs_array_siz with MAX_CS_SIZE.
ChecksumTableOverrun ==
  /\ AtToken
  /\ operation = "send"
  /\ Len(csArr) >= MaxCsSize
  /\ pc' = "overrun"
  /\ UNCHANGED <<operation, specified, csArr, recvPkt, recvLen, pkt, outcome, statements, tokens,
                 lastFrame>>

\* '&' without '-' in a send statement is reported, and n2 is NULL.
ChecksumWithoutRange ==
  /\ AtToken
  /\ operation = "send"
  /\ pc' = "crashed"
  /\ UNCHANGED <<operation, specified, csArr, recvPkt, recvLen, pkt, outcome, statements, tokens,
                 lastFrame>>

\* A port that cannot be opened, a token that is no number, '*' in a send or '?'
\* in a receive statement, or a packet without bytes.
Refuse ==
  /\ pc = "tokens"
  /\ Done("error")
  /\ UNCHANGED <<operation, recvPkt, recvLen, pkt, statements, lastFrame>>

\* strtok returns NULL.
EndOfStatement ==
  /\ pc = "tokens"
  /\ specified # <<>>
  /\ pc' = operation
  /\ UNCHANGED <<operation, specified, csArr, recvPkt, recvLen, pkt, outcome, statements, tokens,
                 lastFrame>>

-----------------------------------------------------------------------------
(* check_sum.                                                              *)

\* The carries are folded in until the sum fits a word.
FoldCarries[sum \in Nat] ==
  IF sum < WordRange THEN sum ELSE FoldCarries[(sum % WordRange) + (sum \div WordRange)]

\* The loop adds words from start on while their first byte is at most size
\* bytes further; of an odd number of bytes the last is so added together with
\* the byte behind the range, and the "padding" then adds the byte after that.
WordSum(buf, start, size) ==
  LET words == MapThenSumSet(LAMBDA i : buf[start + i] * ByteRange + buf[start + i + 1],
                             {i \in 0 .. size : i % 2 = 0})
  IN IF size % 2 = 0 THEN words + buf[start + size + 2] * ByteRange ELSE words

\* Mutant of check_sum: the carry of the carries is cut off.
CheckSumFoldsOnce(buf, start, end) ==
  IF start > end THEN 0
  ELSE LET sum == WordSum(buf, start, end - start)
       IN WordRange - 1 - (((sum % WordRange) + (sum \div WordRange)) % WordRange)

\* A range that ends before it starts is reported and summed up as EDPAT_FAILED.
check_sum(buf, start, end) ==
  IF start > end THEN 0
  ELSE WordRange - 1 - FoldCarries[WordSum(buf, start, end - start)]

\* The last byte check_sum reads.
LastRead(cs) == IF (cs.end - cs.start) % 2 = 0 THEN cs.end + 2 ELSE cs.end

RangesInPkt == \A i \in DOMAIN csArr :
  csArr[i].start <= csArr[i].end => LastRead(csArr[i]) \in Positions

-----------------------------------------------------------------------------
(* packetSend and EthPortSend.                                             *)

\* Mutant of CopyAllowed: one position too far.
CopyAllowedLate(entry) == recvLen >= entry.mask

\* The position is within the bytes received.
CopyAllowed(entry) == recvLen > entry.mask

\* Entries the loop gets past: of the first other one it returns EDPAT_FAILED.
Refused == {i \in DOMAIN specified : specified[i].mask >= 0 /\ ~CopyAllowed(specified[i])}
Filled  == IF Refused = {} THEN Len(specified) ELSE Min(Refused) - 1

\* The send buffer after the loop; bytes of a checksum are left as they were.
FilledPkt ==
  [i \in Positions |->
     IF i >= Filled THEN pkt[i]
     ELSE LET entry == specified[i + 1]
          IN CASE entry.mask = MASK_EXACT -> entry.byte
               [] entry.mask = MASK_CS    -> pkt[i]
               [] OTHER                   -> recvPkt[entry.mask]]

\* Mutant of FillChecksum: all sums are of the packet without any checksum.
FillChecksumEarly(buf, cs) ==
  LET sum == check_sum(FilledPkt, cs.start, cs.end)
  IN [buf EXCEPT ![cs.pos] = sum \div ByteRange, ![cs.pos + 1] = sum % ByteRange]

FillChecksum(buf, cs) ==
  LET sum == check_sum(buf, cs.start, cs.end)
  IN [buf EXCEPT ![cs.pos] = sum \div ByteRange, ![cs.pos + 1] = sum % ByteRange]

\* A '?' position beyond the received bytes: the bytes before it stay in pkt.
CopyRefused ==
  /\ pc = "send"
  /\ Refused # {}
  /\ pkt' = FilledPkt
  /\ Done("error")
  /\ UNCHANGED <<operation, recvPkt, recvLen, statements, lastFrame>>

\* Nothing compares the range of a checksum with the size of the packet.
ChecksumOverrun ==
  /\ pc = "send"
  /\ Refused = {}
  /\ ~RangesInPkt
  /\ pc' = "overrun"
  /\ UNCHANGED <<operation, specified, csArr, recvPkt, recvLen, pkt, outcome, statements, tokens,
                 lastFrame>>

\* The checksums are filled in, in the order in which they were specified, and
\* EthPortSend refuses a short packet; sendto may fail.
Send ==
  /\ pc = "send"
  /\ Refused = {}
  /\ RangesInPkt
  /\ pkt' = FoldLeft(FillChecksum, FilledPkt, csArr)
  /\ IF Len(specified) < MinFrame THEN Done("error")
     ELSE \E how \in {"sent", "error"} : Done(how)
  /\ UNCHANGED <<operation, recvPkt, recvLen, statements, lastFrame>>

-----------------------------------------------------------------------------
(* packetReceive.                                                          *)

\* The receive buffer with a frame written to its beginning.
Received(frame) == [i \in Positions |-> IF i < Len(frame) THEN frame[i + 1] ELSE recvPkt[i]]

Shorter(m, n) == IF m < n THEN m ELSE n

\* The first bytes of the frame are those specified.
SameBytes(frame) ==
  \A i \in 1 .. Shorter(Len(specified), Len(frame)) :
    specified[i].mask = MASK_EXACT => frame[i] = specified[i].byte

\* Mutant of LengthFits: the number of bytes is not looked at.
LengthFitsAlways(frame) == TRUE

\* A packet of at most PadTo bytes may be padded, or shorter than specified.
LengthFits(frame) == Len(frame) <= PadTo \/ Len(frame) = Len(specified)

\* A difference leaves the length received, a match what was compared of it.
ReceiveFrame(frame) ==
  /\ pc = "receive"
  /\ recvPkt' = Received(frame)
  /\ lastFrame' = frame
  /\ IF SameBytes(frame) /\ LengthFits(frame)
     THEN Done("matched") /\ recvLen' = Shorter(Len(specified), Len(frame))
     ELSE Done("failed") /\ recvLen' = Len(frame)
  /\ UNCHANGED <<operation, pkt, statements>>

\* Timeout or error: BytesInRecvPkt keeps the size of the buffer.
ReceiveNothing ==
  /\ pc = "receive"
  /\ recvLen' = MaxPktSize
  /\ lastFrame' = <<>>
  /\ \E how \in {"failed", "error"} : Done(how)
  /\ UNCHANGED <<operation, recvPkt, pkt, statements>>

ReadToken ==
  \/ \E v \in HexValues : ReadHex(v)
  \/ \E n \in CopyPositions : ReadCopy(n)
  \/ \E r \in Ranges : ReadChecksum(r) \/ ReadChecksumAsWildcard(r)
  \/ ReadWildcard \/ ChecksumTableOverrun \/ ChecksumWithoutRange

Next ==
  \/ \E op \in {"send", "receive"} : StartStatement(op)
  \/ ReadToken \/ Refuse \/ EndOfStatement
  \/ CopyRefused \/ ChecksumOverrun \/ Send
  \/ (\E frame \in Frames : ReceiveFrame(frame)) \/ ReceiveNothing

Spec == Init /\ [][Next]_vars
-----------------------------------------------------------------------------
TypeOK ==
  /\ pc \in {"idle", "tokens", "send", "receive", "overrun", "crashed"}
  /\ operation \in {"unknown", "send", "receive"}
  /\ specified \in Seq([mask : MASK_CS .. ByteRange - 1, byte : Bytes])
  /\ csArr \in Seq([pos : Positions, start : Nat, end : Nat]) /\ Len(csArr) <= MaxCsSize
  /\ recvPkt \in [Positions -> Bytes] /\ pkt \in [Positions -> Bytes]
  /\ recvLen \in 0 .. MaxPktSize
  /\ statements \in 0 .. MaxStatements
  /\ outcome \in {"none", "sent", "matched", "failed", "error"}
  /\ lastFrame \in Seq(Bytes)

Sending   == pc = "send" /\ pc' = "idle" /\ outcome' = "sent"
Receiving == pc = "receive" /\ pc' = "idle" /\ lastFrame' # <<>>

IsField(k) == operation = "send" /\ tokens[k].kind = "&"

\* The position in the packet of the k-th token: a checksum takes two bytes.
Offset(k) == k - 1 + Cardinality({j \in 1 .. k - 1 : IsField(j)})
WrittenLen == Offset(Len(tokens) + 1)

\* README.md:47 "specified byte by byte in hexadecimal": what is sent has the
\* bytes of the statement at their places, whatever '?' and '&' stand between
\* them and whatever earlier statements left in the buffers.
SentAsWritten ==
  [][Sending => /\ Len(specified) = WrittenLen
                /\ \A k \in DOMAIN tokens :
                     tokens[k].kind = "hex" => pkt'[Offset(k)] = tokens[k].value % ByteRange]_vars

\* README.md:49 "copy a specified byte from the packet just previously
\* received": a copied byte lies within that packet and is its byte at this
\* position (below 256), never one that an older, longer packet left in RecvPkt,
\* unless a receive has timed out since, and BytesInRecvPkt is the buffer size.
CopiesAreReceived ==
  [][Sending =>
       \A k \in DOMAIN tokens : tokens[k].kind = "?" =>
         LET n == tokens[k].value % ByteRange
         IN \/ lastFrame = <<>> /\ recvLen = MaxPktSize
            \/ n < Len(lastFrame) /\ pkt'[Offset(k)] = lastFrame[n + 1]]_vars

\* The Internet checksum (RFC 1071) of bytes start .. end: the last byte of an
\* odd number is padded with zero; a one's complement sum is the remainder
\* modulo WordRange - 1, with WordRange - 1 itself for 0 unless all is zero.
InternetChecksum(buf, start, end) ==
  LET ByteAt(i) == IF i <= end THEN buf[i] ELSE 0
      sum == MapThenSumSet(LAMBDA i : ByteAt(start + i) * ByteRange + ByteAt(start + i + 1),
                           {i \in 0 .. end - start : i % 2 = 0})
  IN WordRange - 1 - (IF sum = 0 THEN 0 ELSE ((sum - 1) % (WordRange - 1)) + 1)

FieldPositions == UNION {{csArr[i].pos, csArr[i].pos + 1} : i \in DOMAIN csArr}

FillMeant(buf, cs) ==
  LET sum == InternetChecksum(buf, cs.start, cs.end)
  IN [buf EXCEPT ![cs.pos] = sum \div ByteRange, ![cs.pos + 1] = sum % ByteRange]

\* The packet the statement stands for: fields not filled in yet count as zero.
PacketMeant ==
  LET blank == [i \in Positions |-> IF i \in FieldPositions THEN 0 ELSE FilledPkt[i]]
  IN FoldLeft(FillMeant, blank, csArr)

\* Ranges of an even number of bytes, all of them in the packet.
EvenRanges ==
  \A i \in DOMAIN csArr : /\ csArr[i].start < csArr[i].end
                          /\ csArr[i].end < Len(specified)
                          /\ (csArr[i].end - csArr[i].start) % 2 = 1

\* Checksums over an even number of bytes are the Internet checksum, also when
\* carries carry again and when one field covers another, as long as the field
\* bytes of the static buffer are still zero.
ChecksumsRight ==
  [][Sending /\ EvenRanges /\ (\A i \in FieldPositions : pkt[i] = 0)
       => \A i \in 0 .. Len(specified) - 1 : pkt'[i] = PacketMeant[i]]_vars

\* No byte received differs from the one written at its place.
AgreesAsFarAsItGoes(frame) ==
  \A k \in DOMAIN tokens :
    k <= Len(frame) /\ tokens[k].kind = "hex" => frame[k] = tokens[k].value % ByteRange

\* What the network makes of the bytes written: as they are, or padded.
IsWrittenPacket(frame) ==
  /\ Len(frame) = WrittenLen \/ (Len(frame) = PadTo /\ WrittenLen < PadTo)
  /\ \A k \in DOMAIN tokens :
       tokens[k].kind = "hex" => frame[k] = tokens[k].value % ByteRange

\* A receive statement accepts the packet it spells out, padded or not, no packet
\* with another byte, and no other packet of more than PadTo bytes.  Up to PadTo
\* bytes it accepts packets that are shorter or longer than written.
MatchesWrittenPackets ==
  [][Receiving => /\ IsWrittenPacket(lastFrame') => outcome' = "matched"
                  /\ outcome' = "matched" => AgreesAsFarAsItGoes(lastFrame')
                  /\ outcome' = "matched" /\ Len(lastFrame') > PadTo
                       => IsWrittenPacket(lastFrame')]_vars

-----------------------------------------------------------------------------
(* What the documentation says, and the code does not do.                  *)

\* README.md:50 "that word is to be filled with the checksum calculated for the
\* bytes from position n1 to n2 of the packet": of the packet sent, not of what
\* an earlier packet had where the checksum goes.
ChecksumsAsDocumented ==
  [][Sending /\ EvenRanges
       => \A i \in 0 .. Len(specified) - 1 : pkt'[i] = PacketMeant[i]]_vars
=============================================================================
