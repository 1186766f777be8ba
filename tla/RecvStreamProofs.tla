-------------------------- MODULE RecvStreamProofs --------------------------
(* Proofs about the receive path, for every size of the ring, of the header  *)
(* and of the payloads: the kernel never writes over bytes that are still to *)
(* be read, and OnRecvPacket sees the client's packets once and in order.    *)
EXTENDS RecvStream, SequenceTheorems, TLAPS

-----------------------------------------------------------------------------
(* Arithmetic modulo r.  The ring wraps at RingSize and rioRecvOffset at     *)
(* OffsetMod.                                                                *)

LEMMA ModSmall == ASSUME NEW r \in Nat \ {0}, NEW x \in 0 .. r - 1 PROVE x % r = x
  OBVIOUS

LEMMA ModRange == ASSUME NEW r \in Nat \ {0}, NEW x \in Int PROVE x % r \in 0 .. r - 1
  OBVIOUS

LEMMA ModUnique ==
    ASSUME NEW r \in Nat \ {0}, NEW q \in Int, NEW m \in 0 .. r - 1
    PROVE (q * r + m) % r = m
  OBVIOUS

LEMMA ModDiv ==
    ASSUME NEW r \in Nat \ {0}, NEW x \in Int
    PROVE \E q \in Int : x = q * r + (x % r)
<1>1. x \div r \in Int
  OBVIOUS
<1>2. x = (x \div r) * r + (x % r)
  OBVIOUS
<1> QED
  BY <1>1, <1>2

(* Whole turns do not count.                                                 *)
LEMMA ModShift ==
    ASSUME NEW r \in Nat \ {0}, NEW x \in Int, NEW q \in Int
    PROVE (q * r + x) % r = x % r
<1>1. PICK p \in Int : x = p * r + (x % r)
  BY ModDiv
<1> DEFINE m == x % r
<1>2. m \in 0 .. r - 1 /\ x = p * r + m
  BY <1>1, ModRange
<1> HIDE DEF m
<1>3. q * r + x = (q + p) * r + m
  BY <1>2
<1>4. ((q + p) * r + m) % r = m
  BY <1>2, ModUnique
<1> QED
  BY <1>3, <1>4 DEF m

LEMMA ModAdd ==
    ASSUME NEW r \in Nat \ {0}, NEW x \in Int, NEW y \in Int
    PROVE ((x % r) + y) % r = (x + y) % r
<1>1. PICK q \in Int : x = q * r + (x % r)
  BY ModDiv
<1> DEFINE m == x % r
<1>2. m \in Int /\ x = q * r + m
  BY <1>1, ModRange
<1> HIDE DEF m
<1>3. x + y = q * r + (m + y) /\ m + y \in Int
  BY <1>2
<1>4. (q * r + (m + y)) % r = (m + y) % r
  BY <1>3, ModShift
<1> QED
  BY <1>3, <1>4 DEF m

(* What is left of x in a range that r divides is the same modulo r.         *)
LEMMA ModMod ==
    ASSUME NEW r \in Nat \ {0}, NEW b \in Nat \ {0}, b % r = 0, NEW x \in Int
    PROVE (x % b) % r = x % r
<1>1. PICK q \in Int : x = q * b + (x % b)
  BY ModDiv
<1>2. PICK p \in Int : b = p * r + (b % r)
  <2>1. b \in Int
    OBVIOUS
  <2> QED
    BY <2>1, ModDiv
<1> DEFINE m == x % b
<1>3. m \in Int /\ x = q * b + m /\ b = p * r
  BY <1>1, <1>2, ModRange
<1> HIDE DEF m
<1>4. x = (q * p) * r + m /\ q * p \in Int
  BY <1>3
<1>5. ((q * p) * r + m) % r = m % r
  BY <1>3, <1>4, ModShift
<1> QED
  BY <1>4, <1>5 DEF m

-----------------------------------------------------------------------------
(* The ring without arithmetic modulo RingSize.                              *)

Used == IF readPos <= writePos THEN writePos - readPos ELSE writePos - readPos + RingSize

Cell(j) == IF readPos + j < RingSize THEN readPos + j ELSE readPos + j - RingSize

(* One turn around the ring at most.                                         *)
LEMMA Wrap ==
    ASSUME NEW x \in 0 .. 2 * RingSize - 1
    PROVE x % RingSize = IF x < RingSize THEN x ELSE x - RingSize
<1>1. RingSize \in Nat \ {0}
  BY RingAssumption
<1>2. CASE x < RingSize
  BY <1>1, <1>2, ModSmall
<1>3. CASE x >= RingSize
  <2>1. x - RingSize \in 0 .. RingSize - 1 /\ x = 1 * RingSize + (x - RingSize)
    BY <1>1, <1>3
  <2> QED
    BY <1>1, <1>3, <2>1, ModUnique
<1> QED
  BY <1>1, <1>2, <1>3

LEMMA DistanceIs ==
    ASSUME NEW f \in 0 .. RingSize - 1, NEW t \in 0 .. RingSize - 1
    PROVE /\ Distance(f, t) = IF f <= t THEN t - f ELSE t - f + RingSize
          /\ Distance(f, t) \in 0 .. RingSize - 1
<1>1. RingSize \in Nat \ {0}
  BY RingAssumption
<1>2. CASE f <= t
  <2>1. t - f \in 0 .. RingSize - 1
    BY <1>1, <1>2
  <2> QED
    BY <1>1, <1>2, <2>1, ModSmall DEF Distance
<1>3. CASE ~(f <= t)
  <2> DEFINE m == t - f + RingSize
  <2>1. m \in 0 .. RingSize - 1 /\ t - f = (-1) * RingSize + m
    BY <1>1, <1>3
  <2>2. ((-1) * RingSize + m) % RingSize = m
    BY <1>1, <2>1, ModUnique
  <2> QED
    BY <1>3, <2>1, <2>2 DEF Distance
<1> QED
  BY <1>2, <1>3

LEMMA UseSizeIsUsed ==
    ASSUME readPos \in 0 .. RingSize - 1, writePos \in 0 .. RingSize - 1
    PROVE UseSize = Used /\ Used \in 0 .. RingSize - 1
  BY DistanceIs DEF UseSize, Used

LEMMA CellIsModulo ==
    ASSUME readPos \in 0 .. RingSize - 1, NEW j \in 0 .. RingSize - 1
    PROVE (readPos + j) % RingSize = Cell(j) /\ Cell(j) \in 0 .. RingSize - 1
<1>1. RingSize \in Nat \ {0}
  BY RingAssumption
<1>2. readPos + j \in 0 .. 2 * RingSize - 1
  BY <1>1
<1> QED
  BY <1>1, <1>2, Wrap DEF Cell

(* What RecvPost asks for ends before the end of the buffer and leaves one   *)
(* cell of the ring free.                                                    *)
LEMMA RoomForReceive ==
    ASSUME readPos \in 0 .. RingSize - 1, writePos \in 0 .. RingSize - 1
    PROVE /\ RecvLength \in Int
          /\ RecvLength <= RingSize
          /\ writePos + RecvLength <= RingSize
          /\ Used + RecvLength < RingSize
  BY RingAssumption DEF RecvLength, GetNotBrokenPutSize, GetNotBrokenGetSize, Used

-----------------------------------------------------------------------------
(* rioRecvOffset, which RIO is told, and the ring's own write position are   *)
(* counted beside each other.                                                *)
OffsetInv ==
    /\ pc \in {"idle", "completed"} => writePos = rioRecvOffset % RingSize
    /\ pc \in {"parse", "post"} => writePos = (rioRecvOffset + transferred) % RingSize

(* The posted receive is the one RecvPost computes for the ring as it is;    *)
(* restSize counts what is left to parse.                                    *)
RequestInv ==
    /\ pc = "idle" => request.offset = writePos /\ request.length = RecvLength
    /\ pc = "completed" => transferred <= RecvLength
    /\ pc = "parse" => restSize = Used
    /\ pc \in {"idle", "completed", "parse"} => ~packetError

LEMMA InitType == Init => TypeOK
<1> SUFFICES ASSUME Init PROVE TypeOK
  OBVIOUS
<1>1. Empty \in Nat \X Nat
  BY DEF Empty
<1>2. request \in [offset : 0 .. RingSize - 1, length : -1 .. RingSize]
  BY RingAssumption DEF Init, NoRequest
<1>3. sent \in Seq(Packets) /\ network \in Seq(Nat \X Nat) /\ received \in Seq(Nat)
  BY DEF Init
<1>4. ring \in [0 .. RingSize - 1 -> Nat \X Nat]
  BY <1>1 DEF Init
<1>5. /\ readPos \in 0 .. RingSize - 1 /\ writePos \in 0 .. RingSize - 1
      /\ rioRecvOffset \in 0 .. OffsetMod - 1 /\ transferred \in 0 .. RingSize
      /\ restSize \in Int
  BY RingAssumption DEF Init
<1> QED
  BY <1>2, <1>3, <1>4, <1>5, Zenon DEF Init, TypeOK

LEMMA SizeType ==
    ASSUME NEW p \in Packets
    PROVE p.payload \in Nat /\ HeaderSize + p.payload \in Nat \ {0}
<1>1. p.payload \in Payloads
  BY DEF Packets
<1>2. p.payload \in Nat
  BY <1>1, RingAssumption, Zenon
<1>3. HeaderSize \in Nat \ {0}
  BY RingAssumption
<1> QED
  BY <1>2, <1>3

LEMMA PacketBytesType ==
    ASSUME NEW k \in Nat, NEW p \in Packets
    PROVE /\ PacketBytes(k, p) \in Seq(Nat \X Nat)
          /\ Len(PacketBytes(k, p)) = HeaderSize + p.payload
          /\ \A i \in 1 .. HeaderSize + p.payload : PacketBytes(k, p)[i] = <<k, i>>
<1>1. HeaderSize + p.payload \in Nat
  BY SizeType
<1>2. PacketBytes(k, p) \in [1 .. HeaderSize + p.payload -> Nat \X Nat]
  BY <1>1 DEF PacketBytes
<1>3. PacketBytes(k, p) \in Seq(Nat \X Nat)
  BY <1>1, <1>2
<1>4. DOMAIN PacketBytes(k, p) = 1 .. HeaderSize + p.payload
  BY DEF PacketBytes
<1>5. Len(PacketBytes(k, p)) = HeaderSize + p.payload
  BY <1>1, <1>3, <1>4
<1> QED
  BY <1>3, <1>5 DEF PacketBytes

LEMMA TypeStep == ASSUME TypeOK, [Next]_vars PROVE TypeOK'
<1> USE RingAssumption
<1>0. Len(sent) \in Nat /\ Len(network) \in Nat
  BY LenProperties DEF TypeOK
<1>1. ASSUME NEW p \in Packets, ClientSends(p) PROVE TypeOK'
  <2>1. PacketBytes(Len(sent) + 1, p) \in Seq(Nat \X Nat)
    BY <1>0, PacketBytesType
  <2>2. sent' \in Seq(Packets)
    BY <1>1, AppendProperties DEF ClientSends, TypeOK
  <2>3. network' \in Seq(Nat \X Nat)
    BY <1>1, <2>1, ConcatProperties DEF ClientSends, TypeOK
  <2> QED
    BY <1>1, <2>2, <2>3 DEF ClientSends, TypeOK, ringVars
<1>2. ASSUME NEW n \in 1 .. RingSize, Receive(n) PROVE TypeOK'
  <2>1. SubSeq(network, n + 1, Len(network)) \in Seq(Nat \X Nat)
    <3>1. \A i \in n + 1 .. Len(network) : network[i] \in Nat \X Nat
      <4> SUFFICES ASSUME NEW i \in n + 1 .. Len(network) PROVE network[i] \in Nat \X Nat
        OBVIOUS
      <4>1. i \in 1 .. Len(network)
        BY <1>0
      <4> QED
        BY <4>1, ElementOfSeq DEF TypeOK
    <3> QED
      BY <1>0, <3>1, SubSeqProperties DEF TypeOK
  <2>2. ring' \in [0 .. RingSize - 1 -> Nat \X Nat]
    <3>1. \A i \in DOMAIN ring : i \in request.offset .. request.offset + n - 1 =>
              network[i - request.offset + 1] \in Nat \X Nat
      <4> SUFFICES ASSUME NEW i \in request.offset .. request.offset + n - 1
                   PROVE network[i - request.offset + 1] \in Nat \X Nat
        OBVIOUS
      <4>1. request.offset \in Int
        BY DEF TypeOK
      <4>2. i - request.offset + 1 \in 1 .. Len(network)
        BY <1>0, <1>2, <4>1, SMTT(30) DEF Receive
      <4> QED
        BY <4>2, ElementOfSeq DEF TypeOK
    <3> QED
      BY <1>2, <3>1 DEF TypeOK, Receive
  <2>3. request' \in [offset : 0 .. RingSize - 1, length : -1 .. RingSize]
    BY <1>2 DEF Receive, NoRequest
  <2> QED
    <3>1. transferred' \in 0 .. RingSize
      BY <1>2 DEF Receive
    <3> QED
      BY <1>2, <2>1, <2>2, <2>3, <3>1, Zenon DEF TypeOK, Receive
<1>3. CASE ReceiveNothing
  <2>1. request' \in [offset : 0 .. RingSize - 1, length : -1 .. RingSize]
    BY <1>3 DEF ReceiveNothing, NoRequest
  <2> QED
    BY <1>3, <2>1 DEF TypeOK, ReceiveNothing, ringVars
<1>4. CASE RecvCompleted
  <2>1. writePos' \in 0 .. RingSize - 1 /\ restSize' \in Int
    BY <1>4, ModRange DEF TypeOK, RecvCompleted, Distance
  <2> QED
    BY <1>4, <2>1 DEF TypeOK, RecvCompleted
<1>5. ASSUME HasPacket, TakeFromRing
      PROVE readPos' \in 0 .. RingSize - 1 /\ GetPayloadLength \in Int
  <2>1. GetPayloadLength \in Int
    BY <1>5 DEF HasPacket
  <2> QED
    <3>1. readPos + HeaderSize + GetPayloadLength \in Int
      BY <2>1 DEF TypeOK
    <3> QED
      BY <1>5, <2>1, <3>1, ModRange DEF TakeFromRing
<1>6. CASE TakePacket
  <2>1. readPos' \in 0 .. RingSize - 1 /\ restSize' \in Int
    BY <1>5, <1>6 DEF TakePacket, TypeOK
  <2>2. HeaderNumber \in Nat
    <3>1. ring[readPos] \in Nat \X Nat
      BY DEF TypeOK
    <3>2. ring[readPos][1] \in Nat
      BY <3>1
    <3> QED
      BY <3>2 DEF HeaderNumber
  <2>3. received' \in Seq(Nat)
    BY <1>6, <2>2 DEF TakePacket, TypeOK
  <2> QED
    BY <1>6, <2>1, <2>3 DEF TakePacket, TypeOK
<1>7. CASE DecodeFails
  <2>1. readPos' \in 0 .. RingSize - 1
    BY <1>5, <1>7 DEF DecodeFails
  <2> QED
    BY <1>7, <2>1 DEF DecodeFails, TypeOK
<1>8. CASE PacketTooLong
  BY <1>8 DEF PacketTooLong, TypeOK, ringVars
<1>9. CASE NoMorePackets
  BY <1>9 DEF NoMorePackets, TypeOK, ringVars
<1>10. CASE RecvPost
  <2>1. NextOffset \in 0 .. OffsetMod - 1
    <3>1. rioRecvOffset + transferred \in Int
      BY DEF TypeOK
    <3> QED
      BY <3>1, ModRange DEF NextOffset
  <2>2. NextOffset % RingSize \in 0 .. RingSize - 1
    BY <2>1, ModRange
  <2>3. request' \in [offset : 0 .. RingSize - 1, length : -1 .. RingSize]
    BY <1>10, <2>2, RoomForReceive DEF RecvPost, NoRequest, TypeOK
  <2> QED
    <3>1. transferred' \in 0 .. RingSize /\ pc' \in {"idle", "closed"}
      BY <1>10 DEF RecvPost
    <3> QED
      BY <1>10, <2>1, <2>3, <3>1 DEF RecvPost, TypeOK, ringVars
<1>11. CASE UNCHANGED vars
  BY <1>11 DEF vars, ringVars, TypeOK
<1> QED
  BY <1>1, <1>2, <1>3, <1>4, <1>6, <1>7, <1>8, <1>9, <1>10, <1>11
  DEF Next, Worker, Kernel, Finished

-----------------------------------------------------------------------------
LEMMA OffsetStep ==
    ASSUME TypeOK, OffsetInv, [Next]_vars
    PROVE OffsetInv'
<1> USE RingAssumption
<1>1. ASSUME NEW p \in Packets, ClientSends(p) PROVE OffsetInv'
  BY <1>1 DEF ClientSends, OffsetInv, ringVars
<1>2. ASSUME NEW n \in 1 .. RingSize, Receive(n) PROVE OffsetInv'
  BY <1>2 DEF Receive, OffsetInv
<1>3. CASE ReceiveNothing
  BY <1>3 DEF ReceiveNothing, OffsetInv
<1>4. CASE RecvCompleted
  <2>1. writePos' = ((rioRecvOffset % RingSize) + transferred) % RingSize
    BY <1>4 DEF RecvCompleted, OffsetInv
  <2>2. rioRecvOffset \in Int /\ transferred \in Int
    BY DEF TypeOK
  <2>3. writePos' = (rioRecvOffset + transferred) % RingSize
    BY <2>1, <2>2, ModAdd
  <2> QED
    BY <1>4, <2>3 DEF RecvCompleted, OffsetInv
<1>5. CASE TakePacket
  BY <1>5 DEF TakePacket, OffsetInv
<1>6. CASE DecodeFails
  BY <1>6 DEF DecodeFails, HasPacket, OffsetInv
<1>7. CASE PacketTooLong
  BY <1>7 DEF PacketTooLong, OffsetInv, ringVars
<1>8. CASE NoMorePackets
  BY <1>8 DEF NoMorePackets, OffsetInv, ringVars
<1>9. CASE RecvPost
  <2>1. NextOffset % RingSize = (rioRecvOffset + transferred) % RingSize
    <3>1. rioRecvOffset + transferred \in Int
      BY DEF TypeOK
    <3> QED
      BY <3>1, ModMod DEF NextOffset
  <2> QED
    BY <1>9, <2>1 DEF RecvPost, OffsetInv, ringVars
<1>10. CASE UNCHANGED vars
  BY <1>10 DEF vars, ringVars, OffsetInv
<1> QED
  BY <1>1, <1>2, <1>3, <1>4, <1>5, <1>6, <1>7, <1>8, <1>9, <1>10
  DEF Next, Worker, Kernel, Finished

(* Taking n unread bytes from the ring.                                      *)
LEMMA TakeShifts ==
    ASSUME TypeOK, NEW n \in 0 .. Used, writePos' = writePos,
           readPos' = (readPos + n) % RingSize
    PROVE /\ Used' = Used - n
          /\ \A j \in 0 .. RingSize - 1 - n : Cell(j)' = Cell(j + n)
<1>1. Used \in 0 .. RingSize - 1
  BY UseSizeIsUsed DEF TypeOK
<1>2. n \in 0 .. RingSize - 1
  BY <1>1, RingAssumption
<1>3. readPos' = Cell(n)
  BY <1>2, CellIsModulo DEF TypeOK
<1>0. /\ readPos \in 0 .. RingSize - 1 /\ writePos \in 0 .. RingSize - 1
      /\ RingSize \in Nat \ {0} /\ n <= Used
  BY <1>1, RingAssumption DEF TypeOK
<1>4. Used' = Used - n
  <2>1. Used' = IF Cell(n) <= writePos THEN writePos - Cell(n)
                ELSE writePos - Cell(n) + RingSize
    BY <1>3 DEF Used
  <2> QED
    BY <1>0, <1>2, <2>1 DEF Used, Cell
<1>5. ASSUME NEW j \in 0 .. RingSize - 1 - n PROVE Cell(j)' = Cell(j + n)
  <2>1. Cell(j)' = IF Cell(n) + j < RingSize THEN Cell(n) + j ELSE Cell(n) + j - RingSize
    BY <1>3 DEF Cell
  <2> QED
    BY <1>0, <1>2, <2>1 DEF Cell
<1> QED
  BY <1>4, <1>5

(* A packet is taken only when all of it is among the unread bytes.          *)
LEMMA PacketIsUnread ==
    ASSUME TypeOK, RequestInv, HasPacket
    PROVE HeaderSize + GetPayloadLength \in 0 .. Used
<1>1. GetPayloadLength \in 1 .. DefaultSize
  BY DEF HasPacket
<1>2. /\ GetPayloadLength = sent[HeaderNumber].payload
      /\ ~(restSize < sent[HeaderNumber].payload + HeaderSize)
  BY <1>1 DEF GetPayloadLength
<1>3. ~(restSize < GetPayloadLength + HeaderSize)
  BY <1>2
<1>4. restSize = Used
  BY DEF HasPacket, RequestInv
<1>5. Used \in 0 .. RingSize - 1
  BY UseSizeIsUsed DEF TypeOK
<1> QED
  BY <1>1, <1>3, <1>4, <1>5, RingAssumption

LEMMA RequestStep ==
    ASSUME TypeOK, OffsetInv, RequestInv, [Next]_vars
    PROVE RequestInv'
<1>0. /\ readPos \in 0 .. RingSize - 1 /\ writePos \in 0 .. RingSize - 1
      /\ RingSize \in Nat \ {0}
  BY RingAssumption DEF TypeOK
<1>a. ASSUME UNCHANGED <<readPos, writePos>> PROVE RecvLength' = RecvLength /\ Used' = Used
  BY <1>a DEF RecvLength, GetNotBrokenPutSize, GetNotBrokenGetSize, Used
<1>1. ASSUME NEW p \in Packets, ClientSends(p) PROVE RequestInv'
  BY <1>1, <1>a DEF ClientSends, RequestInv, ringVars
<1>2. ASSUME NEW n \in 1 .. RingSize, Receive(n) PROVE RequestInv'
  BY <1>2, <1>a DEF Receive, RequestInv
<1>3. CASE ReceiveNothing
  BY <1>3 DEF ReceiveNothing, RequestInv
<1>4. CASE RecvCompleted
  <2>1. readPos' \in 0 .. RingSize - 1 /\ writePos' \in 0 .. RingSize - 1
    BY <1>4, TypeStep DEF TypeOK
  <2>2. restSize' = Distance(readPos', writePos')
    BY <1>4 DEF RecvCompleted
  <2>3. restSize' = Used'
    BY <2>1, <2>2, DistanceIs DEF Used
  <2> QED
    BY <1>4, <2>3 DEF RecvCompleted, RequestInv
<1>5. CASE TakePacket
  <2> DEFINE n == HeaderSize + GetPayloadLength
  <2>1. n \in 0 .. Used
    BY <1>5, PacketIsUnread DEF TakePacket
  <2>2. Used' = Used - n
    <3>1. readPos' = (readPos + n) % RingSize
      <4>1. GetPayloadLength \in Int /\ HeaderSize \in Int
        BY <1>5, RingAssumption DEF TakePacket, HasPacket
      <4>2. readPos + HeaderSize + GetPayloadLength = readPos + n
        BY <1>0, <4>1
      <4> QED
        BY <1>5, <4>2 DEF TakePacket, TakeFromRing
    <3> HIDE DEF n
    <3> QED
      BY <1>5, <2>1, <3>1, TakeShifts DEF TakePacket
  <2>3. restSize = Used /\ ~packetError /\ pc = "parse"
    BY <1>5 DEF TakePacket, HasPacket, RequestInv
  <2>4. restSize' = restSize - n
    <3>1. GetPayloadLength \in Int /\ HeaderSize \in Int
      BY <1>5, RingAssumption DEF TakePacket, HasPacket
    <3> QED
      BY <1>5, <3>1 DEF TakePacket
  <2> HIDE DEF n
  <2> QED
    BY <1>5, <2>2, <2>3, <2>4 DEF TakePacket, RequestInv
<1>6. CASE DecodeFails
  BY <1>6 DEF DecodeFails, RequestInv
<1>7. CASE PacketTooLong
  BY <1>7 DEF PacketTooLong, RequestInv
<1>8. CASE NoMorePackets
  BY <1>8 DEF NoMorePackets, RequestInv
<1>9. CASE RecvPost
  <2>1. NextOffset % RingSize = writePos
    <3>1. rioRecvOffset + transferred \in Int
      BY DEF TypeOK
    <3>2. NextOffset % RingSize = (rioRecvOffset + transferred) % RingSize
      BY <3>1, ModMod, RingAssumption DEF NextOffset
    <3> QED
      BY <1>9, <3>2 DEF RecvPost, OffsetInv
  <2>2. RecvLength' = RecvLength
    BY <1>9, <1>a DEF RecvPost, ringVars
  <2>3. pc' = "idle" => request' = [offset |-> writePos, length |-> RecvLength] /\ ~packetError
    BY <1>9, <2>1 DEF RecvPost
  <2> QED
    BY <1>9, <2>2, <2>3 DEF RecvPost, ringVars, RequestInv
<1>10. CASE UNCHANGED vars
  BY <1>10, <1>a DEF vars, ringVars, RequestInv
<1> QED
  BY <1>1, <1>2, <1>3, <1>4, <1>5, <1>6, <1>7, <1>8, <1>9, <1>10
  DEF Next, Worker, Kernel, Finished

(* The receive that is posted for the ring as it is ends before the buffer   *)
(* does, and no unread byte lies in it.                                      *)
LEMMA RequestIsFree == TypeOK /\ RequestInv => ReceiveLeavesUnread
<1> SUFFICES ASSUME TypeOK, RequestInv, pc = "idle", request.length > 0
             PROVE LET cells == request.offset .. request.offset + request.length - 1
                   IN  cells \subseteq 0 .. RingSize - 1 /\ cells \cap Unread = {}
  BY DEF ReceiveLeavesUnread
<1>1. request.offset = writePos /\ request.length = RecvLength
  BY DEF RequestInv
<1>2. /\ readPos \in 0 .. RingSize - 1 /\ writePos \in 0 .. RingSize - 1
      /\ RingSize \in Nat \ {0}
  BY RingAssumption DEF TypeOK
<1>3. writePos + RecvLength <= RingSize /\ RecvLength \in Int
  BY <1>2, RoomForReceive
<1>4. UseSize = Used /\ Used \in 0 .. RingSize - 1
  BY <1>2, UseSizeIsUsed
<1>5. writePos .. writePos + RecvLength - 1 \subseteq 0 .. RingSize - 1
  BY <1>2, <1>3
<1>6. ASSUME NEW c \in writePos .. writePos + RecvLength - 1, c \in Unread PROVE FALSE
  <2>1. PICK i \in 0 .. UseSize - 1 : c = (readPos + i) % RingSize
    BY <1>6 DEF Unread
  <2>2. i \in 0 .. Used - 1 /\ i \in 0 .. RingSize - 1
    BY <1>4, <1>2
  <2>3. c = Cell(i)
    BY <1>2, <2>1, <2>2, CellIsModulo
  <2>4. c \in Int /\ c >= writePos /\ c <= writePos + RecvLength - 1
    BY <1>2, <1>3
  <2> QED
    BY <1>2, <2>2, <2>3, <2>4
    DEF Cell, Used, RecvLength, GetNotBrokenPutSize, GetNotBrokenGetSize
<1> QED
  BY <1>1, <1>5, <1>6

-----------------------------------------------------------------------------
(* The client's stream, from the first byte the server has not taken to the  *)
(* last byte the client has sent: b maps 0 .. m - 1 to bytes, s is what was  *)
(* sent and n how many packets were taken.                                   *)

PacketSize(p) == HeaderSize + p.payload

(* The whole of packet k is at j, and then the next one, up to the last that *)
(* was sent.                                                                 *)
PacketAt(m, b, s, j, k) ==
    /\ k \in 1 .. Len(s)
    /\ j + PacketSize(s[k]) <= m
    /\ \A d \in 0 .. PacketSize(s[k]) - 1 : b[j + d] = <<k, d + 1>>
    /\ j + PacketSize(s[k]) < m => b[j + PacketSize(s[k])] = <<k + 1, 1>>
    /\ j + PacketSize(s[k]) = m => k = Len(s)

(* Packet n + 1 comes first, and where the first byte of a packet is, the    *)
(* packet is.                                                                *)
Follows(m, b, s, n) ==
    /\ m = 0 => n = Len(s)
    /\ m > 0 => b[0] = <<n + 1, 1>>
    /\ \A j \in 0 .. m - 1, k \in Nat : b[j] = <<k, 1>> => PacketAt(m, b, s, j, k)

(* The stream goes on behind one more packet of the client.                  *)
LEMMA FollowsSent ==
    ASSUME NEW m \in Nat, NEW b, NEW s \in Seq(Packets), NEW n \in Nat,
           Follows(m, b, s, n), NEW p \in Packets, n <= Len(s),
           NEW c, \A j \in 0 .. m - 1 : c[j] = b[j],
           \A d \in 0 .. PacketSize(p) - 1 : c[m + d] = <<Len(s) + 1, d + 1>>
    PROVE Follows(m + PacketSize(p), c, Append(s, p), n)
<1> DEFINE t == Append(s, p)
           z == PacketSize(p)
<1>1. z \in Nat \ {0}
  BY SizeType DEF PacketSize
<1>2. /\ Len(s) \in Nat /\ Len(t) = Len(s) + 1
      /\ \A k \in 1 .. Len(s) : t[k] = s[k] /\ PacketSize(s[k]) \in Nat \ {0}
      /\ t[Len(s) + 1] = p
  <2>1. ASSUME NEW k \in 1 .. Len(s) PROVE t[k] = s[k] /\ PacketSize(s[k]) \in Nat \ {0}
    <3>1. s[k] \in Packets
      BY ElementOfSeq
    <3> QED
      BY <3>1, SizeType, AppendProperties DEF PacketSize
  <2> QED
    BY <2>1, LenProperties, AppendProperties
<1>3. \A d \in 0 .. z - 1 : c[m + d] = <<Len(s) + 1, d + 1>>
  OBVIOUS
<1> HIDE DEF t, z
<1>4. c[m] = <<Len(s) + 1, 1>>
  <2>1. c[m + 0] = <<Len(s) + 1, 0 + 1>>
    BY <1>1, <1>3
  <2> QED
    BY <2>1, <1>2
<1>5. m + z > 0 /\ c[0] = <<n + 1, 1>>
  BY <1>1, <1>4 DEF Follows
<1>6. \A j \in 0 .. (m + z) - 1, k \in Nat : c[j] = <<k, 1>> => PacketAt(m + z, c, t, j, k)
  <2> SUFFICES ASSUME NEW j \in 0 .. (m + z) - 1, NEW k \in Nat, c[j] = <<k, 1>>
               PROVE PacketAt(m + z, c, t, j, k)
    OBVIOUS
  <2>1. CASE j < m
    <3>1. b[j] = <<k, 1>> /\ j \in 0 .. m - 1
      BY <2>1
    <3>2. /\ k \in 1 .. Len(s)
          /\ j + PacketSize(s[k]) <= m
          /\ \A d \in 0 .. PacketSize(s[k]) - 1 : b[j + d] = <<k, d + 1>>
          /\ j + PacketSize(s[k]) < m => b[j + PacketSize(s[k])] = <<k + 1, 1>>
          /\ j + PacketSize(s[k]) = m => k = Len(s)
      BY <3>1 DEF Follows, PacketAt
    <3> DEFINE y == PacketSize(s[k])
    <3>3. y \in Nat \ {0} /\ t[k] = s[k]
      BY <1>2, <3>2
    <3>4. /\ j + y <= m
          /\ \A d \in 0 .. y - 1 : b[j + d] = <<k, d + 1>>
          /\ j + y < m => b[j + y] = <<k + 1, 1>>
          /\ j + y = m => k = Len(s)
          /\ PacketSize(t[k]) = y
      BY <3>2, <3>3
    <3> HIDE DEF y
    <3>5. \A d \in 0 .. y - 1 : c[j + d] = <<k, d + 1>>
      <4> SUFFICES ASSUME NEW d \in 0 .. y - 1 PROVE c[j + d] = <<k, d + 1>>
        OBVIOUS
      <4>1. j + d \in 0 .. m - 1
        BY <3>3, <3>4
      <4> QED
        BY <4>1, <3>4
    <3>6. j + y < m + z => c[j + y] = <<k + 1, 1>>
      <4>1. CASE j + y < m
        <5>1. j + y \in 0 .. m - 1
          BY <3>3, <4>1
        <5> QED
          BY <5>1, <3>4, <4>1
      <4>2. CASE j + y = m
        BY <4>2, <3>4, <1>4
      <4> QED
        BY <4>1, <4>2, <3>3, <3>4
    <3> QED
      <4>1. k \in 1 .. Len(t) /\ j + y <= m + z /\ j + y # m + z
        BY <1>1, <1>2, <3>2, <3>3, <3>4
      <4> QED
        BY <4>1, <3>4, <3>5, <3>6, Zenon DEF PacketAt
  <2>2. CASE j >= m
    <3>1. PICK d \in 0 .. z - 1 : j = m + d
      <4>1. j - m \in 0 .. z - 1 /\ j = m + (j - m)
        BY <1>1, <2>2
      <4> QED
        BY <4>1
    <3>2. d = 0 /\ k = Len(s) + 1
      <4>1. <<k, 1>> = <<Len(s) + 1, d + 1>>
        BY <1>3, <3>1
      <4> QED
        BY <4>1, <1>1
    <3>3. j = m /\ t[k] = p /\ PacketSize(t[k]) = z
      BY <1>2, <3>1, <3>2 DEF z
    <3>4. \A e \in 0 .. z - 1 : c[j + e] = <<k, e + 1>>
      BY <1>3, <3>2, <3>3
    <3>5. k \in 1 .. Len(t) /\ k = Len(t)
      BY <1>2, <3>2
    <3>6. j + z <= m + z /\ ~(j + z < m + z)
      BY <1>1, <3>3
    <3> QED
      BY <3>3, <3>4, <3>5, <3>6 DEF PacketAt
  <2> QED
    BY <2>1, <2>2, <1>1
<1>7. m + z # 0
  BY <1>1
<1>8. Follows(m + z, c, t, n)
  BY <1>5, <1>6, <1>7 DEF Follows
<1> QED
  BY <1>8 DEF t, z

(* Behind the first packet the stream goes on with the next.                 *)
LEMMA FollowsTaken ==
    ASSUME NEW m \in Nat \ {0}, NEW b, NEW s \in Seq(Packets), NEW n \in Nat,
           Follows(m, b, s, n), NEW c,
           \A j \in 0 .. m - PacketSize(s[n + 1]) - 1 : c[j] = b[j + PacketSize(s[n + 1])]
    PROVE /\ n + 1 \in 1 .. Len(s)
          /\ PacketSize(s[n + 1]) <= m
          /\ Follows(m - PacketSize(s[n + 1]), c, s, n + 1)
<1> DEFINE z == PacketSize(s[n + 1])
<1>1. b[0] = <<n + 1, 1>> /\ 0 \in 0 .. m - 1 /\ n + 1 \in Nat
  BY DEF Follows
<1>2. /\ n + 1 \in 1 .. Len(s)
      /\ 0 + z <= m
      /\ 0 + z < m => b[0 + z] = <<n + 1 + 1, 1>>
      /\ 0 + z = m => n + 1 = Len(s)
  BY <1>1 DEF Follows, PacketAt
<1>3. z \in Nat \ {0}
  <2>1. s[n + 1] \in Packets
    BY <1>2, ElementOfSeq
  <2> QED
    BY <2>1, SizeType DEF PacketSize
<1>4. \A j \in 0 .. m - z - 1 : c[j] = b[j + z]
  OBVIOUS
<1>5. \A k \in 1 .. Len(s) : PacketSize(s[k]) \in Nat \ {0}
  <2> SUFFICES ASSUME NEW k \in 1 .. Len(s) PROVE PacketSize(s[k]) \in Nat \ {0}
    OBVIOUS
  <2>1. s[k] \in Packets
    BY ElementOfSeq
  <2> QED
    BY <2>1, SizeType DEF PacketSize
<1> HIDE DEF z
<1>6. /\ m - z = 0 => n + 1 = Len(s)
      /\ m - z > 0 => c[0] = <<n + 1 + 1, 1>>
  <2>1. m - z > 0 => c[0] = b[0 + z]
    BY <1>3, <1>4
  <2> QED
    BY <1>2, <1>3, <2>1
<1>7. ASSUME NEW j \in 0 .. m - z - 1, NEW k \in Nat, c[j] = <<k, 1>>
      PROVE PacketAt(m - z, c, s, j, k)
  <2>1. j + z \in 0 .. m - 1 /\ b[j + z] = <<k, 1>>
    BY <1>3, <1>4, <1>7
  <2>2. /\ k \in 1 .. Len(s)
        /\ j + z + PacketSize(s[k]) <= m
        /\ \A d \in 0 .. PacketSize(s[k]) - 1 : b[j + z + d] = <<k, d + 1>>
        /\ j + z + PacketSize(s[k]) < m => b[j + z + PacketSize(s[k])] = <<k + 1, 1>>
        /\ j + z + PacketSize(s[k]) = m => k = Len(s)
    BY <2>1 DEF Follows, PacketAt
  <2> DEFINE y == PacketSize(s[k])
  <2>3. /\ y \in Nat \ {0}
        /\ j + z + y <= m
        /\ \A d \in 0 .. y - 1 : b[j + z + d] = <<k, d + 1>>
        /\ j + z + y < m => b[j + z + y] = <<k + 1, 1>>
        /\ j + z + y = m => k = Len(s)
    BY <1>5, <2>2
  <2> HIDE DEF y
  <2>4. ASSUME NEW d \in 0 .. y - 1 PROVE c[j + d] = <<k, d + 1>>
    <3>1. j + d \in 0 .. m - z - 1 /\ (j + d) + z = j + z + d
      BY <1>3, <2>3
    <3> QED
      BY <1>4, <2>3, <3>1
  <2>5. j + y < m - z => c[j + y] = <<k + 1, 1>>
    <3> SUFFICES ASSUME j + y < m - z PROVE c[j + y] = <<k + 1, 1>>
      OBVIOUS
    <3>1. j + y \in 0 .. m - z - 1 /\ (j + y) + z = j + z + y /\ j + z + y < m
      BY <1>3, <2>3
    <3> QED
      BY <1>4, <2>3, <3>1
  <2>6. j + y <= m - z /\ (j + y = m - z => k = Len(s))
    BY <1>3, <2>3
  <2> QED
    BY <2>2, <2>4, <2>5, <2>6 DEF y, PacketAt
<1>8. Follows(m - z, c, s, n + 1)
  BY <1>6, <1>7 DEF Follows
<1> QED
  BY <1>2, <1>3, <1>8 DEF z

-----------------------------------------------------------------------------
(* The stream is in the ring and, behind that, in the network.  Bytes of a   *)
(* completion that RecvCompleted has not seen are in the ring already.       *)
Held == Used + (IF pc = "completed" THEN transferred ELSE 0)

Pending == Held + Len(network)

Stream ==
    [j \in 0 .. Pending - 1 |-> IF j < Held THEN ring[Cell(j)] ELSE network[j - Held + 1]]

(* Until a bad packet ends the session, the stream begins with the packet    *)
(* after the last one OnRecvPacket was given.                                *)
StreamInv == ~packetError => Follows(Pending, Stream, sent, Len(received))

IInv == TypeOK /\ OffsetInv /\ RequestInv /\ StreamInv /\ PacketsInOrder /\ ErrorIsClients

LEMMA HeldFits ==
    ASSUME TypeOK, RequestInv
    PROVE /\ Used \in 0 .. RingSize - 1
          /\ Held \in 0 .. RingSize - 1
          /\ Len(network) \in Nat /\ Len(sent) \in Nat /\ Len(received) \in Nat
          /\ Pending \in Nat
<1>1. /\ readPos \in 0 .. RingSize - 1 /\ writePos \in 0 .. RingSize - 1
      /\ RingSize \in Nat \ {0} /\ transferred \in Nat
  BY RingAssumption DEF TypeOK
<1>2. Used \in 0 .. RingSize - 1
  BY <1>1, UseSizeIsUsed
<1>3. Len(network) \in Nat /\ Len(sent) \in Nat /\ Len(received) \in Nat
  BY LenProperties DEF TypeOK
<1>4. RecvLength \in Int /\ Used + RecvLength < RingSize
  BY <1>1, RoomForReceive
<1>5. pc = "completed" => transferred <= RecvLength
  BY DEF RequestInv
<1>6. Held \in 0 .. RingSize - 1
  BY <1>1, <1>2, <1>4, <1>5 DEF Held
<1> QED
  BY <1>2, <1>3, <1>6 DEF Pending

(* The packet at the head of the ring, as RecvCompleted sees it: its number  *)
(* and its length are those of the next packet of the client, and Decode     *)
(* finds the payload the client sent.                                        *)
LEMMA HeadOfRing ==
    ASSUME IInv, pc = "parse", restSize > HeaderSize, NEW n, n = Len(received) + 1
    PROVE /\ n \in 1 .. Len(sent) /\ Pending > 0
          /\ HeaderNumber = n
          /\ GetPayloadLength = IF ~sent[n].code \/ restSize < sent[n].payload + HeaderSize
                                THEN 0 ELSE sent[n].payload
          /\ restSize >= PacketSize(sent[n]) =>
                 Peek(HeaderSize, sent[n].payload) =
                     SubSeq(PacketBytes(n, sent[n]), HeaderSize + 1, HeaderSize + sent[n].payload)
<1> USE DEF IInv
<1>1. /\ readPos \in 0 .. RingSize - 1 /\ RingSize \in Nat \ {0} /\ HeaderSize \in Nat \ {0}
      /\ restSize = Used /\ Held = Used /\ Used \in 0 .. RingSize - 1
      /\ Len(network) \in Nat /\ Len(received) \in Nat
  <2>1. Used \in 0 .. RingSize - 1 /\ Len(network) \in Nat /\ Len(received) \in Nat
    BY HeldFits
  <2>2. restSize = Used /\ Held = Used + 0
    BY DEF RequestInv, Held
  <2>3. readPos \in 0 .. RingSize - 1
    BY DEF TypeOK
  <2> QED
    BY <2>1, <2>2, <2>3, RingAssumption
<1>2. Pending >= restSize /\ Pending \in Nat /\ Pending > 0
  BY <1>1 DEF Pending
<1>3. Follows(Pending, Stream, sent, Len(received))
  BY DEF StreamInv, RequestInv
<1>4. n \in Nat \ {0} /\ Stream[0] = <<n, 1>> /\ 0 \in 0 .. Pending - 1
  BY <1>1, <1>2, <1>3 DEF Follows
<1>5. PacketAt(Pending, Stream, sent, 0, n)
  BY <1>3, <1>4 DEF Follows
<1>6. n \in 1 .. Len(sent)
  BY <1>5 DEF PacketAt
<1>7. sent[n] \in Packets /\ sent[n].payload \in Nat
  BY <1>6, ElementOfSeq, SizeType DEF TypeOK
<1> DEFINE y == sent[n].payload
<1>8. /\ HeaderSize + y <= Pending
      /\ \A d \in 0 .. HeaderSize + y - 1 : Stream[d] = <<n, d + 1>>
  <2>1. /\ 0 + PacketSize(sent[n]) <= Pending
        /\ \A d \in 0 .. PacketSize(sent[n]) - 1 : Stream[0 + d] = <<n, d + 1>>
    BY <1>5 DEF PacketAt
  <2>2. PacketSize(sent[n]) = HeaderSize + y /\ HeaderSize + y \in Nat
    BY <1>1, <1>7 DEF PacketSize
  <2>3. ASSUME NEW d \in 0 .. HeaderSize + y - 1 PROVE Stream[d] = <<n, d + 1>>
    <3>1. d \in 0 .. PacketSize(sent[n]) - 1 /\ 0 + d = d
      BY <1>1, <1>7, <2>2
    <3> QED
      BY <2>1, <3>1
  <2> QED
    BY <2>1, <2>2, <2>3
<1> HIDE DEF y
<1>9. y \in Nat
  BY <1>7 DEF y
<1>10. ASSUME NEW d \in 0 .. restSize - 1, d < HeaderSize + y
       PROVE ring[(readPos + d) % RingSize] = <<n, d + 1>>
  <2>1. d \in 0 .. Pending - 1 /\ d < Held /\ d \in 0 .. RingSize - 1 /\ d \in 0 .. HeaderSize + y - 1
    BY <1>1, <1>2, <1>9, <1>10
  <2>2. Stream[d] = ring[Cell(d)]
    BY <2>1 DEF Stream
  <2>3. (readPos + d) % RingSize = Cell(d)
    BY <1>1, <2>1, CellIsModulo
  <2> QED
    BY <1>8, <2>1, <2>2, <2>3
<1>11. HeaderNumber = n
  <2>1. ring[readPos] = <<n, 1>>
    <3>1. 0 \in 0 .. restSize - 1 /\ 0 < HeaderSize + y
      BY <1>1, <1>9
    <3>2. ring[(readPos + 0) % RingSize] = <<n, 0 + 1>>
      BY <1>10, <3>1
    <3>3. (readPos + 0) % RingSize = readPos
      BY <1>1, ModSmall
    <3> QED
      BY <3>2, <3>3
  <2>2. ASSUME NEW i \in 1 .. HeaderSize
        PROVE ring[(readPos + 0 + i - 1) % RingSize] = <<n, i>>
    <3>1. /\ i - 1 \in 0 .. restSize - 1 /\ i - 1 < HeaderSize + y
          /\ readPos + 0 + i - 1 = readPos + (i - 1) /\ (i - 1) + 1 = i
      BY <1>1, <1>9
    <3>2. ring[(readPos + (i - 1)) % RingSize] = <<n, (i - 1) + 1>>
      BY <1>10, <3>1
    <3> QED
      BY <3>1, <3>2
  <2>3. Peek(0, HeaderSize) = [i \in 1 .. HeaderSize |-> <<n, i>>]
    BY <2>2 DEF Peek
  <2> QED
    BY <2>1, <2>3 DEF HeaderNumber
<1>12. GetPayloadLength = IF ~sent[n].code \/ restSize < y + HeaderSize THEN 0 ELSE y
  BY <1>4, <1>11 DEF GetPayloadLength, WrongCode, y
<1>13. ASSUME restSize >= PacketSize(sent[n])
       PROVE Peek(HeaderSize, y) =
                 SubSeq(PacketBytes(n, sent[n]), HeaderSize + 1, HeaderSize + y)
  <2>1. restSize >= HeaderSize + y
    BY <1>13 DEF PacketSize, y
  <2>2. \A i \in 1 .. HeaderSize + y : PacketBytes(n, sent[n])[i] = <<n, i>>
    BY <1>4, <1>7, PacketBytesType DEF y
  <2>3. SubSeq(PacketBytes(n, sent[n]), HeaderSize + 1, HeaderSize + y)
           = [i \in 1 .. y |-> PacketBytes(n, sent[n])[HeaderSize + i]]
    <3>1. HeaderSize + 1 \in Int /\ HeaderSize + y \in Int
      BY <1>1, <1>9
    <3> QED
      BY <1>1, <1>9, <3>1
  <2>4. ASSUME NEW i \in 1 .. y
        PROVE ring[(readPos + HeaderSize + i - 1) % RingSize] = PacketBytes(n, sent[n])[HeaderSize + i]
    <3>1. /\ HeaderSize + i - 1 \in 0 .. restSize - 1 /\ HeaderSize + i - 1 < HeaderSize + y
          /\ readPos + HeaderSize + i - 1 = readPos + (HeaderSize + i - 1)
          /\ (HeaderSize + i - 1) + 1 = HeaderSize + i /\ HeaderSize + i \in 1 .. HeaderSize + y
      BY <1>1, <1>9, <2>1
    <3>2. ring[(readPos + (HeaderSize + i - 1)) % RingSize] = <<n, (HeaderSize + i - 1) + 1>>
      BY <1>10, <3>1
    <3> QED
      BY <2>2, <3>1, <3>2
  <2> QED
    BY <2>3, <2>4 DEF Peek
<1> QED
  BY <1>2, <1>6, <1>11, <1>12, <1>13 DEF y

(* The steps that move no byte and take none leave the stream as it is.      *)
LEMMA StreamKept ==
    ASSUME TypeOK, RequestInv, StreamInv,
           UNCHANGED <<sent, received, readPos, writePos, ring, network>>,
           pc # "completed", pc' # "completed", packetError' = packetError
    PROVE StreamInv'
<1>1. Used' = Used /\ \A j : Cell(j)' = Cell(j)
  BY DEF Used, Cell
<1>2. Held' = Held
  BY <1>1 DEF Held
<1>3. Pending' = Pending
  BY <1>2 DEF Pending
<1>4. Stream' = Stream
  BY <1>1, <1>2, <1>3 DEF Stream
<1> QED
  BY <1>3, <1>4 DEF StreamInv

LEMMA ClientSendsStream ==
    ASSUME TypeOK, RequestInv, StreamInv, PacketsInOrder, NEW p \in Packets, ClientSends(p)
    PROVE StreamInv'
<1> SUFFICES ASSUME ~packetError PROVE Follows(Pending', Stream', sent', Len(received'))
  BY DEF StreamInv, ClientSends
<1>1. Used' = Used /\ Held' = Held /\ \A j : Cell(j)' = Cell(j)
  BY DEF ClientSends, Used, Held, Cell, ringVars
<1>2. /\ Held \in Nat /\ Pending \in Nat /\ Len(network) \in Nat
      /\ Len(sent) \in Nat /\ Len(received) \in Nat /\ Pending = Held + Len(network)
  BY HeldFits, RingAssumption DEF Pending
<1> DEFINE z == PacketSize(p)
           new == PacketBytes(Len(sent) + 1, p)
<1>3. /\ z \in Nat \ {0} /\ new \in Seq(Nat \X Nat) /\ Len(new) = z
      /\ \A i \in 1 .. z : new[i] = <<Len(sent) + 1, i>>
  <2>1. Len(sent) + 1 \in Nat
    BY <1>2
  <2>2. new \in Seq(Nat \X Nat) /\ Len(new) = z /\ \A i \in 1 .. z : new[i] = <<Len(sent) + 1, i>>
    BY <2>1, PacketBytesType DEF PacketSize
  <2>3. z \in Nat \ {0}
    BY SizeType DEF PacketSize
  <2> QED
    BY <2>2, <2>3
<1>4. network' = network \o new /\ network \in Seq(Nat \X Nat)
  BY DEF ClientSends, TypeOK
<1> HIDE DEF z, new
<1>5. /\ Len(network') = Len(network) + z
      /\ \A i \in 1 .. Len(network) + z :
             network'[i] = IF i <= Len(network) THEN network[i] ELSE new[i - Len(network)]
  BY <1>3, <1>4, ConcatProperties, ZenonT(30)
<1>6. Pending' = Pending + z
  BY <1>1, <1>2, <1>3, <1>5 DEF Pending
<1>7. \A j \in 0 .. (Pending + z) - 1 :
         Stream'[j] = IF j < Held THEN ring[Cell(j)] ELSE network'[j - Held + 1]
  BY <1>1, <1>6 DEF Stream, ClientSends, ringVars
<1>8. ASSUME NEW j \in 0 .. Pending - 1 PROVE Stream'[j] = Stream[j]
  <2>1. j \in 0 .. (Pending + z) - 1
    BY <1>2, <1>3
  <2>2. Stream[j] = IF j < Held THEN ring[Cell(j)] ELSE network[j - Held + 1]
    BY DEF Stream
  <2>3. ~(j < Held) => /\ j - Held + 1 \in 1 .. Len(network) + z
                       /\ j - Held + 1 <= Len(network)
    BY <1>2, <1>3
  <2>4. ~(j < Held) => network'[j - Held + 1] = network[j - Held + 1]
    BY <2>3, <1>5
  <2> QED
    BY <1>7, <2>1, <2>2, <2>4
<1>9. ASSUME NEW d \in 0 .. z - 1 PROVE Stream'[Pending + d] = <<Len(sent) + 1, d + 1>>
  <2>1. /\ Pending + d \in 0 .. (Pending + z) - 1 /\ ~(Pending + d < Held)
        /\ (Pending + d) - Held + 1 = Len(network) + d + 1
    BY <1>2, <1>3
  <2>2. Stream'[Pending + d] = network'[Len(network) + d + 1]
    BY <1>7, <2>1
  <2>3. /\ Len(network) + d + 1 \in 1 .. Len(network) + z
        /\ ~(Len(network) + d + 1 <= Len(network))
        /\ Len(network) + d + 1 - Len(network) = d + 1 /\ d + 1 \in 1 .. z
    BY <1>2, <1>3
  <2> QED
    BY <1>3, <1>5, <2>2, <2>3, SMTT(30)
<1>10. Follows(Pending, Stream, sent, Len(received)) /\ Len(received) <= Len(sent)
  BY DEF StreamInv, PacketsInOrder
<1>11. sent \in Seq(Packets) /\ sent' = Append(sent, p) /\ received' = received
  BY DEF TypeOK, ClientSends
<1>12. Follows(Pending + z, Stream', Append(sent, p), Len(received))
  BY <1>2, <1>8, <1>9, <1>10, <1>11, FollowsSent DEF z
<1> QED
  BY <1>6, <1>11, <1>12

(* The kernel moves bytes of the network into the ring: the stream is the    *)
(* same, since none of them falls on an unread byte.                         *)
LEMMA ReceiveStream ==
    ASSUME TypeOK, RequestInv, StreamInv, NEW n \in 1 .. RingSize, Receive(n)
    PROVE StreamInv'
<1>1. /\ readPos \in 0 .. RingSize - 1 /\ writePos \in 0 .. RingSize - 1
      /\ RingSize \in Nat \ {0} /\ n \in Nat \ {0}
  BY RingAssumption DEF TypeOK
<1>2. /\ n <= Len(network) /\ Len(network) \in Nat /\ Used \in 0 .. RingSize - 1
      /\ Held = Used
  <2>1. Held = Used + 0
    BY DEF Receive, Held
  <2> QED
    BY <2>1, HeldFits DEF Receive
<1>3. request.offset = writePos /\ n <= RecvLength
  BY DEF RequestInv, Receive
<1>4. RecvLength \in Int /\ writePos + RecvLength <= RingSize /\ Used + RecvLength < RingSize
  BY <1>1, RoomForReceive
<1>5. Used' = Used /\ \A j : Cell(j)' = Cell(j)
  BY DEF Receive, Used, Cell
<1>6. Held' = Used + n
  BY <1>5 DEF Held, Receive
<1>7. /\ Len(network') = Len(network) - n
      /\ \A i \in 1 .. Len(network) - n : network'[i] = network[n + i]
  <2>1. \A i \in n + 1 .. Len(network) : network[i] \in Nat \X Nat
    <3> SUFFICES ASSUME NEW i \in n + 1 .. Len(network) PROVE network[i] \in Nat \X Nat
      OBVIOUS
    <3>1. i \in 1 .. Len(network)
      BY <1>1, <1>2
    <3> QED
      BY <3>1, ElementOfSeq DEF TypeOK
  <2>2. network' = SubSeq(network, n + 1, Len(network)) /\ n + 1 \in Int
    BY DEF Receive
  <2>3. /\ Len(network') = IF n + 1 <= Len(network) THEN Len(network) - (n + 1) + 1 ELSE 0
        /\ \A i \in 1 .. Len(network) - (n + 1) + 1 : network'[i] = network[(n + 1) + i - 1]
    BY <1>2, <2>1, <2>2, SubSeqProperties
  <2>4. Len(network') = Len(network) - n
    BY <1>1, <1>2, <2>3
  <2>5. ASSUME NEW i \in 1 .. Len(network) - n PROVE network'[i] = network[n + i]
    <3>1. i \in 1 .. Len(network) - (n + 1) + 1 /\ (n + 1) + i - 1 = n + i
      BY <1>1, <1>2
    <3> QED
      BY <2>3, <3>1
  <2> QED
    BY <2>4, <2>5
<1>8. Pending' = Pending /\ Pending = Used + Len(network)
  BY <1>1, <1>2, <1>6, <1>7 DEF Pending
<1>9. \A i \in 0 .. RingSize - 1 : ring'[i] =
          IF i \in writePos .. writePos + n - 1 THEN network[i - writePos + 1] ELSE ring[i]
  BY <1>3 DEF Receive, TypeOK
<1>10. ASSUME NEW j \in 0 .. Pending - 1
       PROVE (IF j < Used + n THEN ring'[Cell(j)] ELSE network'[j - (Used + n) + 1])
             = (IF j < Used THEN ring[Cell(j)] ELSE network[j - Used + 1])
  <2>0. j \in Nat /\ j < Used + Len(network)
    BY <1>2, <1>8
  <2>1. CASE j < Used
    <3>1. Cell(j) \in 0 .. RingSize - 1 /\ Cell(j) \notin writePos .. writePos + n - 1
      BY <1>1, <1>2, <1>3, <2>0, <2>1
      DEF Cell, Used, RecvLength, GetNotBrokenPutSize, GetNotBrokenGetSize
    <3> QED
      BY <1>1, <1>2, <1>9, <2>1, <3>1, <2>0
  <2>2. CASE j >= Used /\ j < Used + n
    <3>1. /\ Cell(j) = writePos + (j - Used) /\ Cell(j) \in 0 .. RingSize - 1
          /\ Cell(j) \in writePos .. writePos + n - 1 /\ Cell(j) - writePos + 1 = j - Used + 1
      <4>1. Cell(j) = writePos + (j - Used)
        BY <1>1, <1>2, <1>3, <1>4, <2>0, <2>2 DEF Cell, Used
      <4> QED
        BY <1>1, <1>2, <1>3, <1>4, <2>0, <2>2, <4>1
    <3> QED
      BY <1>1, <1>2, <1>9, <2>0, <2>2, <3>1
  <2>3. CASE j >= Used + n
    <3>1. /\ j - (Used + n) + 1 \in 1 .. Len(network) - n
          /\ n + (j - (Used + n) + 1) = j - Used + 1
          /\ ~(j < Used + n) /\ ~(j < Used)
      BY <1>1, <1>2, <2>0, <2>3
    <3> QED
      BY <1>7, <3>1
  <2> QED
    BY <1>1, <1>2, <2>0, <2>1, <2>2, <2>3
<1>11. Stream' = Stream
  <2>1. Stream' = [j \in 0 .. Pending - 1 |->
                       IF j < Used + n THEN ring'[Cell(j)] ELSE network'[j - (Used + n) + 1]]
    BY <1>5, <1>6, <1>8 DEF Stream
  <2>2. Stream = [j \in 0 .. Pending - 1 |->
                       IF j < Used THEN ring[Cell(j)] ELSE network[j - Used + 1]]
    BY <1>2 DEF Stream
  <2> QED
    BY <1>10, <2>1, <2>2
<1> QED
  BY <1>8, <1>11 DEF StreamInv, Receive

(* RecvCompleted moves the write position over the bytes that have arrived.  *)
LEMMA CompletedStream ==
    ASSUME TypeOK, RequestInv, StreamInv, RecvCompleted
    PROVE StreamInv'
<1>1. /\ readPos \in 0 .. RingSize - 1 /\ writePos \in 0 .. RingSize - 1
      /\ RingSize \in Nat \ {0} /\ transferred \in 0 .. RingSize
  BY RingAssumption DEF TypeOK
<1>2. Held = Used + transferred /\ Held \in 0 .. RingSize - 1
  BY HeldFits DEF Held, RecvCompleted
<1>3. writePos' = IF writePos + transferred < RingSize THEN writePos + transferred
                  ELSE (writePos + transferred) - RingSize
  <2>1. writePos + transferred \in 0 .. 2 * RingSize - 1
    BY <1>1
  <2> QED
    BY <2>1, Wrap DEF RecvCompleted
<1>4. readPos' = readPos /\ pc' = "parse"
  BY DEF RecvCompleted
<1>5. Used' = Used + transferred
  BY <1>1, <1>2, <1>3, <1>4 DEF Used
<1>6. Held' = Held
  <2>1. Held' = Used' + 0
    BY <1>4 DEF Held
  <2> QED
    BY <1>2, <1>5, <2>1
<1>7. Pending' = Pending
  BY <1>6 DEF Pending, RecvCompleted
<1>8. \A j : Cell(j)' = Cell(j)
  BY <1>4 DEF Cell
<1>9. Stream' = Stream
  BY <1>6, <1>7, <1>8 DEF Stream, RecvCompleted
<1> QED
  BY <1>7, <1>9 DEF StreamInv, RecvCompleted, RequestInv

(* The packet that OnRecvPacket is given is the next one of the client.      *)
LEMMA TakePacketStream ==
    ASSUME IInv, TakePacket
    PROVE StreamInv' /\ PacketsInOrder'
<1> DEFINE n == Len(received) + 1
<1>1. pc = "parse" /\ restSize > HeaderSize /\ ~packetError /\ GetPayloadLength \in 1 .. DefaultSize
  BY DEF IInv, TakePacket, HasPacket, RequestInv
<1>2. /\ n \in 1 .. Len(sent) /\ Pending > 0 /\ HeaderNumber = n
      /\ GetPayloadLength = IF ~sent[n].code \/ restSize < sent[n].payload + HeaderSize
                            THEN 0 ELSE sent[n].payload
  BY <1>1, HeadOfRing
<1>3. /\ Held \in 0 .. RingSize - 1 /\ Used \in 0 .. RingSize - 1 /\ Held = Used /\ restSize = Used
      /\ Len(network) \in Nat /\ Len(sent) \in Nat /\ Len(received) \in Nat
      /\ Pending \in Nat \ {0} /\ RingSize \in Nat \ {0} /\ HeaderSize \in Nat \ {0}
      /\ readPos \in 0 .. RingSize - 1
  <2>1. restSize = Used /\ Held = Used + 0
    BY <1>1 DEF IInv, RequestInv, Held
  <2> QED
    <3>1. /\ Held \in 0 .. RingSize - 1 /\ Used \in 0 .. RingSize - 1 /\ Pending \in Nat
          /\ Len(network) \in Nat /\ Len(sent) \in Nat /\ Len(received) \in Nat
      BY HeldFits DEF IInv
    <3>2. readPos \in 0 .. RingSize - 1
      BY DEF IInv, TypeOK
    <3> QED
      BY <1>2, <2>1, <3>1, <3>2, RingAssumption
<1>4. sent[n] \in Packets /\ sent[n].payload \in Nat
  BY <1>2, ElementOfSeq, SizeType DEF IInv, TypeOK
<1> DEFINE z == PacketSize(sent[n])
<1>5. GetPayloadLength = sent[n].payload /\ z = HeaderSize + GetPayloadLength /\ z \in Nat /\ z <= restSize
  BY <1>1, <1>2, <1>3, <1>4 DEF PacketSize
<1>6. readPos' = (readPos + z) % RingSize
  <2>1. readPos + HeaderSize + GetPayloadLength = readPos + z
    BY <1>3, <1>4, <1>5
  <2> QED
    BY <2>1 DEF TakePacket, TakeFromRing
<1>7. /\ received' = Append(received, n) /\ sent' = sent /\ network' = network /\ ring' = ring
      /\ writePos' = writePos /\ pc' = "parse" /\ packetError' = packetError
  BY <1>1, <1>2 DEF TakePacket
<1>8. sent[n].code /\ sent[n].decodes
  BY <1>1, <1>2 DEF TakePacket, Decode
<1> HIDE DEF n, z
<1>z. z \in Nat /\ z <= Used /\ z <= Held
  BY <1>3, <1>5
<1>9. Used' = Used - z /\ \A j \in 0 .. RingSize - 1 - z : Cell(j)' = Cell(j + z)
  <2>1. z \in 0 .. Used
    BY <1>3, <1>5
  <2> QED
    BY <1>6, <1>7, <2>1, TakeShifts DEF IInv
<1>10. Held' = Held - z
  <2>1. Held' = Used' + 0
    BY <1>7 DEF Held
  <2> QED
    BY <1>3, <1>5, <1>9, <2>1
<1>11. Pending' = Pending - z /\ Pending = Held + Len(network)
  BY <1>3, <1>5, <1>7, <1>10 DEF Pending
<1>12. ASSUME NEW j \in 0 .. (Pending - z) - 1 PROVE Stream'[j] = Stream[j + z]
  <2>1. j + z \in 0 .. Pending - 1 /\ j \in Nat
    BY <1>3, <1>z, <1>11
  <2>2. Stream'[j] = IF j < Held - z THEN ring[Cell(j)'] ELSE network[j - (Held - z) + 1]
    BY <1>7, <1>10, <1>11 DEF Stream
  <2>3. Stream[j + z] = IF j + z < Held THEN ring[Cell(j + z)] ELSE network[(j + z) - Held + 1]
    BY <2>1 DEF Stream
  <2>4. CASE j < Held - z
    <3>1. j \in 0 .. RingSize - 1 - z /\ j + z < Held
      BY <1>3, <1>z, <2>1, <2>4
    <3> QED
      BY <1>9, <2>2, <2>3, <2>4, <3>1
  <2>5. CASE ~(j < Held - z)
    <3>1. ~(j + z < Held) /\ (j + z) - Held + 1 = j - (Held - z) + 1
      BY <1>3, <1>z, <2>1, <2>5
    <3> QED
      BY <2>2, <2>3, <2>5, <3>1
  <2> QED
    BY <2>4, <2>5
<1>13. Follows(Pending, Stream, sent, Len(received))
  BY <1>1 DEF IInv, StreamInv
<1>14. Follows(Pending - z, Stream', sent, n)
  <2>1. sent \in Seq(Packets)
    BY DEF IInv, TypeOK
  <2> QED
    BY <1>3, <1>12, <1>13, <2>1, FollowsTaken DEF n, z
<1>15. /\ received \in Seq(Nat) /\ n \in Nat /\ Len(received') = n
       /\ received'[n] = n /\ \A i \in 1 .. Len(received) : received'[i] = received[i]
  <2>1. received \in Seq(Nat) /\ n \in Nat
    BY <1>3 DEF IInv, TypeOK, n
  <2> QED
    BY <1>7, <2>1, AppendProperties DEF n
<1>16. StreamInv'
  BY <1>7, <1>11, <1>14, <1>15 DEF StreamInv
<1>17. PacketsInOrder'
  <2>1. ASSUME NEW i \in 1 .. n PROVE received'[i] = i /\ sent[i].code /\ sent[i].decodes
    <3>1. CASE i = n
      BY <1>8, <1>15, <3>1
    <3>2. CASE i # n
      <4>1. i \in 1 .. Len(received)
        BY <1>3, <3>2 DEF n
      <4> QED
        BY <1>15, <4>1 DEF IInv, PacketsInOrder
    <3> QED
      BY <3>1, <3>2
  <2>2. n <= Len(sent)
    BY <1>2
  <2> QED
    BY <1>7, <1>15, <2>1, <2>2 DEF PacketsInOrder
<1> QED
  BY <1>16, <1>17

LEMMA StreamStep ==
    ASSUME IInv, [Next]_vars
    PROVE StreamInv'
<1> USE DEF IInv
<1>1. ASSUME NEW p \in Packets, ClientSends(p) PROVE StreamInv'
  BY <1>1, ClientSendsStream
<1>2. ASSUME NEW n \in 1 .. RingSize, Receive(n) PROVE StreamInv'
  BY <1>2, ReceiveStream
<1>3. CASE ReceiveNothing
  BY <1>3, StreamKept DEF ReceiveNothing, ringVars
<1>4. CASE RecvCompleted
  BY <1>4, CompletedStream
<1>5. CASE TakePacket
  BY <1>5, TakePacketStream
<1>6. CASE DecodeFails
  BY <1>6 DEF DecodeFails, StreamInv
<1>7. CASE PacketTooLong
  BY <1>7 DEF PacketTooLong, StreamInv
<1>8. CASE NoMorePackets
  BY <1>8, StreamKept DEF NoMorePackets, ringVars
<1>9. CASE RecvPost
  BY <1>9, StreamKept DEF RecvPost, ringVars
<1>10. CASE UNCHANGED vars
  <2>1. Used' = Used /\ \A j : Cell(j)' = Cell(j)
    BY <1>10 DEF vars, ringVars, Used, Cell
  <2>2. Held' = Held
    BY <1>10, <2>1 DEF vars, Held
  <2>3. Pending' = Pending
    BY <1>10, <2>2 DEF vars, Pending
  <2>4. Stream' = Stream
    BY <1>10, <2>1, <2>2, <2>3 DEF vars, ringVars, Stream
  <2> QED
    BY <1>10, <2>3, <2>4 DEF vars, StreamInv
<1> QED
  BY <1>1, <1>2, <1>3, <1>4, <1>5, <1>6, <1>7, <1>8, <1>9, <1>10
  DEF Next, Worker, Kernel, Finished

LEMMA OrderStep ==
    ASSUME IInv, [Next]_vars
    PROVE PacketsInOrder'
<1>0. sent \in Seq(Packets) /\ Len(sent) \in Nat /\ Len(received) \in Nat
  BY LenProperties DEF IInv, TypeOK
<1>a. ASSUME UNCHANGED <<sent, received>> PROVE PacketsInOrder'
  BY <1>a DEF IInv, PacketsInOrder
<1>1. ASSUME NEW p \in Packets, ClientSends(p) PROVE PacketsInOrder'
  <2>1. Len(sent') = Len(sent) + 1 /\ \A i \in 1 .. Len(sent) : sent'[i] = sent[i]
    BY <1>0, <1>1, AppendProperties DEF ClientSends
  <2>2. /\ Len(received) <= Len(sent)
        /\ \A i \in 1 .. Len(received) : received[i] = i /\ sent[i].code /\ sent[i].decodes
    BY DEF IInv, PacketsInOrder
  <2>3. ASSUME NEW i \in 1 .. Len(received) PROVE received[i] = i /\ sent'[i].code /\ sent'[i].decodes
    <3>1. i \in 1 .. Len(sent)
      BY <1>0, <2>2
    <3> QED
      BY <2>1, <2>2, <3>1
  <2>4. received' = received /\ Len(received) <= Len(sent')
    BY <1>0, <1>1, <2>1, <2>2 DEF ClientSends
  <2> QED
    BY <2>3, <2>4 DEF PacketsInOrder
<1>2. ASSUME NEW n \in 1 .. RingSize, Receive(n) PROVE PacketsInOrder'
  BY <1>2, <1>a DEF Receive
<1>3. CASE ReceiveNothing
  BY <1>3, <1>a DEF ReceiveNothing
<1>4. CASE RecvCompleted
  BY <1>4, <1>a DEF RecvCompleted
<1>5. CASE TakePacket
  BY <1>5, TakePacketStream
<1>6. CASE DecodeFails
  BY <1>6, <1>a DEF DecodeFails
<1>7. CASE PacketTooLong
  BY <1>7, <1>a DEF PacketTooLong
<1>8. CASE NoMorePackets
  BY <1>8, <1>a DEF NoMorePackets
<1>9. CASE RecvPost
  BY <1>9, <1>a DEF RecvPost
<1>10. CASE UNCHANGED vars
  BY <1>10, <1>a DEF vars
<1> QED
  BY <1>1, <1>2, <1>3, <1>4, <1>5, <1>6, <1>7, <1>8, <1>9, <1>10
  DEF Next, Worker, Kernel, Finished

LEMMA ErrorStep ==
    ASSUME IInv, [Next]_vars
    PROVE ErrorIsClients'
<1>0. sent \in Seq(Packets) /\ Len(sent) \in Nat
  BY LenProperties DEF IInv, TypeOK
<1>a. ASSUME UNCHANGED <<sent, packetError>> PROVE ErrorIsClients'
  BY <1>a DEF IInv, ErrorIsClients
<1>1. ASSUME NEW p \in Packets, ClientSends(p) PROVE ErrorIsClients'
  <2> SUFFICES ASSUME packetError
               PROVE \E i \in 1 .. Len(sent') :
                         sent'[i].code /\ (~sent'[i].decodes \/ sent'[i].payload > DefaultSize)
    BY <1>1 DEF ClientSends, ErrorIsClients
  <2>1. Len(sent') = Len(sent) + 1 /\ \A i \in 1 .. Len(sent) : sent'[i] = sent[i]
    BY <1>0, <1>1, AppendProperties DEF ClientSends
  <2>2. PICK i \in 1 .. Len(sent) :
            sent[i].code /\ (~sent[i].decodes \/ sent[i].payload > DefaultSize)
    BY DEF IInv, ErrorIsClients
  <2>3. i \in 1 .. Len(sent') /\ sent'[i] = sent[i]
    BY <1>0, <2>1
  <2> QED
    BY <2>2, <2>3
<1>2. ASSUME NEW n \in 1 .. RingSize, Receive(n) PROVE ErrorIsClients'
  BY <1>2, <1>a DEF Receive
<1>3. CASE ReceiveNothing
  BY <1>3, <1>a DEF ReceiveNothing
<1>4. CASE RecvCompleted
  BY <1>4 DEF RecvCompleted, ErrorIsClients
<1>5. CASE TakePacket
  BY <1>5, <1>a DEF TakePacket
<1> DEFINE n == Len(received) + 1
<1>b. ASSUME pc = "parse", restSize > HeaderSize, GetPayloadLength # 0
      PROVE /\ n \in 1 .. Len(sent) /\ HeaderNumber = n /\ GetPayloadLength = sent[n].payload
            /\ sent[n].code /\ (sent[n].decodes => Decode(n))
  <2>1. /\ n \in 1 .. Len(sent) /\ HeaderNumber = n
        /\ GetPayloadLength = IF ~sent[n].code \/ restSize < sent[n].payload + HeaderSize
                              THEN 0 ELSE sent[n].payload
        /\ restSize >= PacketSize(sent[n]) =>
               Peek(HeaderSize, sent[n].payload) =
                   SubSeq(PacketBytes(n, sent[n]), HeaderSize + 1, HeaderSize + sent[n].payload)
    BY <1>b, HeadOfRing
  <2>2. /\ sent[n].code /\ ~(restSize < sent[n].payload + HeaderSize)
        /\ GetPayloadLength = sent[n].payload
    BY <1>b, <2>1
  <2>3. restSize \in Int /\ sent[n].payload \in Nat /\ HeaderSize \in Nat
    BY <1>0, <2>1, ElementOfSeq, SizeType, RingAssumption DEF IInv, TypeOK
  <2>4. restSize >= PacketSize(sent[n])
    BY <2>2, <2>3 DEF PacketSize
  <2> HIDE DEF n
  <2> QED
    BY <2>1, <2>2, <2>4, Zenon DEF Decode
<1>6. CASE DecodeFails
  <2>1. pc = "parse" /\ restSize > HeaderSize /\ GetPayloadLength # 0 /\ ~Decode(HeaderNumber)
    BY <1>6 DEF DecodeFails, HasPacket
  <2>2. n \in 1 .. Len(sent) /\ sent[n].code /\ ~sent[n].decodes
    BY <1>b, <2>1
  <2> QED
    BY <1>6, <2>2 DEF DecodeFails, ErrorIsClients
<1>7. CASE PacketTooLong
  <2>1. pc = "parse" /\ restSize > HeaderSize /\ GetPayloadLength > DefaultSize
    BY <1>7 DEF PacketTooLong
  <2>2. GetPayloadLength # 0
    BY <2>1, RingAssumption
  <2>3. n \in 1 .. Len(sent) /\ sent[n].code /\ sent[n].payload > DefaultSize
    BY <1>b, <2>1, <2>2
  <2> QED
    BY <1>7, <2>3 DEF PacketTooLong, ErrorIsClients
<1>8. CASE NoMorePackets
  BY <1>8, <1>a DEF NoMorePackets
<1>9. CASE RecvPost
  BY <1>9, <1>a DEF RecvPost
<1>10. CASE UNCHANGED vars
  BY <1>10, <1>a DEF vars
<1> QED
  BY <1>1, <1>2, <1>3, <1>4, <1>5, <1>6, <1>7, <1>8, <1>9, <1>10
  DEF Next, Worker, Kernel, Finished

(* Nothing was sent, the ring is empty, and MakeNewSession posts a receive.  *)
LEMMA InitInv == Init => IInv
<1> SUFFICES ASSUME Init PROVE IInv
  OBVIOUS
<1>1. TypeOK
  BY InitType
<1>2. OffsetInv
  BY RingAssumption, ModSmall DEF Init, OffsetInv
<1>3. RequestInv
  BY DEF Init, RequestInv
<1>4. StreamInv
  <2>1. Held = 0 /\ Pending = 0
    BY DEF Init, Held, Used, Pending
  <2>2. Len(received) = Len(sent)
    BY DEF Init
  <2> QED
    BY <2>1, <2>2 DEF StreamInv, Follows
<1>5. PacketsInOrder /\ ErrorIsClients
  BY DEF Init, PacketsInOrder, ErrorIsClients
<1> QED
  BY <1>1, <1>2, <1>3, <1>4, <1>5 DEF IInv

(* The invariant holds always.                                               *)
LEMMA AlwaysInv == Spec => []IInv
<1>1. IInv /\ [Next]_vars => IInv'
  <2> SUFFICES ASSUME IInv, [Next]_vars PROVE IInv'
    OBVIOUS
  <2>1. TypeOK' /\ OffsetInv' /\ RequestInv'
    BY TypeStep, OffsetStep, RequestStep DEF IInv
  <2>2. StreamInv' /\ PacketsInOrder' /\ ErrorIsClients'
    BY StreamStep, OrderStep, ErrorStep
  <2> QED
    BY <2>1, <2>2 DEF IInv
<1> QED
  BY InitInv, <1>1, PTL DEF Spec

-----------------------------------------------------------------------------
(* The positions of the ring, rioRecvOffset and the posted request keep      *)
(* their ranges through every receive and every packet.                      *)
THEOREM TypeCorrect == Spec => []TypeOK
<1>1. IInv => TypeOK
  BY DEF IInv
<1> QED
  BY AlwaysInv, <1>1, PTL

(* RecvPost never gives the kernel a part of the buffer in which bytes are   *)
(* still to be read, or that the buffer does not have, also when the ring    *)
(* or rioRecvOffset wraps; for every ring whose size divides 2^32.           *)
THEOREM UnreadIsSafe == Spec => []ReceiveLeavesUnread
<1>1. IInv => ReceiveLeavesUnread
  BY RequestIsFree DEF IInv
<1> QED
  BY AlwaysInv, <1>1, PTL

(* RecvCompleted gives OnRecvPacket the packets of the client, each once and *)
(* in the order of sending, for every way in which TCP cuts the stream and   *)
(* every place where the ring wraps.                                         *)
THEOREM EveryPacketOnce == Spec => []PacketsInOrder
<1>1. IInv => PacketsInOrder
  BY DEF IInv
<1> QED
  BY AlwaysInv, <1>1, PTL

(* RecvCompleted ends a session for a bad packet only when its client sent   *)
(* one: no cut of the stream and no wrap of the ring makes a good packet bad.*)
THEOREM OnlyBadClientsEnd == Spec => []ErrorIsClients
<1>1. IInv => ErrorIsClients
  BY DEF IInv
<1> QED
  BY AlwaysInv, <1>1, PTL
=============================================================================
