----------------------------- MODULE RecvStream -----------------------------
(* The receive path of one session of RIOTestServer: the kernel writes into  *)
(* the part of the receive ring that RecvPost named, RecvCompleted moves the *)
(* write position, cuts packets out of the ring and posts the next receive.  *)
(* The ring keeps its own write position; RIO is told rioRecvOffset, which   *)
(* the session counts beside it.                                             *)
EXTENDS Integers, Sequences

CONSTANTS
    RingSize,      \* DEFAULT_RINGBUFFER_MAX
    OffsetMod,     \* 2^32, the range of the ULONG rioRecvOffset
    HeaderSize,    \* df_HEADER_SIZE
    DefaultSize,   \* dfDEFAULTSIZE, the longest payload a NetBuffer takes
    Payloads,      \* payload lengths a client uses
    MaxPackets     \* bound: packets the client sends

(* DEFAULT_RINGBUFFER_MAX belongs to the ring buffer library.  If it does not*)
(* divide 2^32, Offset leaves the ring's write position when rioRecvOffset   *)
(* wraps.                                                                    *)
ASSUME RingAssumption ==
    /\ RingSize \in Nat \ {0} /\ OffsetMod \in Nat \ {0} /\ OffsetMod % RingSize = 0
    /\ HeaderSize \in Nat \ {0} /\ DefaultSize \in Nat
    /\ Payloads \subseteq Nat /\ MaxPackets \in Nat

(* A packet is its payload length, whether its header has m_byHeaderCode and *)
(* whether Decode accepts it, which a wrong code leaves open.                *)
Packets ==
    {p \in [payload : Payloads, code : BOOLEAN, decodes : BOOLEAN] : p.code \/ p.decodes}

(* Byte i of the k-th packet of the client's stream; Empty was never written.*)
Empty == <<0, 0>>
PacketBytes(k, p) == [i \in 1 .. HeaderSize + p.payload |-> <<k, i>>]

NoRequest == [offset |-> 0, length |-> -1]

VARIABLES
    sent,           \* the packets the client has sent
    network,        \* their bytes that the kernel has not put into the ring
    ring,           \* the bytes of recvItem.recvRingBuffer
    readPos, writePos,
    rioRecvOffset,
    request,        \* Offset and Length of the receive the kernel holds
    transferred,    \* BytesTransferred of the completion being handled
    restSize, packetError,  \* locals of RecvCompleted
    received,       \* the numbers of the packets given to OnRecvPacket
    pc

ringVars == <<ring, readPos, writePos>>
vars == <<sent, network, ringVars, rioRecvOffset, request, transferred, restSize, packetError,
          received, pc>>

TypeOK ==
    /\ sent \in Seq(Packets)
    /\ network \in Seq(Nat \X Nat)
    /\ ring \in [0 .. RingSize - 1 -> Nat \X Nat]
    /\ readPos \in 0 .. RingSize - 1 /\ writePos \in 0 .. RingSize - 1
    /\ rioRecvOffset \in 0 .. OffsetMod - 1
    /\ request \in [offset : 0 .. RingSize - 1, length : -1 .. RingSize]
    /\ transferred \in 0 .. RingSize
    /\ restSize \in Int /\ packetError \in BOOLEAN
    /\ received \in Seq(Nat)
    /\ pc \in {"idle", "completed", "parse", "post", "closed"}

(* MakeNewSession posts the first receive.                                   *)
Init ==
    /\ sent = <<>> /\ network = <<>>
    /\ ring = [i \in 0 .. RingSize - 1 |-> Empty]
    /\ readPos = 0 /\ writePos = 0
    /\ rioRecvOffset = 0 /\ request = NoRequest
    /\ transferred = 0 /\ restSize = 0 /\ packetError = FALSE
    /\ received = <<>>
    /\ pc = "post"

-----------------------------------------------------------------------------
(* CRingbuffer: one cell stays free, the sizes that do not wrap around end   *)
(* at the end of the buffer.                                                 *)

Distance(from, to) == (to - from) % RingSize
UseSize == Distance(readPos, writePos)

GetNotBrokenGetSize == IF readPos <= writePos THEN writePos - readPos ELSE RingSize - readPos

GetNotBrokenPutSize ==
    IF readPos > writePos THEN readPos - writePos - 1
    ELSE RingSize - writePos - (IF readPos = 0 THEN 1 ELSE 0)

Peek(from, n) == [i \in 1 .. n |-> ring[(readPos + from + i - 1) % RingSize]]

(* The client and the kernel.                                                *)
ClientSends(p) ==
    /\ Len(sent) < MaxPackets
    /\ sent' = Append(sent, p)
    /\ network' = network \o PacketBytes(Len(sent) + 1, p)
    /\ UNCHANGED <<ringVars, rioRecvOffset, request, transferred, restSize, packetError,
                   received, pc>>

(* TCP is a stream: any number of bytes that fit.                            *)
Receive(n) ==
    /\ pc = "idle" /\ n <= Len(network) /\ n <= request.length
    /\ ring' = [i \in DOMAIN ring |->
                   IF i \in request.offset .. request.offset + n - 1
                   THEN network[i - request.offset + 1] ELSE ring[i]]
    /\ network' = SubSeq(network, n + 1, Len(network))
    /\ request' = NoRequest
    /\ transferred' = n
    /\ pc' = "completed"
    /\ UNCHANGED <<sent, readPos, writePos, rioRecvOffset, restSize, packetError, received>>

(* A receive without room completes with zero bytes, which ends the session. *)
ReceiveNothing ==
    /\ pc = "idle" /\ request.length = 0
    /\ request' = NoRequest
    /\ pc' = "closed"
    /\ UNCHANGED <<sent, network, ringVars, rioRecvOffset, transferred, restSize,
                   packetError, received>>

-----------------------------------------------------------------------------
(* RecvCompleted.                                                            *)

RecvCompleted ==
    /\ pc = "completed"
    /\ writePos' = (writePos + transferred) % RingSize
    /\ restSize' = Distance(readPos, writePos')
    /\ packetError' = FALSE
    /\ pc' = "parse"
    /\ UNCHANGED <<sent, network, ring, readPos, rioRecvOffset, request, transferred, received>>

(* The number of the packet whose header is next in the ring, 0 when the     *)
(* bytes are no header.                                                      *)
HeaderNumber ==
    LET k == ring[readPos][1]
    IN  IF Peek(0, HeaderSize) = [i \in 1 .. HeaderSize |-> <<k, i>>] THEN k ELSE 0

WrongCode == HeaderNumber = 0 \/ ~sent[HeaderNumber].code

(* Mutant: the packet is not checked for being complete.                     *)
GetPayloadLength_Unchecked == IF WrongCode THEN 0 ELSE sent[HeaderNumber].payload

(* Mutant: one byte beyond the packet must be there.                         *)
GetPayloadLength_OffByOne ==
    IF WrongCode \/ restSize <= sent[HeaderNumber].payload + HeaderSize
    THEN 0 ELSE sent[HeaderNumber].payload

(* 0 for a wrong code and for a packet that is not complete.                 *)
GetPayloadLength ==
    IF WrongCode \/ restSize < sent[HeaderNumber].payload + HeaderSize
    THEN 0 ELSE sent[HeaderNumber].payload

(* The payload in the ring is the one the client sent, and its checksum is   *)
(* right.                                                                    *)
Decode(k) ==
    LET p == sent[k]
    IN  /\ p.decodes
        /\ Peek(HeaderSize, p.payload) = SubSeq(PacketBytes(k, p), HeaderSize + 1, HeaderSize + p.payload)

HasPacket ==
    /\ pc = "parse" /\ restSize > HeaderSize
    /\ GetPayloadLength \in 1 .. DefaultSize

(* Mutant: the packet is looked at and stays in the ring.                    *)
TakeFromRing_PeekOnly == readPos' = readPos

(* Mutant: the read position runs past the end of the buffer.                *)
TakeFromRing_NoWrap == readPos' = readPos + HeaderSize + GetPayloadLength

(* RemoveData and Dequeue.                                                   *)
TakeFromRing ==
    readPos' = (readPos + HeaderSize + GetPayloadLength) % RingSize

TakePacket ==
    /\ HasPacket /\ Decode(HeaderNumber)
    /\ TakeFromRing
    /\ restSize' = restSize - (GetPayloadLength + HeaderSize)
    /\ received' = Append(received, HeaderNumber)
    /\ UNCHANGED <<sent, network, ring, writePos, rioRecvOffset, request, transferred,
                   packetError, pc>>

DecodeFails ==
    /\ HasPacket /\ ~Decode(HeaderNumber)
    /\ TakeFromRing
    /\ packetError' = TRUE
    /\ pc' = "post"
    /\ UNCHANGED <<sent, network, ring, writePos, rioRecvOffset, request, transferred,
                   restSize, received>>

PacketTooLong ==
    /\ pc = "parse" /\ restSize > HeaderSize
    /\ GetPayloadLength > DefaultSize
    /\ packetError' = TRUE
    /\ pc' = "post"
    /\ UNCHANGED <<sent, network, ringVars, rioRecvOffset, request, transferred, restSize,
                   received>>

NoMorePackets ==
    /\ pc = "parse"
    /\ restSize <= HeaderSize \/ GetPayloadLength = 0
    /\ pc' = "post"
    /\ UNCHANGED <<sent, network, ringVars, rioRecvOffset, request, transferred, restSize,
                   packetError, received>>

(* Mutant: the receive may take all the free cells of the ring.              *)
RecvLength_FreeSize == RingSize - 1 - UseSize

(* Length of the next receive, computed by RecvPost.                         *)
RecvLength == GetNotBrokenPutSize - GetNotBrokenGetSize

NextOffset == (rioRecvOffset + transferred) % OffsetMod

(* rioRecvOffset += transferred, then RecvPost; a negative Length converts   *)
(* to one far beyond the registered buffer, RIOReceive fails and the last    *)
(* I/O of the session ends.  A bad packet ends the session in any case.      *)
RecvPost ==
    /\ pc = "post"
    /\ rioRecvOffset' = NextOffset
    /\ transferred' = 0
    /\ request' = IF RecvLength < 0 THEN NoRequest
                  ELSE [offset |-> NextOffset % RingSize, length |-> RecvLength]
    /\ pc' = IF RecvLength < 0 \/ packetError THEN "closed" ELSE "idle"
    /\ UNCHANGED <<sent, network, ringVars, restSize, packetError, received>>

-----------------------------------------------------------------------------
Worker ==
    \/ RecvCompleted
    \/ TakePacket \/ DecodeFails \/ PacketTooLong \/ NoMorePackets
    \/ RecvPost

Kernel == (\E n \in 1 .. RingSize : Receive(n)) \/ ReceiveNothing

Done == pc = "closed" \/ (pc = "idle" /\ network = <<>>)
Finished == Done /\ Len(sent) = MaxPackets /\ UNCHANGED vars

Next == (\E p \in Packets : ClientSends(p)) \/ Worker \/ Kernel \/ Finished

Spec == Init /\ [][Next]_vars

(* The worker keeps polling, and what arrived is put into a posted receive.  *)
FairSpec == Spec /\ WF_vars(Worker) /\ WF_vars(Kernel)

-----------------------------------------------------------------------------
(* The cells that hold bytes not yet taken by RecvCompleted.                 *)
Unread == {(readPos + i) % RingSize : i \in 0 .. UseSize - 1}

(* A posted receive lies inside the registered buffer and on no byte that is *)
(* still to be read, though Offset and Length come from two different counts *)
(* (RecvPost, rioRecvOffset).                                                *)
ReceiveLeavesUnread ==
    pc = "idle" /\ request.length > 0 =>
        LET cells == request.offset .. request.offset + request.length - 1
        IN  cells \subseteq 0 .. RingSize - 1 /\ cells \cap Unread = {}

(* OnRecvPacket sees the packets of the client, each once and in the order   *)
(* of sending, however the stream was cut and wherever the ring wrapped.     *)
PacketsInOrder ==
    /\ Len(received) <= Len(sent)
    /\ \A i \in 1 .. Len(received) : received[i] = i /\ sent[i].code /\ sent[i].decodes

(* The session is ended for a bad packet only when the client sent one       *)
(* (RecvCompleted).                                                          *)
ErrorIsClients ==
    packetError => \E i \in 1 .. Len(sent) :
                       sent[i].code /\ (~sent[i].decodes \/ sent[i].payload > DefaultSize)

(* RecvCompleted neither takes nor refuses a packet with a wrong code or     *)
(* without payload: it breaks off and posts the next receive, and the packet *)
(* and all that follow stay in the ring of the open session.                 *)
Blocks(i) == ~sent[i].code \/ sent[i].payload = 0

(* Every packet in front of the first that blocks the ring is handed to      *)
(* OnRecvPacket, or the session ends: no cut of the stream, no wrap of the   *)
(* ring and no Length of a receive leaves one behind (RecvCompleted,         *)
(* RecvPost).                                                                *)
NeverStuck ==
    \A k \in 1 .. MaxPackets :
        Len(sent) >= k ~> \/ Len(received) >= k \/ pc = "closed"
                          \/ \E i \in DOMAIN sent : i <= k /\ Blocks(i)
=============================================================================
