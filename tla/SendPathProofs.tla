--------------------------- MODULE SendPathProofs ---------------------------
(* The send buffer of a session has one user at a time, and no packet is     *)
(* lost or reordered on its way through queue, reserved packet and buffer.   *)
EXTENDS SendPath, FiniteSetTheorems, SequenceTheorems, TLAPS

Owns(t) == pc[t] \in OwnerPCs

(* ioMode is taken exactly while somebody uses the buffer, or for ever after *)
(* a failed send; the users exclude each other.                              *)
OwnerInv ==
    /\ \A t \in Senders : Owns(t) => ioMode /\ posted = <<>> /\ completed = 0
    /\ \A t, u \in Senders : Owns(t) /\ Owns(u) => t = u
    /\ posted # <<>> => ioMode /\ completed = 0 /\ Len(posted) = 1
    /\ completed > 0 => ioMode /\ completed = 1

(* The loop of MakeSendStream dequeues what was there when it started.       *)
LoopInv ==
    /\ \A t \in Senders : pc[t] = "copy" => bufferCount[t] <= Len(sendQueue) /\ reservedBuffer = NoPacket
    /\ \A t \in Senders : pc[t] = "enqueue" => packet[t] \in Packets

IInv == TypeOK /\ OwnerInv /\ LoopInv /\ NothingLost
-----------------------------------------------------------------------------
(* The initial states have the right types.                                  *)
LEMMA TypeInit == Init => TypeOK
<1> SUFFICES ASSUME Init PROVE TypeOK
  OBVIOUS
<1>1. pc \in [Senders -> PCs]
  BY DEF Init, PCs
<1>2. /\ packet \in [Senders -> Packets \cup {NoPacket}] /\ bufferCount \in [Senders -> Nat]
      /\ totalSendSize \in [Senders -> Nat]
  BY DEF Init
<1>3. /\ ioMode \in BOOLEAN /\ sendDisconnect \in BOOLEAN
      /\ connected \in BOOLEAN /\ staleBytes \in BOOLEAN /\ crashed \in BOOLEAN
  BY DEF Init
<1> QED
  BY <1>1, <1>2, <1>3 DEF Init, TypeOK

(* Every step preserves the types.                                           *)
LEMMA TypeStep == TypeOK /\ LoopInv /\ [Next]_vars => TypeOK'
<1> SUFFICES ASSUME TypeOK, LoopInv, [Next]_vars PROVE TypeOK'
  OBVIOUS
<1>p. /\ "idle" \in PCs /\ "enqueue" \in PCs /\ "claim" \in PCs /\ "recheck" \in PCs
      /\ "sendDone" \in PCs /\ "check" \in PCs /\ "release" \in PCs /\ "make" \in PCs
      /\ "copy" \in PCs /\ "post" \in PCs
  BY DEF PCs, OwnerPCs
<1>w. Worker \in Senders /\ Callers \subseteq Senders
  BY DEF Senders
<1> USE <1>p, <1>w, SizeAssumption DEF bufferVars, kernelVars, localVars, Goto, TypeOK
<1>1. ASSUME NEW t \in Senders, NEW p \in Packets, SendPacket(t, p) PROVE TypeOK'
  BY <1>1 DEF SendPacket
<1>2. ASSUME NEW t \in Senders, Enqueue(t) PROVE TypeOK'
  <2>1. packet[t] \in Packets
    BY <1>2 DEF Enqueue, LoopInv
  <2> QED
    BY <1>2, <2>1 DEF Enqueue
<1>3. ASSUME NEW t \in Senders, Claim(t) PROVE TypeOK'
  BY <1>3 DEF Claim
<1>4. ASSUME NEW t \in Senders, Check(t) PROVE TypeOK'
  BY <1>4 DEF Check
<1>5. ASSUME NEW t \in Senders, ReleaseClaim(t) PROVE TypeOK'
  BY <1>5 DEF ReleaseClaim
<1>6. ASSUME NEW t \in Senders, Recheck(t) PROVE TypeOK'
  BY <1>6 DEF Recheck
<1>7. ASSUME NEW t \in Senders, MakeSendStream(t) PROVE TypeOK'
  <2>1. rioSendBuffer' \in Seq(Packets) /\ copiedSize' \in Nat
    BY <1>7 DEF MakeSendStream
  <2> QED
    BY <1>7, <2>1 DEF MakeSendStream
<1>8. ASSUME NEW t \in Senders, Dequeue(t)
      PROVE  /\ Head(sendQueue) \in Packets /\ sendQueue' \in Seq(Packets)
             /\ bufferCount' \in [Senders -> Nat]
  <2>1. sendQueue # <<>>
    BY <1>8 DEF Dequeue, LoopInv
  <2>2. Head(sendQueue) \in Packets /\ Tail(sendQueue) \in Seq(Packets)
    BY <2>1
  <2>3. bufferCount[t] - 1 \in Nat
    BY <1>8 DEF Dequeue
  <2> QED
    BY <1>8, <2>2, <2>3 DEF Dequeue
<1>9. ASSUME NEW t \in Senders, RefusePacket(t) PROVE TypeOK'
  <2>1. sendQueue' \in Seq(Packets) /\ bufferCount' \in [Senders -> Nat]
    BY <1>8, <1>9 DEF RefusePacket
  <2> QED
    BY <1>9, <2>1 DEF RefusePacket
<1>10. ASSUME NEW t \in Senders, ReservePacket(t) PROVE TypeOK'
  <2>1. /\ Head(sendQueue) \in Packets /\ sendQueue' \in Seq(Packets)
        /\ bufferCount' \in [Senders -> Nat]
    BY <1>8, <1>10 DEF ReservePacket
  <2>2. totalSendSize[t] + Size[Head(sendQueue)] \in Nat
    <3>1. totalSendSize[t] \in Nat
      OBVIOUS
    <3>2. Size[Head(sendQueue)] \in Nat
      BY <2>1
    <3> QED
      BY <3>1, <3>2, SMTT(30)
  <2>3. totalSendSize' \in [Senders -> Nat] /\ pc' \in [Senders -> PCs]
    BY <1>10, <2>2 DEF ReservePacket
  <2> QED
    BY <1>10, <2>1, <2>3 DEF ReservePacket
<1>11. ASSUME NEW t \in Senders, CopyPacket(t) PROVE TypeOK'
  <2>1. /\ Head(sendQueue) \in Packets /\ sendQueue' \in Seq(Packets)
        /\ bufferCount' \in [Senders -> Nat]
    BY <1>8, <1>11 DEF CopyPacket
  <2>2. crashed' \in BOOLEAN
    BY <1>11 DEF CopyPacket, MemcpyTraps
  <2>3. rioSendBuffer' \in Seq(Packets)
    BY <1>11, <2>1 DEF CopyPacket
  <2>4. totalSendSize[t] + Size[Head(sendQueue)] \in Nat
    <3>1. totalSendSize[t] \in Nat
      OBVIOUS
    <3>2. Size[Head(sendQueue)] \in Nat
      BY <2>1
    <3> QED
      BY <3>1, <3>2, SMTT(30)
  <2>6. copiedSize + Size[Head(sendQueue)] \in Nat
    <3>1. copiedSize \in Nat
      OBVIOUS
    <3>2. Size[Head(sendQueue)] \in Nat
      BY <2>1
    <3> HIDE DEF TypeOK
    <3> QED
      BY <3>1, <3>2
  <2>5. totalSendSize' \in [Senders -> Nat] /\ copiedSize' \in Nat
    BY <1>11, <2>4, <2>6 DEF CopyPacket
  <2> QED
    BY <1>11, <2>1, <2>2, <2>3, <2>5 DEF CopyPacket
<1>12. ASSUME NEW t \in Senders, StreamMade(t) PROVE TypeOK'
  BY <1>12 DEF StreamMade
<1>13. ASSUME NEW t \in Senders, RIOSend(t) PROVE TypeOK'
  BY <1>13 DEF RIOSend
<1>14. ASSUME NEW t \in Senders, RIOSendFails(t) PROVE TypeOK'
  BY <1>14 DEF RIOSendFails
<1>15. ASSUME Transmit PROVE TypeOK'
  <2>1. /\ Tail(posted) \in Seq(Nat) /\ transmitted \o rioSendBuffer \in Seq(Packets)
        /\ received' \in Seq(Packets)
    BY <1>15 DEF Transmit
  <2>2. staleBytes' \in BOOLEAN
    BY <1>15 DEF Transmit
  <2> QED
    BY <1>15, <2>1, <2>2, SMTT(30) DEF Transmit
<1>16. ASSUME TransmitFails PROVE TypeOK'
  BY <1>16 DEF TransmitFails
<1>17. ASSUME SendIOCompleted PROVE TypeOK'
  <2>1. completed \in Nat /\ completed > 0 /\ completed' = completed - 1
    BY <1>17 DEF SendIOCompleted
  <2>2. completed' \in Nat
    BY <2>1
  <2>3. ioMode' = FALSE /\ pc' = [pc EXCEPT ![Worker] = "sendDone"]
    BY <1>17 DEF SendIOCompleted
  <2>4. pc' \in [Senders -> PCs]
    BY <2>3
  <2> QED
    BY <1>17, <2>2, <2>3, <2>4 DEF SendIOCompleted
<1>18. ASSUME SendCompleted PROVE TypeOK'
  BY <1>18 DEF SendCompleted
<1>19. ASSUME UNCHANGED vars PROVE TypeOK'
  BY <1>19 DEF vars
<1> QED
  BY <1>1, <1>2, <1>3, <1>4, <1>5, <1>6, <1>7, <1>9, <1>10, <1>11, <1>12, <1>13, <1>14, <1>15,
     <1>16, <1>17, <1>18, <1>19
  DEF Next, SenderStep, WorkerStep, Kernel, Idle

(* Whoever uses the buffer has ioMode, and only one user has it.             *)
LEMMA OwnerStep == TypeOK /\ OwnerInv /\ [Next]_vars => OwnerInv'
<1> SUFFICES ASSUME TypeOK, OwnerInv, [Next]_vars PROVE OwnerInv'
  OBVIOUS
<1>y. /\ pc \in [Senders -> PCs] /\ Worker \in Senders /\ Callers \subseteq Senders
      /\ posted \in Seq(Nat) /\ completed \in Nat
  BY DEF TypeOK, Senders
<1> USE <1>y DEF bufferVars, kernelVars, localVars, Goto, OwnerInv, Owns, OwnerPCs
<1>1. ASSUME NEW t \in Senders, NEW p \in Packets, SendPacket(t, p) PROVE OwnerInv'
  BY <1>1 DEF SendPacket
<1>2. ASSUME NEW t \in Senders, Enqueue(t) PROVE OwnerInv'
  BY <1>2 DEF Enqueue
<1>3. ASSUME NEW t \in Senders, Claim(t) PROVE OwnerInv'
  BY <1>3 DEF Claim
<1>4. ASSUME NEW t \in Senders, Check(t) PROVE OwnerInv'
  BY <1>4 DEF Check
<1>5. ASSUME NEW t \in Senders, ReleaseClaim(t) PROVE OwnerInv'
  BY <1>5 DEF ReleaseClaim
<1>6. ASSUME NEW t \in Senders, Recheck(t) PROVE OwnerInv'
  BY <1>6 DEF Recheck
<1>7. ASSUME NEW t \in Senders, MakeSendStream(t) PROVE OwnerInv'
  BY <1>7 DEF MakeSendStream
<1>8. ASSUME NEW t \in Senders, RefusePacket(t) PROVE OwnerInv'
  BY <1>8 DEF RefusePacket, Dequeue
<1>9. ASSUME NEW t \in Senders, ReservePacket(t) PROVE OwnerInv'
  BY <1>9 DEF ReservePacket, Dequeue
<1>10. ASSUME NEW t \in Senders, CopyPacket(t) PROVE OwnerInv'
  BY <1>10 DEF CopyPacket, Dequeue
<1>11. ASSUME NEW t \in Senders, StreamMade(t) PROVE OwnerInv'
  BY <1>11 DEF StreamMade
<1>12. ASSUME NEW t \in Senders, RIOSend(t) PROVE OwnerInv'
  BY <1>12 DEF RIOSend
<1>13. ASSUME NEW t \in Senders, RIOSendFails(t) PROVE OwnerInv'
  BY <1>13 DEF RIOSendFails
<1>14. ASSUME Transmit PROVE OwnerInv'
  BY <1>14, SMTT(30) DEF Transmit
<1>15. ASSUME TransmitFails PROVE OwnerInv'
  BY <1>15 DEF TransmitFails
<1>16. ASSUME SendIOCompleted PROVE OwnerInv'
  BY <1>16 DEF SendIOCompleted
<1>17. ASSUME SendCompleted PROVE OwnerInv'
  BY <1>17 DEF SendCompleted
<1>18. ASSUME UNCHANGED vars PROVE OwnerInv'
  BY <1>18 DEF vars
<1> QED
  BY <1>1, <1>2, <1>3, <1>4, <1>5, <1>6, <1>7, <1>8, <1>9, <1>10, <1>11, <1>12, <1>13,
     <1>14, <1>15, <1>16, <1>17, <1>18
  DEF Next, SenderStep, WorkerStep, Kernel, Idle

(* The snapshot of the queue's length stays valid: only the owner dequeues.  *)
LEMMA LoopStep == TypeOK /\ OwnerInv /\ LoopInv /\ [Next]_vars => LoopInv'
<1> SUFFICES ASSUME TypeOK, OwnerInv, LoopInv, [Next]_vars PROVE LoopInv'
  OBVIOUS
<1>y. /\ pc \in [Senders -> PCs] /\ Worker \in Senders /\ Callers \subseteq Senders
      /\ sendQueue \in Seq(Packets) /\ bufferCount \in [Senders -> Nat]
      /\ packet \in [Senders -> Packets \cup {NoPacket}]
  BY DEF TypeOK, Senders
<1> USE <1>y DEF bufferVars, kernelVars, localVars, Goto, OwnerInv, Owns, OwnerPCs, LoopInv
<1>1. ASSUME NEW t \in Senders, NEW p \in Packets, SendPacket(t, p) PROVE LoopInv'
  BY <1>1 DEF SendPacket
<1>2. ASSUME NEW t \in Senders, Enqueue(t) PROVE LoopInv'
  BY <1>2 DEF Enqueue
<1>3. ASSUME NEW t \in Senders, Claim(t) PROVE LoopInv'
  BY <1>3 DEF Claim
<1>4. ASSUME NEW t \in Senders, Check(t) PROVE LoopInv'
  BY <1>4 DEF Check
<1>5. ASSUME NEW t \in Senders, ReleaseClaim(t) PROVE LoopInv'
  BY <1>5 DEF ReleaseClaim
<1>6. ASSUME NEW t \in Senders, Recheck(t) PROVE LoopInv'
  BY <1>6 DEF Recheck
<1>7. ASSUME NEW t \in Senders, MakeSendStream(t) PROVE LoopInv'
  BY <1>7 DEF MakeSendStream
<1>8. ASSUME NEW t \in Senders, RefusePacket(t) PROVE LoopInv'
  BY <1>8 DEF RefusePacket, Dequeue
<1>9. ASSUME NEW t \in Senders, ReservePacket(t) PROVE LoopInv'
  BY <1>9 DEF ReservePacket, Dequeue
<1>10. ASSUME NEW t \in Senders, CopyPacket(t) PROVE LoopInv'
  BY <1>10 DEF CopyPacket, Dequeue
<1>11. ASSUME NEW t \in Senders, StreamMade(t) PROVE LoopInv'
  BY <1>11 DEF StreamMade
<1>12. ASSUME NEW t \in Senders, RIOSend(t) PROVE LoopInv'
  BY <1>12 DEF RIOSend
<1>13. ASSUME NEW t \in Senders, RIOSendFails(t) PROVE LoopInv'
  BY <1>13 DEF RIOSendFails
<1>14. ASSUME Transmit PROVE LoopInv'
  BY <1>14 DEF Transmit
<1>15. ASSUME TransmitFails PROVE LoopInv'
  BY <1>15 DEF TransmitFails
<1>16. ASSUME SendIOCompleted PROVE LoopInv'
  BY <1>16 DEF SendIOCompleted
<1>17. ASSUME SendCompleted PROVE LoopInv'
  BY <1>17 DEF SendCompleted
<1>18. ASSUME UNCHANGED vars PROVE LoopInv'
  BY <1>18 DEF vars
<1> QED
  BY <1>1, <1>2, <1>3, <1>4, <1>5, <1>6, <1>7, <1>8, <1>9, <1>10, <1>11, <1>12, <1>13,
     <1>14, <1>15, <1>16, <1>17, <1>18
  DEF Next, SenderStep, WorkerStep, Kernel, Idle

(* Appending to the end of a concatenation.                                  *)
LEMMA AppendLast ==
    \A a, q \in Seq(Packets) : \A x \in Packets : Append(a \o q, x) = a \o Append(q, x)
OBVIOUS

(* Moving the head of a queue to the end of what is before it.               *)
LEMMA ShiftHead ==
    ASSUME NEW S, NEW a \in Seq(S), NEW q \in Seq(S), q # <<>>
    PROVE  Append(a, Head(q)) \o Tail(q) = a \o q
<1>1. Head(q) \in S /\ Tail(q) \in Seq(S)
  OBVIOUS
<1>2. Append(a, Head(q)) \o Tail(q) \in Seq(S) /\ a \o q \in Seq(S)
  BY <1>1
<1>3. Len(Append(a, Head(q)) \o Tail(q)) = Len(a \o q)
  BY <1>1
<1>4. \A i \in 1 .. Len(a \o q) : (Append(a, Head(q)) \o Tail(q))[i] = (a \o q)[i]
  BY <1>1
<1> QED
  BY <1>2, <1>3, <1>4, SeqEqual

(* The empty sequence is neutral.                                            *)
LEMMA EmptyLast ==
    ASSUME NEW S, NEW a \in Seq(S)
    PROVE  a \o <<>> = a /\ <<>> \o a = a
OBVIOUS

(* A step that moves no packet keeps NothingLost.                            *)
LEMMA LostFrame ==
    ASSUME NothingLost, UNCHANGED <<accepted, transmitted, reservedBuffer, sendQueue, crashed>>,
           Stream' = Stream
    PROVE  NothingLost'
BY DEF NothingLost, Reserved

(* No step loses, duplicates or reorders a packet.                           *)
LEMMA LostStep == IInv /\ ~crashed /\ [Next]_vars => NothingLost'
<1> SUFFICES ASSUME IInv, ~crashed, [Next]_vars PROVE NothingLost'
  OBVIOUS
<1> DEFINE Before == (transmitted \o Stream) \o Reserved
<1>y. TypeOK /\ OwnerInv /\ LoopInv /\ NothingLost
  BY DEF IInv
<1>c. ~crashed
  OBVIOUS
<1>x. /\ pc \in [Senders -> PCs] /\ Worker \in Senders /\ Callers \subseteq Senders
      /\ posted \in Seq(Nat) /\ completed \in Nat
      /\ bufferCount \in [Senders -> Nat]
  BY <1>y DEF TypeOK, Senders
<1>z. /\ transmitted \in Seq(Packets) /\ Stream \in Seq(Packets) /\ Reserved \in Seq(Packets)
      /\ sendQueue \in Seq(Packets) /\ rioSendBuffer \in Seq(Packets)
      /\ Before \in Seq(Packets) /\ transmitted \o Stream \in Seq(Packets)
      /\ transmitted \o rioSendBuffer \in Seq(Packets) /\ transmitted \o Reserved \in Seq(Packets)
  BY <1>y DEF TypeOK, Stream, Reserved
<1> USE <1>y, <1>x
    DEF bufferVars, kernelVars, localVars, Goto, OwnerInv, Owns, OwnerPCs, Stream, Failed
<1>1. ASSUME NEW t \in Senders, NEW p \in Packets, SendPacket(t, p) PROVE NothingLost'
  <2>1. Stream' = Stream
    BY <1>1 DEF SendPacket
  <2> QED
    BY <1>1, <2>1, LostFrame DEF SendPacket
<1>2. ASSUME NEW t \in Senders, Enqueue(t) PROVE NothingLost'
  <2>1. Stream' = Stream /\ Reserved' = Reserved
    BY <1>2 DEF Enqueue, Reserved
  <2>2. packet[t] \in Packets
    BY <1>2 DEF Enqueue, LoopInv
  <2>3. Append(Before \o sendQueue, packet[t]) = Before \o Append(sendQueue, packet[t])
    <3>1. Before \in Seq(Packets) /\ sendQueue \in Seq(Packets)
      BY <1>z
    <3> HIDE DEF Before
    <3> QED
      BY <3>1, <2>2, AppendLast, ZenonT(30)
  <2> QED
    BY <1>2, <2>1, <2>3 DEF Enqueue, NothingLost
<1>3. ASSUME NEW t \in Senders, Claim(t) PROVE NothingLost'
  <2>1. Stream' = Stream
    BY <1>3 DEF Claim
  <2> QED
    BY <1>3, <2>1, LostFrame DEF Claim
<1>4. ASSUME NEW t \in Senders, Check(t) PROVE NothingLost'
  <2>1. Stream' = Stream
    BY <1>4 DEF Check
  <2> QED
    BY <1>4, <2>1, LostFrame DEF Check
<1>5. ASSUME NEW t \in Senders, ReleaseClaim(t) PROVE NothingLost'
  <2>1. Stream' = Stream
    BY <1>5 DEF ReleaseClaim
  <2> QED
    BY <1>5, <2>1, LostFrame DEF ReleaseClaim
<1>6. ASSUME NEW t \in Senders, Recheck(t) PROVE NothingLost'
  <2>1. Stream' = Stream
    BY <1>6 DEF Recheck
  <2> QED
    BY <1>6, <2>1, LostFrame DEF Recheck
<1>7. ASSUME NEW t \in Senders, MakeSendStream(t) PROVE NothingLost'
  <2>1. Stream = <<>> /\ Stream' = Reserved /\ Reserved' = <<>>
    BY <1>7 DEF MakeSendStream, Reserved
  <2>2. /\ transmitted \o <<>> = transmitted
        /\ (transmitted \o Reserved) \o <<>> = transmitted \o Reserved
    BY <1>z, EmptyLast
  <2>3. UNCHANGED <<accepted, transmitted, sendQueue, crashed>>
    BY <1>7 DEF MakeSendStream
  <2> QED
    BY <2>1, <2>2, <2>3 DEF NothingLost
<1>8. ASSUME NEW t \in Senders, RefusePacket(t) PROVE NothingLost'
  BY <1>8 DEF RefusePacket, NothingLost
<1>9. ASSUME NEW t \in Senders, ReservePacket(t) PROVE NothingLost'
  <2>1. sendQueue # <<>> /\ reservedBuffer = NoPacket
    BY <1>9, <1>z DEF ReservePacket, Dequeue, LoopInv
  <2>2. PICK x \in Packets : x = Head(sendQueue)
    BY <2>1, <1>z
  <2>3. Stream' = Stream /\ Reserved = <<>> /\ Reserved' = <<x>> /\ sendQueue' = Tail(sendQueue)
    BY <1>9, <2>1, <2>2, SizeAssumption DEF ReservePacket, Dequeue, Reserved
  <2>4. (transmitted \o Stream) \o <<>> = transmitted \o Stream
    BY <1>z, EmptyLast
  <2>5. (transmitted \o Stream) \o <<x>> = Append(transmitted \o Stream, x)
    BY <1>z
  <2>6. Append(transmitted \o Stream, x) \o Tail(sendQueue) = (transmitted \o Stream) \o sendQueue
    BY <1>z, <2>1, <2>2, ShiftHead, ZenonT(30)
  <2>7. UNCHANGED <<accepted, transmitted, crashed>>
    BY <1>9 DEF ReservePacket
  <2> HIDE DEF Stream
  <2> QED
    BY <2>3, <2>4, <2>5, <2>6, <2>7 DEF NothingLost
<1>10. ASSUME NEW t \in Senders, CopyPacket(t) PROVE NothingLost'
  <2>1. sendQueue # <<>> /\ reservedBuffer = NoPacket
    BY <1>10, <1>z DEF CopyPacket, Dequeue, LoopInv
  <2>2. PICK x \in Packets : x = Head(sendQueue)
    BY <2>1, <1>z
  <2>3. /\ Stream = rioSendBuffer /\ Stream' = Append(rioSendBuffer, x)
        /\ sendQueue' = Tail(sendQueue)
    BY <1>10, <2>2 DEF CopyPacket, Dequeue
  <2>4. Reserved = <<>> /\ Reserved' = <<>>
    BY <1>10, <2>1 DEF CopyPacket, Reserved
  <2>5. UNCHANGED <<accepted, transmitted>>
    BY <1>10 DEF CopyPacket
  <2> HIDE DEF Stream, Reserved
  <2>6. transmitted \o Append(rioSendBuffer, x) = Append(transmitted \o rioSendBuffer, x)
    <3>1. x \in Packets /\ transmitted \in Seq(Packets) /\ rioSendBuffer \in Seq(Packets)
      BY <1>z, <2>2
    <3>2. Append(transmitted \o rioSendBuffer, x) = transmitted \o Append(rioSendBuffer, x)
      BY <3>1, AppendLast, Zenon
    <3> QED
      BY <3>2, Zenon
  <2>7. (transmitted \o rioSendBuffer) \o <<>> = transmitted \o rioSendBuffer
    BY <1>z, EmptyLast
  <2>8. Append(transmitted \o rioSendBuffer, x) \o <<>> = Append(transmitted \o rioSendBuffer, x)
    BY <1>z, EmptyLast
  <2>9. Append(transmitted \o rioSendBuffer, x) \o Tail(sendQueue)
           = (transmitted \o rioSendBuffer) \o sendQueue
    BY <1>z, <2>1, <2>2, ShiftHead
  <2> QED
    BY <1>c, <2>3, <2>4, <2>5, <2>6, <2>7, <2>8, <2>9 DEF NothingLost
<1>11. ASSUME NEW t \in Senders, StreamMade(t) PROVE NothingLost'
  <2>1. Stream' = Stream
    BY <1>11 DEF StreamMade
  <2> QED
    BY <1>11, <2>1, LostFrame DEF StreamMade
<1>12. ASSUME NEW t \in Senders, RIOSend(t) PROVE NothingLost'
  <2>1. Stream' = Stream
    BY <1>12 DEF RIOSend
  <2> QED
    BY <1>12, <2>1, LostFrame DEF RIOSend
<1>13. ASSUME NEW t \in Senders, RIOSendFails(t) PROVE NothingLost'
  <2>1. Stream' = Stream
    BY <1>13 DEF RIOSendFails
  <2> QED
    BY <1>13, <2>1, LostFrame DEF RIOSendFails
<1>14. ASSUME Transmit PROVE NothingLost'
  <2>a. /\ Reserved' = Reserved /\ transmitted' = transmitted \o rioSendBuffer
        /\ UNCHANGED <<accepted, sendQueue, crashed>>
    BY <1>14 DEF Transmit, Reserved
  <2>b. posted # <<>> /\ posted' = Tail(posted) /\ completed' = completed + 1 /\ pc' = pc
    BY <1>14 DEF Transmit
  <2>1. Stream = rioSendBuffer /\ Stream' = <<>>
    BY <2>b
  <2>2. (transmitted \o rioSendBuffer) \o <<>> = transmitted \o rioSendBuffer
    BY <1>z, EmptyLast
  <2> HIDE DEF Stream
  <2> QED
    BY <2>a, <2>1, <2>2 DEF NothingLost
<1>15. ASSUME TransmitFails PROVE NothingLost'
  <2>1. Stream' = Stream
    BY <1>15 DEF TransmitFails
  <2> QED
    BY <1>15, <2>1, LostFrame DEF TransmitFails
<1>16. ASSUME SendIOCompleted PROVE NothingLost'
  <2>1. Stream' = Stream
    BY <1>16 DEF SendIOCompleted
  <2> QED
    BY <1>16, <2>1, LostFrame DEF SendIOCompleted
<1>17. ASSUME SendCompleted PROVE NothingLost'
  <2>1. Stream' = Stream
    BY <1>17 DEF SendCompleted
  <2> QED
    BY <1>17, <2>1, LostFrame DEF SendCompleted
<1>18. ASSUME UNCHANGED vars PROVE NothingLost'
  <2>1. Stream' = Stream
    BY <1>18 DEF vars
  <2> QED
    BY <1>18, <2>1, LostFrame DEF vars
<1> QED
  BY <1>1, <1>2, <1>3, <1>4, <1>5, <1>6, <1>7, <1>8, <1>9, <1>10, <1>11, <1>12, <1>13,
     <1>14, <1>15, <1>16, <1>17, <1>18
  DEF Next, SenderStep, WorkerStep, Kernel, Idle

(* After a crash nothing moves.                                              *)
LEMMA CrashStep == crashed /\ NothingLost /\ [Next]_vars => NothingLost'
BY DEF Next, Idle, vars, bufferVars, kernelVars, localVars, NothingLost, Stream, Failed,
       Reserved

(* The initial states satisfy the inductive invariant.                       *)
LEMMA InitInv == Init => IInv
<1> SUFFICES ASSUME Init PROVE IInv
  OBVIOUS
<1>1. TypeOK
  BY TypeInit
<1>2. OwnerInv /\ LoopInv
  BY DEF Init, OwnerInv, LoopInv, Owns, OwnerPCs
<1>3. Stream = <<>> /\ Reserved = <<>>
  BY DEF Init, Stream, Failed, Reserved
<1>4. NothingLost
  BY <1>3 DEF Init, NothingLost
<1> QED
  BY <1>1, <1>2, <1>4 DEF IInv

(* Every step preserves the inductive invariant.                             *)
LEMMA StepInv == IInv /\ [Next]_vars => IInv'
<1> SUFFICES ASSUME IInv, [Next]_vars PROVE IInv'
  OBVIOUS
<1>1. TypeOK' /\ OwnerInv' /\ LoopInv'
  BY TypeStep, OwnerStep, LoopStep DEF IInv
<1>2. NothingLost'
  BY LostStep, CrashStep DEF IInv
<1> QED
  BY <1>1, <1>2 DEF IInv

(* Every behaviour of the send path satisfies the inductive invariant.       *)
LEMMA AlwaysInv == Spec => []IInv
BY InitInv, StepInv, PTL DEF Spec

(* The send buffer has one user at a time, for any number of threads and     *)
(* packets: the exchange on SendItem::ioMode is a lock that the owner hands  *)
(* over to the kernel with RIOSend and the worker gives back.                *)
THEOREM BufferExclusive == Spec => []SendExclusive
<1>1. IInv => SendExclusive
  <2> SUFFICES ASSUME IInv PROVE SendExclusive
    OBVIOUS
  <2> DEFINE Owners == {t \in Senders : pc[t] \in OwnerPCs}
  <2>1. OwnerInv /\ posted \in Seq(Nat) /\ completed \in Nat
    BY DEF IInv, TypeOK
  <2>2. CASE Owners = {}
    <3>1. Cardinality(Owners) = 0
      BY <2>2, FS_EmptySet
    <3>2. Len(posted) + completed <= 1
      <4>1. CASE posted = <<>>
        BY <2>1, <4>1 DEF OwnerInv
      <4>2. CASE posted # <<>>
        <5>1. Len(posted) = 1 /\ completed = 0
          BY <2>1, <4>2 DEF OwnerInv
        <5> QED
          BY <5>1
      <4> QED
        BY <4>1, <4>2
    <3> QED
      BY <3>1, <3>2, <2>1 DEF SendExclusive
  <2>3. ASSUME NEW t \in Owners PROVE SendExclusive
    <3>1. Owners = {t}
      BY <2>1, <2>3 DEF OwnerInv, Owns
    <3>2. Cardinality(Owners) = 1
      BY <3>1, FS_Singleton
    <3>3. Len(posted) = 0 /\ completed = 0
      BY <2>1, <2>3 DEF OwnerInv, Owns
    <3> QED
      BY <3>2, <3>3 DEF SendExclusive
  <2> QED
    BY <2>2, <2>3
<1> QED
  BY <1>1, AlwaysInv, PTL

(* Until the process ends, the packets accepted are those transmitted, those *)
(* in the buffer of the send under way, the reserved one and those queued,   *)
(* in this order: none is lost, duplicated or overtaken.                     *)
THEOREM NothingIsLost == Spec => []NothingLost
<1>1. IInv => NothingLost
  BY DEF IInv
<1> QED
  BY <1>1, AlwaysInv, PTL

-----------------------------------------------------------------------------
(* What MakeSendStream returns: the bytes copied and the packet put aside,   *)
(* which together reach the size of the buffer.                              *)
Total(n) ==
    IF reservedBuffer = NoPacket
    THEN n = copiedSize
    ELSE n = copiedSize + Size[reservedBuffer] /\ n >= MAX_SEND_BUFFER_SIZE

LengthInv ==
    /\ \A t \in Senders : pc[t] = "copy" => totalSendSize[t] = copiedSize
    /\ \A t \in Senders : pc[t] = "post" => Total(totalSendSize[t])
    /\ LengthIsCopied

(* The owner of the buffer counts what it copies.                            *)
LEMMA LengthStep == IInv /\ LengthInv /\ [Next]_vars => LengthInv'
<1> SUFFICES ASSUME IInv, LengthInv, [Next]_vars PROVE LengthInv'
  OBVIOUS
<1>i. TypeOK /\ OwnerInv /\ LoopInv
  BY DEF IInv
<1>y. /\ pc \in [Senders -> PCs] /\ Worker \in Senders /\ Callers \subseteq Senders
      /\ posted \in Seq(Nat) /\ copiedSize \in Nat /\ totalSendSize \in [Senders -> Nat]
      /\ completed \in Nat
  BY <1>i DEF TypeOK, Senders
<1>o. /\ \A t \in Senders : Owns(t) => posted = <<>>
      /\ \A t, u \in Senders : Owns(t) /\ Owns(u) => t = u
  BY <1>i DEF OwnerInv
<1>h. ASSUME NEW t \in Senders, Dequeue(t)
      PROVE  Head(sendQueue) \in Packets /\ Size[Head(sendQueue)] \in Nat
  <2>1. sendQueue # <<>> /\ sendQueue \in Seq(Packets)
    BY <1>h, <1>i DEF Dequeue, LoopInv, TypeOK
  <2>2. Head(sendQueue) \in Packets
    BY <2>1
  <2> QED
    BY <2>2, SizeAssumption
<1> USE <1>y, <1>o
    DEF bufferVars, kernelVars, localVars, Goto, Owns, OwnerPCs, LengthInv, LengthIsCopied, Total
<1>1. ASSUME NEW t \in Senders, NEW p \in Packets, SendPacket(t, p) PROVE LengthInv'
  BY <1>1 DEF SendPacket
<1>2. ASSUME NEW t \in Senders, Enqueue(t) PROVE LengthInv'
  BY <1>2 DEF Enqueue
<1>3. ASSUME NEW t \in Senders, Claim(t) PROVE LengthInv'
  BY <1>3 DEF Claim
<1>4. ASSUME NEW t \in Senders, Check(t) PROVE LengthInv'
  BY <1>4 DEF Check
<1>5. ASSUME NEW t \in Senders, ReleaseClaim(t) PROVE LengthInv'
  BY <1>5 DEF ReleaseClaim
<1>6. ASSUME NEW t \in Senders, Recheck(t) PROVE LengthInv'
  BY <1>6 DEF Recheck
<1>7. ASSUME NEW t \in Senders, MakeSendStream(t) PROVE LengthInv'
  BY <1>7 DEF MakeSendStream
<1>8. ASSUME NEW t \in Senders, RefusePacket(t) PROVE LengthInv'
  BY <1>8 DEF RefusePacket, Dequeue
<1>9. ASSUME NEW t \in Senders, ReservePacket(t) PROVE LengthInv'
  <2>1. PICK x \in Packets : x = Head(sendQueue) /\ Size[x] \in Nat
    BY <1>9, <1>h DEF ReservePacket
  <2>2. /\ pc[t] = "copy" /\ pc' = [pc EXCEPT ![t] = "post"] /\ reservedBuffer' = x
        /\ totalSendSize' = [totalSendSize EXCEPT ![t] = @ + Size[x]]
        /\ totalSendSize[t] + Size[x] >= MAX_SEND_BUFFER_SIZE
        /\ UNCHANGED <<copiedSize, posted>>
    BY <1>9, <2>1 DEF ReservePacket, Dequeue
  <2>3. posted = <<>> /\ totalSendSize[t] = copiedSize /\ x # NoPacket
    BY <2>1, <2>2, SizeAssumption
  <2>4. Total(totalSendSize[t])'
    BY <2>1, <2>2, <2>3
  <2>5. \A u \in Senders \ {t} : pc'[u] \notin {"copy", "post"}
    BY <2>2
  <2> HIDE DEF Total
  <2> QED
    BY <2>2, <2>3, <2>4, <2>5
<1>10. ASSUME NEW t \in Senders, CopyPacket(t) PROVE LengthInv'
  BY <1>10, <1>h, <1>i DEF CopyPacket, Dequeue, LoopInv
<1>11. ASSUME NEW t \in Senders, StreamMade(t) PROVE LengthInv'
  BY <1>11, <1>i DEF StreamMade, LoopInv
<1>12. ASSUME NEW t \in Senders, RIOSend(t) PROVE LengthInv'
  <2>1. /\ pc[t] = "post" /\ pc' = [pc EXCEPT ![t] = "claim"] /\ posted = <<>>
        /\ posted' = Append(posted, totalSendSize[t])
        /\ totalSendSize[t] <= MAX_SEND_BUFFER_SIZE
        /\ UNCHANGED <<copiedSize, reservedBuffer, totalSendSize>>
    BY <1>12 DEF RIOSend
  <2>2. Total(totalSendSize[t])
    BY <2>1
  <2>3. Len(posted') = 1 /\ posted'[1] = totalSendSize[t]
    BY <2>1
  <2>4. reservedBuffer # NoPacket => totalSendSize[t] = MAX_SEND_BUFFER_SIZE
    BY <2>1, <2>2, SizeAssumption
  <2>5. LengthIsCopied'
    BY <2>1, <2>2, <2>3, <2>4
  <2>6. \A u \in Senders : pc'[u] \notin {"copy", "post"}
    BY <2>1
  <2> HIDE DEF LengthIsCopied
  <2> QED
    BY <2>5, <2>6
<1>13. ASSUME NEW t \in Senders, RIOSendFails(t) PROVE LengthInv'
  BY <1>13 DEF RIOSendFails
<1>14. ASSUME Transmit PROVE LengthInv'
  BY <1>14, <1>i DEF Transmit, OwnerInv
<1>15. ASSUME TransmitFails PROVE LengthInv'
  BY <1>15, <1>i DEF TransmitFails, OwnerInv
<1>16. ASSUME SendIOCompleted PROVE LengthInv'
  BY <1>16 DEF SendIOCompleted
<1>17. ASSUME SendCompleted PROVE LengthInv'
  BY <1>17 DEF SendCompleted
<1>18. ASSUME UNCHANGED vars PROVE LengthInv'
  BY <1>18 DEF vars
<1> QED
  BY <1>1, <1>2, <1>3, <1>4, <1>5, <1>6, <1>7, <1>8, <1>9, <1>10, <1>11, <1>12, <1>13,
     <1>14, <1>15, <1>16, <1>17, <1>18
  DEF Next, SenderStep, WorkerStep, Kernel, Idle

(* A send request is as long as the packets copied for it, except when a     *)
(* packet put aside would have filled the buffer to the last byte.           *)
THEOREM LengthExact == Spec => []LengthIsCopied
<1>1. Init => LengthInv
  BY DEF Init, LengthInv, LengthIsCopied
<1>2. LengthInv => LengthIsCopied
  BY DEF LengthInv
<1> QED
  BY <1>1, <1>2, LengthStep, AlwaysInv, PTL DEF Spec

-----------------------------------------------------------------------------
(* While ioMode is free, a packet that waits has a thread that is going to   *)
(* claim it: the reserved one its completion, a queued one also the thread   *)
(* that gave ioMode back and looks again.                                    *)
WakeInv ==
    /\ \A t \in Senders : pc[t] = "release" => reservedBuffer = NoPacket
    /\ connected /\ ~ioMode /\ reservedBuffer # NoPacket =>
          \E t \in Senders : pc[t] \in {"sendDone", "claim"}
    /\ connected /\ ~ioMode /\ sendQueue # <<>> =>
          \E t \in Senders : pc[t] \in {"sendDone", "claim", "recheck"}

(* No thread turns away from SendPost while a packet waits for nobody.       *)
LEMMA WakeStep == IInv /\ WakeInv /\ [Next]_vars => WakeInv'
<1> SUFFICES ASSUME IInv, WakeInv, [Next]_vars PROVE WakeInv'
  OBVIOUS
<1>i. TypeOK /\ OwnerInv /\ LoopInv
  BY DEF IInv
<1>y. /\ pc \in [Senders -> PCs] /\ Worker \in Senders /\ Callers \subseteq Senders
      /\ ioMode \in BOOLEAN /\ connected \in BOOLEAN /\ sendDisconnect \in BOOLEAN
  BY <1>i DEF TypeOK, Senders
<1> USE <1>y DEF bufferVars, kernelVars, localVars, Goto, WakeInv
<1>1. ASSUME NEW t \in Senders, NEW p \in Packets, SendPacket(t, p) PROVE WakeInv'
  BY <1>1, <1>i DEF SendPacket, OwnerInv, Owns, OwnerPCs
<1>2. ASSUME NEW t \in Senders, Enqueue(t) PROVE WakeInv'
  BY <1>2, <1>i DEF Enqueue, OwnerInv, Owns, OwnerPCs
<1>3. ASSUME NEW t \in Senders, Claim(t) PROVE WakeInv'
  BY <1>3, <1>i DEF Claim, OwnerInv, Owns, OwnerPCs
<1>4. ASSUME NEW t \in Senders, Check(t) PROVE WakeInv'
  BY <1>4, <1>i DEF Check, OwnerInv, Owns, OwnerPCs
<1>5. ASSUME NEW t \in Senders, ReleaseClaim(t) PROVE WakeInv'
  BY <1>5, <1>i DEF ReleaseClaim, OwnerInv, Owns, OwnerPCs
<1>6. ASSUME NEW t \in Senders, Recheck(t) PROVE WakeInv'
  BY <1>6, <1>i DEF Recheck, OwnerInv, Owns, OwnerPCs
<1>7. ASSUME NEW t \in Senders, MakeSendStream(t) PROVE WakeInv'
  BY <1>7, <1>i DEF MakeSendStream, OwnerInv, Owns, OwnerPCs
<1>8. ASSUME NEW t \in Senders, RefusePacket(t) PROVE WakeInv'
  BY <1>8, <1>i DEF RefusePacket, Dequeue, OwnerInv, Owns, OwnerPCs
<1>9. ASSUME NEW t \in Senders, ReservePacket(t) PROVE WakeInv'
  BY <1>9, <1>i DEF ReservePacket, Dequeue, OwnerInv, Owns, OwnerPCs
<1>10. ASSUME NEW t \in Senders, CopyPacket(t) PROVE WakeInv'
  BY <1>10, <1>i DEF CopyPacket, Dequeue, OwnerInv, Owns, OwnerPCs
<1>11. ASSUME NEW t \in Senders, StreamMade(t) PROVE WakeInv'
  BY <1>11, <1>i DEF StreamMade, OwnerInv, Owns, OwnerPCs
<1>12. ASSUME NEW t \in Senders, RIOSend(t) PROVE WakeInv'
  BY <1>12, <1>i DEF RIOSend, OwnerInv, Owns, OwnerPCs
<1>13. ASSUME NEW t \in Senders, RIOSendFails(t) PROVE WakeInv'
  BY <1>13, <1>i DEF RIOSendFails, OwnerInv, Owns, OwnerPCs
<1>14. ASSUME Transmit PROVE WakeInv'
  BY <1>14, <1>i DEF Transmit, OwnerInv, Owns, OwnerPCs
<1>15. ASSUME TransmitFails PROVE WakeInv'
  BY <1>15, <1>i DEF TransmitFails, OwnerInv, Owns, OwnerPCs
<1>16. ASSUME SendIOCompleted PROVE WakeInv'
  BY <1>16, <1>i DEF SendIOCompleted, OwnerInv, Owns, OwnerPCs
<1>17. ASSUME SendCompleted PROVE WakeInv'
  BY <1>17, <1>i DEF SendCompleted, OwnerInv, Owns, OwnerPCs
<1>18. ASSUME UNCHANGED vars PROVE WakeInv'
  BY <1>18, <1>i DEF vars, OwnerInv, Owns, OwnerPCs
<1> QED
  BY <1>1, <1>2, <1>3, <1>4, <1>5, <1>6, <1>7, <1>8, <1>9, <1>10, <1>11, <1>12, <1>13,
     <1>14, <1>15, <1>16, <1>17, <1>18
  DEF Next, SenderStep, WorkerStep, Kernel, Idle

(* SendPost's second look at the queue after it gave ioMode back is enough:  *)
(* a packet that waits on a working connection has somebody who will send it. *)
THEOREM NoWakeupIsLost == Spec => []NoLostWakeup
<1>1. Init => WakeInv
  BY DEF Init, WakeInv
<1>2. IInv /\ WakeInv => NoLostWakeup
  BY DEF WakeInv, IInv, TypeOK, NoLostWakeup, Failed, OwnerPCs
<1> QED
  BY <1>1, <1>2, WakeStep, AlwaysInv, PTL DEF Spec

(* Type correctness of the send path.                                        *)
THEOREM TypeCorrect == Spec => []TypeOK
<1>1. IInv => TypeOK
  BY DEF IInv
<1> QED
  BY <1>1, AlwaysInv, PTL

-----------------------------------------------------------------------------
(* A packet on its way to the queue is new, and in one thread's hands.       *)
NewPacketInv ==
    /\ \A t \in Senders : pc[t] # "enqueue" => packet[t] = NoPacket
    /\ \A t \in Senders : packet[t] \notin Range(accepted)
    /\ \A t, u \in Senders : t # u /\ packet[t] = packet[u] => packet[t] = NoPacket

(* What a sequence contains after an Append.                                 *)
LEMMA RangeAppend ==
    ASSUME NEW s \in Seq(Packets), NEW x \in Packets
    PROVE  Range(Append(s, x)) = Range(s) \cup {x}
<1>1. /\ DOMAIN s = 1 .. Len(s) /\ Len(s) \in Nat
      /\ DOMAIN Append(s, x) = 1 .. Len(s) + 1
      /\ \A i \in 1 .. Len(s) : Append(s, x)[i] = s[i]
      /\ Append(s, x)[Len(s) + 1] = x
  OBVIOUS
<1>2. \A i \in 1 .. Len(s) + 1 : i \in 1 .. Len(s) \/ i = Len(s) + 1
  BY <1>1
<1>3. 1 .. Len(s) \subseteq 1 .. Len(s) + 1 /\ Len(s) + 1 \in 1 .. Len(s) + 1
  BY <1>1
<1>4. ASSUME NEW y \in Range(Append(s, x)) PROVE y \in Range(s) \cup {x}
  <2>1. PICK i \in 1 .. Len(s) + 1 : y = Append(s, x)[i]
    BY <1>1, <1>4 DEF Range
  <2> QED
    BY <1>1, <1>2, <2>1 DEF Range
<1>5. ASSUME NEW y \in Range(s) \cup {x} PROVE y \in Range(Append(s, x))
  <2>1. CASE y = x
    BY <1>1, <1>3, <2>1 DEF Range
  <2>2. CASE y \in Range(s)
    <3>1. PICK i \in 1 .. Len(s) : y = s[i]
      BY <1>1, <2>2 DEF Range
    <3> QED
      BY <1>1, <1>3, <3>1 DEF Range
  <2> QED
    BY <1>5, <2>1, <2>2
<1> QED
  BY <1>4, <1>5

(* A packet is given to SendPacket once.                                     *)
LEMMA NewPacketStep == IInv /\ NewPacketInv /\ [Next]_vars => NewPacketInv'
<1> SUFFICES ASSUME IInv, NewPacketInv, [Next]_vars PROVE NewPacketInv'
  OBVIOUS
<1>i. TypeOK /\ LoopInv
  BY DEF IInv
<1>y. /\ pc \in [Senders -> PCs] /\ Worker \in Senders /\ Callers \subseteq Senders
      /\ packet \in [Senders -> Packets \cup {NoPacket}] /\ accepted \in Seq(Packets)
  BY <1>i DEF TypeOK, Senders
<1> USE <1>y DEF bufferVars, kernelVars, localVars, Goto, NewPacketInv
<1>1. ASSUME NEW t \in Senders, NEW p \in Packets, SendPacket(t, p) PROVE NewPacketInv'
  BY <1>1 DEF SendPacket, Used
<1>2. ASSUME NEW t \in Senders, Enqueue(t) PROVE NewPacketInv'
  <2>1. packet[t] \in Packets
    BY <1>2, <1>i DEF Enqueue, LoopInv
  <2>2. Range(accepted') = Range(accepted) \cup {packet[t]}
    BY <1>2, <2>1, RangeAppend DEF Enqueue
  <2>3. packet' = [packet EXCEPT ![t] = NoPacket] /\ pc' = [pc EXCEPT ![t] = "claim"]
    BY <1>2 DEF Enqueue
  <2>4. NoPacket \notin Range(accepted) \cup {packet[t]}
    BY <2>1, SizeAssumption DEF Range
  <2> QED
    BY <2>1, <2>2, <2>3, <2>4, SizeAssumption
<1>3. ASSUME NEW t \in Senders, Claim(t) PROVE NewPacketInv'
  BY <1>3 DEF Claim
<1>4. ASSUME NEW t \in Senders, Check(t) PROVE NewPacketInv'
  BY <1>4 DEF Check
<1>5. ASSUME NEW t \in Senders, ReleaseClaim(t) PROVE NewPacketInv'
  BY <1>5 DEF ReleaseClaim
<1>6. ASSUME NEW t \in Senders, Recheck(t) PROVE NewPacketInv'
  BY <1>6 DEF Recheck
<1>7. ASSUME NEW t \in Senders, MakeSendStream(t) PROVE NewPacketInv'
  BY <1>7 DEF MakeSendStream
<1>8. ASSUME NEW t \in Senders, RefusePacket(t) PROVE NewPacketInv'
  BY <1>8 DEF RefusePacket, Dequeue
<1>9. ASSUME NEW t \in Senders, ReservePacket(t) PROVE NewPacketInv'
  BY <1>9 DEF ReservePacket, Dequeue
<1>10. ASSUME NEW t \in Senders, CopyPacket(t) PROVE NewPacketInv'
  BY <1>10 DEF CopyPacket, Dequeue
<1>11. ASSUME NEW t \in Senders, StreamMade(t) PROVE NewPacketInv'
  BY <1>11 DEF StreamMade
<1>12. ASSUME NEW t \in Senders, RIOSend(t) PROVE NewPacketInv'
  BY <1>12 DEF RIOSend
<1>13. ASSUME NEW t \in Senders, RIOSendFails(t) PROVE NewPacketInv'
  BY <1>13 DEF RIOSendFails
<1>14. ASSUME Transmit PROVE NewPacketInv'
  BY <1>14 DEF Transmit
<1>15. ASSUME TransmitFails PROVE NewPacketInv'
  BY <1>15 DEF TransmitFails
<1>16. ASSUME SendIOCompleted PROVE NewPacketInv'
  BY <1>16 DEF SendIOCompleted
<1>17. ASSUME SendCompleted PROVE NewPacketInv'
  BY <1>17 DEF SendCompleted
<1>18. ASSUME UNCHANGED vars PROVE NewPacketInv'
  BY <1>18 DEF vars
<1> QED
  BY <1>1, <1>2, <1>3, <1>4, <1>5, <1>6, <1>7, <1>8, <1>9, <1>10, <1>11, <1>12, <1>13,
     <1>14, <1>15, <1>16, <1>17, <1>18
  DEF Next, SenderStep, WorkerStep, Kernel, Idle

(* A prefix of a concatenation.                                              *)
LEMMA PrefixOf ==
    ASSUME NEW a \in Seq(Packets), NEW b \in Seq(Packets)
    PROVE  SubSeq(a \o b, 1, Len(a)) = a
<1>1. a \o b \in Seq(Packets) /\ Len(a \o b) = Len(a) + Len(b) /\ Len(a) \in Nat /\ Len(b) \in Nat
  OBVIOUS
<1>2. /\ SubSeq(a \o b, 1, Len(a)) \in Seq(Packets)
      /\ Len(SubSeq(a \o b, 1, Len(a))) = Len(a)
      /\ \A i \in 1 .. Len(a) : SubSeq(a \o b, 1, Len(a))[i] = (a \o b)[i]
  BY <1>1, SubSeqProperties
<1>3. \A i \in 1 .. Len(a) : (a \o b)[i] = a[i]
  OBVIOUS
<1> QED
  BY <1>2, <1>3, SeqEqual

(* Concatenation is associative.                                             *)
LEMMA Regroup == \A a, r, q \in Seq(Packets) : (a \o r) \o q = a \o (r \o q)
BY ConcatAssociative

(* Until old bytes of the buffer are sent, the client can tell apart all     *)
(* that was transmitted.                                                     *)
ReceivedInv == ~staleBytes => received = transmitted

(* What a transmission adds to it is the next part of what was accepted.     *)
LEMMA TransmitDelivers ==
    IInv /\ ReceivedInv /\ ~crashed /\ Transmit => Channel!Deliver \/ UNCHANGED received
<1> SUFFICES ASSUME IInv, ReceivedInv, ~crashed, Transmit, ~staleBytes
             PROVE  Channel!Deliver \/ UNCHANGED received
  BY DEF Transmit
<1> DEFINE a == transmitted \o rioSendBuffer
           b == Reserved \o sendQueue
<1>1. transmitted \in Seq(Packets) /\ rioSendBuffer \in Seq(Packets)
  BY DEF IInv, TypeOK
<1>2. Reserved \in Seq(Packets) /\ sendQueue \in Seq(Packets)
  BY DEF IInv, TypeOK, Reserved
<1>3. a \in Seq(Packets) /\ b \in Seq(Packets)
  BY <1>1, <1>2
<1>4. Stream = rioSendBuffer
  BY DEF Transmit, Stream
<1>5. accepted = (a \o Reserved) \o sendQueue
  BY <1>4 DEF IInv, NothingLost
<1>6. (a \o Reserved) \o sendQueue = a \o b
  <2> HIDE DEF a
  <2> QED
    BY <1>2, <1>3, Regroup, ZenonT(30)
<1>7. received = transmitted /\ received' = a /\ UNCHANGED accepted
  BY DEF Transmit, ReceivedInv
<1>8. /\ Len(a) = Len(transmitted) + Len(rioSendBuffer)
      /\ Len(transmitted) \in Nat /\ Len(rioSendBuffer) \in Nat
  BY <1>1
<1>9. CASE rioSendBuffer = <<>>
  BY <1>1, <1>7, <1>9, EmptyLast
<1>10. CASE rioSendBuffer # <<>>
  <2>1. Len(rioSendBuffer) > 0
    BY <1>1, <1>10
  <2> HIDE DEF a, b
  <2>2. Len(accepted) = Len(a) + Len(b) /\ Len(a) \in Nat /\ Len(b) \in Nat
    BY <1>3, <1>5, <1>6
  <2>3. Len(a) \in Len(transmitted) + 1 .. Len(accepted)
    BY <1>8, <2>1, <2>2
  <2>4. received' = SubSeq(accepted, 1, Len(a))
    BY <1>3, <1>5, <1>6, <1>7, PrefixOf
  <2> QED
    BY <1>7, <2>3, <2>4 DEF Channel!Deliver
<1> QED
  BY <1>9, <1>10

(* Every step of the send path is a step of the channel or invisible in it.  *)
LEMMA ChannelStep ==
    IInv /\ NewPacketInv /\ ReceivedInv /\ [Next]_vars => [Channel!ChannelNext]_(Channel!channelVars)
<1> SUFFICES ASSUME IInv, NewPacketInv, ReceivedInv, [Next]_vars
             PROVE  Channel!ChannelNext \/ UNCHANGED <<accepted, received>>
  BY DEF Channel!channelVars
<1>1. ASSUME NEW t \in Senders, Enqueue(t) PROVE Channel!ChannelNext
  <2>1. packet[t] \in Packets /\ packet[t] \notin Range(accepted)
    BY <1>1 DEF Enqueue, IInv, LoopInv, NewPacketInv
  <2>2. Channel!Accept(packet[t])
    BY <1>1, <2>1 DEF Enqueue, kernelVars, Channel!Accept, Channel!Range, Range
  <2> QED
    BY <2>1, <2>2 DEF Channel!ChannelNext
<1>2. ASSUME ~crashed, Transmit PROVE Channel!ChannelNext \/ UNCHANGED <<accepted, received>>
  <2>1. UNCHANGED accepted
    BY <1>2 DEF Transmit
  <2> QED
    BY <1>2, <2>1, TransmitDelivers DEF Channel!ChannelNext
<1>3. ASSUME NEW t \in Senders,
             Claim(t) \/ Check(t) \/ ReleaseClaim(t) \/ Recheck(t) \/ StreamMade(t)
      PROVE  UNCHANGED <<accepted, received>>
  BY <1>3 DEF Claim, Check, ReleaseClaim, Recheck, StreamMade, kernelVars
<1>4. ASSUME NEW t \in Senders,
             \/ MakeSendStream(t) \/ RefusePacket(t) \/ ReservePacket(t) \/ CopyPacket(t)
             \/ RIOSend(t) \/ RIOSendFails(t)
      PROVE  UNCHANGED <<accepted, received>>
  BY <1>4
  DEF MakeSendStream, RefusePacket, ReservePacket, CopyPacket, RIOSend, RIOSendFails, kernelVars
<1>5. ASSUME NEW t \in Senders, NEW p \in Packets, SendPacket(t, p)
      PROVE  UNCHANGED <<accepted, received>>
  BY <1>5 DEF SendPacket, kernelVars
<1>6. ASSUME TransmitFails \/ SendIOCompleted \/ SendCompleted \/ UNCHANGED vars
      PROVE  UNCHANGED <<accepted, received>>
  BY <1>6 DEF TransmitFails, SendIOCompleted, SendCompleted, vars, kernelVars
<1> QED
  BY <1>1, <1>2, <1>3, <1>4, <1>5, <1>6
  DEF Next, SenderStep, WorkerStep, Kernel, Idle, Senders

(* Only Transmit moves packets to the client.                                *)
LEMMA ReceivedStep == ReceivedInv /\ [Next]_vars => ReceivedInv'
<1> SUFFICES ASSUME ReceivedInv, [Next]_vars PROVE ReceivedInv'
  OBVIOUS
<1> USE DEF kernelVars, ReceivedInv
<1>1. ASSUME NEW t \in Senders, SenderStep(t) PROVE ReceivedInv'
  BY <1>1
  DEF SenderStep, Enqueue, Claim, Check, ReleaseClaim, Recheck, MakeSendStream, RefusePacket,
      ReservePacket, CopyPacket, StreamMade, RIOSend, RIOSendFails
<1>2. ASSUME NEW t \in Senders, NEW p \in Packets, SendPacket(t, p) PROVE ReceivedInv'
  BY <1>2 DEF SendPacket
<1>3. ASSUME Transmit PROVE ReceivedInv'
  BY <1>3 DEF Transmit
<1>4. ASSUME TransmitFails \/ SendIOCompleted \/ SendCompleted \/ UNCHANGED vars
      PROVE  ReceivedInv'
  BY <1>4 DEF TransmitFails, SendIOCompleted, SendCompleted, vars
<1> QED
  BY <1>1, <1>2, <1>3, <1>4 DEF Next, WorkerStep, Kernel, Idle, Senders

(* The send path implements the safety half of the channel that SendPacket   *)
(* promises, whatever fails: packets are accepted once, and those the client *)
(* can tell apart are the first of them, once each and in order.             *)
THEOREM ChannelRefinement == Spec => ImplementsChannelSafety
<1>1. Init => NewPacketInv /\ ReceivedInv /\ Channel!ChannelInit
  BY DEF Init, NewPacketInv, ReceivedInv, Range, Channel!ChannelInit
<1>2. Spec => [](NewPacketInv /\ ReceivedInv)
  BY <1>1, NewPacketStep, ReceivedStep, AlwaysInv, PTL DEF Spec
<1> QED
  BY <1>1, <1>2, ChannelStep, AlwaysInv, PTL
  DEF Spec, ImplementsChannelSafety, Channel!ChannelSafety
=============================================================================
