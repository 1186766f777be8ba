--------------------------- MODULE LanCountProofs ---------------------------
(* m_IOCount of CMultiLanClient: the count of a channel is the number of the *)
(* requests and of the threads that hold it, so that its ReleaseSession runs *)
(* when nobody else does; and the life of a channel, which is why one thread *)
(* releases it and finds nothing of it left.                                 *)
EXTENDS LanClientProofs, FunctionTheorems

(* What the kernel and the port hold of a channel, and what the threads do.  *)
Pending(c) ==
    Cardinality(Receives(c)) + (IF sends[c] = INVALID_SOCKET THEN 0 ELSE 1)
    + lost[c] + Cardinality(Arrived(c))
Holders(c) == Cardinality(Serving(c)) + Cardinality(Posting(c))
Weight(t, c) == (IF t \in Serving(c) THEN 1 ELSE 0) + (IF t \in Posting(c) THEN 1 ELSE 0)

Balanced(c) == m_IOCount[c] = Pending(c) + Holders(c)
CountInv == \A c \in Channels \ filled : Balanced(c)

-----------------------------------------------------------------------------
(* Receives with the kernel, r[s] of them on socket s.                       *)

Held(r) == UNION {{s} \X (1 .. r[s]) : s \in Sockets}

LEMMA HeldAre ==
    ASSUME NEW r \in [Sockets -> Nat]
    PROVE Held(r) = {p \in Sockets \X Nat : p[2] \in 1 .. r[p[1]]}
<1>1. \A p : p \in Held(r) <=> \E s \in Sockets : p \in {s} \X (1 .. r[s])
  BY DEF Held
<1>2. ASSUME NEW p, p \in Held(r) PROVE p \in {q \in Sockets \X Nat : q[2] \in 1 .. r[q[1]]}
  <2>1. PICK s \in Sockets : p \in {s} \X (1 .. r[s])
    BY <1>1, <1>2
  <2>2. r[s] \in Nat
    OBVIOUS
  <2> QED
    BY <2>1, <2>2
<1>3. ASSUME NEW p \in Sockets \X Nat, p[2] \in 1 .. r[p[1]] PROVE p \in Held(r)
  <2>1. p \in {p[1]} \X (1 .. r[p[1]]) /\ p[1] \in Sockets
    BY <1>3
  <2> QED
    BY <1>1, <2>1
<1> QED
  BY <1>2, <1>3

LEMMA HeldFinite ==
    ASSUME NEW r \in [Sockets -> Nat]
    PROVE IsFiniteSet(Held(r))
<1> DEFINE Of(s) == {s} \X (1 .. r[s])
           All == {Of(s) : s \in Sockets}
           f == [s \in Sockets |-> Of(s)]
<1>1. IsFiniteSet(Sockets)
  BY LanClientAssumption, FS_Interval DEF Sockets
<1>2. ASSUME NEW s \in Sockets PROVE IsFiniteSet(Of(s))
  <2>1. IsFiniteSet({s})
    BY FS_Singleton
  <2>2. IsFiniteSet(1 .. r[s])
    <3>1. r[s] \in Int
      OBVIOUS
    <3> QED
      BY <3>1, FS_Interval
  <2> QED
    BY <2>1, <2>2, FS_Product
<1>3. f \in Surjection(Sockets, All)
  BY DEF Surjection
<1>4. IsFiniteSet(All)
  BY <1>1, <1>3, FS_Surjection
<1>5. IsFiniteSet(UNION All)
  BY <1>2, <1>4, FS_UNION
<1> QED
  BY <1>5 DEF Held

LEMMA HeldGains ==
    ASSUME NEW r \in [Sockets -> Nat], NEW s \in Sockets
    PROVE Cardinality(Held([r EXCEPT ![s] = @ + 1])) = Cardinality(Held(r)) + 1
<1> DEFINE q == [r EXCEPT ![s] = @ + 1]
           new == <<s, r[s] + 1>>
<1>1. q \in [Sockets -> Nat] /\ r[s] \in Nat
  OBVIOUS
<1>2. /\ Held(r) = {p \in Sockets \X Nat : p[2] \in 1 .. r[p[1]]}
      /\ Held(q) = {p \in Sockets \X Nat : p[2] \in 1 .. q[p[1]]}
  BY <1>1, HeldAre
<1>3. new \notin Held(r) /\ new \in Held(q)
  <2>1. new \in Sockets \X Nat /\ new[1] = s /\ new[2] = r[s] + 1 /\ q[s] = r[s] + 1
    BY <1>1
  <2>2. r[s] + 1 \notin 1 .. r[s] /\ r[s] + 1 \in 1 .. r[s] + 1
    BY <1>1
  <2> HIDE DEF new, q
  <2> QED
    BY <1>2, <2>1, <2>2
<1>4. ASSUME NEW p \in Sockets \X Nat
      PROVE p \in Held(q) <=> p \in Held(r) \/ p = new
  <2>1. CASE p[1] # s
    BY <1>2, <2>1
  <2>2. CASE p[1] = s
    <3>1. p[2] \in Nat /\ p = <<s, p[2]>> /\ r[p[1]] = r[s] /\ q[p[1]] = r[s] + 1
      BY <2>2
    <3>2. p[2] \in 1 .. r[s] + 1 <=> p[2] \in 1 .. r[s] \/ p[2] = r[s] + 1
      BY <1>1, <3>1
    <3>3. (p \in Held(q) <=> p[2] \in 1 .. q[p[1]]) /\ (p \in Held(r) <=> p[2] \in 1 .. r[p[1]])
      BY <1>2
    <3>4. p = new <=> p[2] = r[s] + 1
      BY <3>1
    <3> HIDE DEF new, q
    <3> QED
      BY <3>1, <3>2, <3>3, <3>4
  <2> QED
    BY <2>1, <2>2
<1>5. Held(q) = Held(r) \cup {new}
  BY <1>2, <1>3, <1>4
<1> QED
  BY <1>3, <1>5, HeldFinite, FS_AddElement

LEMMA HeldLoses ==
    ASSUME NEW r \in [Sockets -> Nat], NEW s \in Sockets, r[s] > 0
    PROVE Cardinality(Held([r EXCEPT ![s] = @ - 1])) = Cardinality(Held(r)) - 1
<1> DEFINE q == [r EXCEPT ![s] = @ - 1]
<1>1. q \in [Sockets -> Nat]
  OBVIOUS
<1>2. r = [q EXCEPT ![s] = @ + 1]
  <2>1. q[s] + 1 = r[s] /\ \A x \in Sockets : x # s => q[x] = r[x]
    OBVIOUS
  <2> HIDE DEF q
  <2> QED
    BY <1>1, <2>1
<1>3. Cardinality(Held(q)) \in Nat
  BY <1>1, HeldFinite, FS_CardinalityType
<1>4. Cardinality(Held([q EXCEPT ![s] = @ + 1])) = Cardinality(Held(q)) + 1
  BY <1>1, HeldGains
<1> HIDE DEF q
<1>5. Cardinality(Held(r)) = Cardinality(Held(q)) + 1
  BY <1>2, <1>4
<1>6. Cardinality(Held(q)) = Cardinality(Held(r)) - 1
  BY <1>3, <1>5
<1> QED
  BY <1>6 DEF q

-----------------------------------------------------------------------------
(* Completion packets in the port.                                           *)

In(q, c) == {i \in DOMAIN q : q[i].chan = c}

LEMMA InFinite ==
    ASSUME NEW q \in Seq(Entries), NEW c
    PROVE IsFiniteSet(In(q, c))
<1>1. DOMAIN q = 1 .. Len(q) /\ Len(q) \in Nat
  BY LenProperties
<1>2. IsFiniteSet(1 .. Len(q))
  BY <1>1, FS_Interval
<1> QED
  BY <1>1, <1>2, FS_Subset DEF In

LEMMA InAppend ==
    ASSUME NEW q \in Seq(Entries), NEW x \in Entries, NEW c
    PROVE Cardinality(In(Append(q, x), c)) =
              Cardinality(In(q, c)) + (IF x.chan = c THEN 1 ELSE 0)
<1> DEFINE p == Append(q, x)
<1>1. /\ DOMAIN q = 1 .. Len(q) /\ Len(q) \in Nat
      /\ DOMAIN p = 1 .. Len(q) + 1
      /\ \A i \in 1 .. Len(q) : p[i] = q[i]
      /\ p[Len(q) + 1] = x
  <2>1. p \in Seq(Entries) /\ Len(p) = Len(q) + 1
    BY AppendProperties
  <2> QED
    BY <2>1, AppendProperties, LenProperties
<1> HIDE DEF p
<1>2. Len(q) + 1 \notin In(q, c)
  BY <1>1 DEF In
<1>3. IsFiniteSet(In(q, c)) /\ Cardinality(In(q, c)) \in Nat
  BY InFinite, FS_CardinalityType
<1>4. CASE x.chan = c
  <2>1. In(p, c) = In(q, c) \cup {Len(q) + 1}
    BY <1>1, <1>4 DEF In
  <2> QED
    BY <1>2, <1>3, <1>4, <2>1, FS_AddElement, ZenonT(30) DEF p
<1>5. CASE x.chan # c
  <2>1. In(p, c) = In(q, c)
    BY <1>1, <1>5 DEF In
  <2> QED
    BY <1>3, <1>5, <2>1 DEF p
<1> QED
  BY <1>4, <1>5

LEMMA InTail ==
    ASSUME NEW q \in Seq(Entries), q # <<>>, NEW c
    PROVE Cardinality(In(Tail(q), c)) =
              Cardinality(In(q, c)) - (IF Head(q).chan = c THEN 1 ELSE 0)
<1> DEFINE p == Tail(q)
           f == [i \in In(p, c) |-> i + 1]
<1>1. /\ DOMAIN q = 1 .. Len(q) /\ Len(q) \in Nat \ {0} /\ Head(q) = q[1]
      /\ DOMAIN p = 1 .. Len(q) - 1
      /\ \A i \in 1 .. Len(q) - 1 : p[i] = q[i + 1]
      /\ p \in Seq(Entries)
  <2>1. p \in Seq(Entries) /\ Len(p) = Len(q) - 1
    BY HeadTailProperties
  <2> QED
    BY <2>1, HeadTailProperties, LenProperties, EmptySeq
<1>2. /\ IsFiniteSet(In(q, c)) /\ Cardinality(In(q, c)) \in Nat
      /\ IsFiniteSet(In(p, c)) /\ Cardinality(In(p, c)) \in Nat
  BY <1>1, InFinite, FS_CardinalityType
<1> HIDE DEF p
<1>3. f \in Bijection(In(p, c), In(q, c) \ {1})
  <2>1. f \in [In(p, c) -> In(q, c) \ {1}]
    BY <1>1 DEF In
  <2>2. \A a, b \in In(p, c) : f[a] = f[b] => a = b
    BY <1>1 DEF In
  <2>3. ASSUME NEW t \in In(q, c) \ {1} PROVE \E i \in In(p, c) : f[i] = t
    <3>1. t - 1 \in In(p, c) /\ (t - 1) + 1 = t
      BY <1>1 DEF In
    <3> QED
      BY <3>1
  <2> QED
    BY <2>1, <2>2, <2>3, Fun_IsBij
<1>4. Cardinality(In(q, c) \ {1}) = Cardinality(In(p, c))
  BY <1>2, <1>3, FS_Bijection DEF ExistsBijection
<1>5. Cardinality(In(q, c) \ {1}) =
          IF 1 \in In(q, c) THEN Cardinality(In(q, c)) - 1 ELSE Cardinality(In(q, c))
  BY <1>2, FS_RemoveElement
<1>6. 1 \in In(q, c) <=> Head(q).chan = c
  BY <1>1 DEF In
<1> QED
  BY <1>2, <1>4, <1>5, <1>6 DEF p

-----------------------------------------------------------------------------
(* Threads.                                                                  *)

LEMMA ThreadsFinite == IsFiniteSet(Threads)
<1>1. IsFiniteSet(Workers \cup Callers) /\ IsFiniteSet({Main} \cup {Reconnecter})
  BY LanClientAssumption, FS_Union, FS_Singleton
<1>2. Threads = (Workers \cup Callers) \cup ({Main} \cup {Reconnecter})
  BY DEF Threads
<1> QED
  BY <1>1, <1>2, FS_Union

(* When one thread moves, only its part of the count may change.             *)
LEMMA OneMoves ==
    ASSUME NEW t \in Threads, NEW c,
           \A u \in Threads : u # t => pc'[u] = pc[u] /\ chan'[u] = chan[u]
    PROVE Holders(c)' = Holders(c) + Weight(t, c)' - Weight(t, c)
<1>1. IsFiniteSet(Threads)
  BY ThreadsFinite
<1>2. Workers \subseteq Threads
  BY DEF Threads
<1>3. ASSUME NEW S \in SUBSET Threads, NEW P \in SUBSET Threads, S \ {t} = P \ {t}
      PROVE /\ Cardinality(S) \in Nat /\ Cardinality(P) \in Nat
            /\ Cardinality(P) - (IF t \in P THEN 1 ELSE 0) =
                   Cardinality(S) - (IF t \in S THEN 1 ELSE 0)
  <2>1. IsFiniteSet(S) /\ IsFiniteSet(P)
    BY <1>1, FS_Subset
  <2>2. Cardinality(S) \in Nat /\ Cardinality(P) \in Nat
    BY <2>1, FS_CardinalityType
  <2>3. Cardinality(S \ {t}) = IF t \in S THEN Cardinality(S) - 1 ELSE Cardinality(S)
    BY <2>1, FS_RemoveElement
  <2>4. Cardinality(P \ {t}) = IF t \in P THEN Cardinality(P) - 1 ELSE Cardinality(P)
    BY <2>1, FS_RemoveElement
  <2> QED
    BY <1>3, <2>2, <2>3, <2>4
<1>4. /\ Serving(c) \in SUBSET Threads /\ Serving(c)' \in SUBSET Threads
      /\ Serving(c) \ {t} = Serving(c)' \ {t}
  BY <1>2 DEF Serving
<1>5. /\ Posting(c) \in SUBSET Threads /\ Posting(c)' \in SUBSET Threads
      /\ Posting(c) \ {t} = Posting(c)' \ {t}
  BY DEF Posting
<1>6. /\ Cardinality(Serving(c)) \in Nat /\ Cardinality(Serving(c)') \in Nat
      /\ Cardinality(Serving(c)') - (IF t \in Serving(c)' THEN 1 ELSE 0) =
             Cardinality(Serving(c)) - (IF t \in Serving(c) THEN 1 ELSE 0)
  BY <1>3, <1>4
<1>7. /\ Cardinality(Posting(c)) \in Nat /\ Cardinality(Posting(c)') \in Nat
      /\ Cardinality(Posting(c)') - (IF t \in Posting(c)' THEN 1 ELSE 0) =
             Cardinality(Posting(c)) - (IF t \in Posting(c) THEN 1 ELSE 0)
  BY <1>3, <1>5
<1> QED
  BY <1>6, <1>7 DEF Holders, Weight

(* A thread's part is no more than the whole.                                *)
LEMMA WeightBound ==
    ASSUME NEW t \in Threads, NEW c
    PROVE Holders(c) \in Nat /\ Weight(t, c) \in 0 .. 2 /\ Weight(t, c) <= Holders(c)
<1>1. Serving(c) \in SUBSET Threads /\ Posting(c) \in SUBSET Threads
  BY DEF Serving, Posting, Threads
<1>2. ASSUME NEW S \in SUBSET Threads
      PROVE Cardinality(S) \in Nat /\ (IF t \in S THEN 1 ELSE 0) <= Cardinality(S)
  <2>1. IsFiniteSet(S)
    BY ThreadsFinite, FS_Subset
  <2>2. Cardinality(S) \in Nat /\ (Cardinality(S) = 0 <=> S = {})
    BY <2>1, FS_CardinalityType, FS_EmptySet
  <2> QED
    BY <2>2
<1>3. /\ Cardinality(Serving(c)) \in Nat
      /\ (IF t \in Serving(c) THEN 1 ELSE 0) <= Cardinality(Serving(c))
  BY <1>1, <1>2
<1>4. /\ Cardinality(Posting(c)) \in Nat
      /\ (IF t \in Posting(c) THEN 1 ELSE 0) <= Cardinality(Posting(c))
  BY <1>1, <1>2
<1> QED
  BY <1>3, <1>4 DEF Holders, Weight

(* What is pending is a number, made up of the parts above.                  *)
LEMMA PendingType ==
    ASSUME TypeOK, NEW c \in Channels
    PROVE /\ Pending(c) \in Nat
          /\ Cardinality(Receives(c)) \in Nat /\ Cardinality(Arrived(c)) \in Nat
<1>1. recvs[c] \in [Sockets -> Nat] /\ lost[c] \in Nat /\ iocp \in Seq(Entries)
  BY DEF TypeOK
<1>2. Cardinality(Held(recvs[c])) \in Nat /\ Cardinality(In(iocp, c)) \in Nat
  BY <1>1, HeldFinite, InFinite, FS_CardinalityType
<1>3. Receives(c) = Held(recvs[c]) /\ Arrived(c) = In(iocp, c)
  BY DEF Receives, Held, Arrived, In
<1> QED
  BY <1>1, <1>2, <1>3 DEF Pending

(* filled only grows.                                                        *)
LEMMA FilledGrows ==
    ASSUME [Next]_vars
    PROVE filled \subseteq filled'
<1>1. ASSUME NEW t \in Threads, RecvPostFull(t) PROVE filled \subseteq filled'
  BY <1>1 DEF RecvPostFull, history, marks, others
<1>2. ASSUME NEW t \in Threads, RecvPost(t) PROVE filled \subseteq filled'
  BY <1>2 DEF RecvPost, history, marks, others
<1>3. ASSUME NEW t \in Threads, WSARecv(t) PROVE filled \subseteq filled'
  BY <1>3 DEF WSARecv, history, marks, others
<1>4. ASSUME NEW t \in Threads, WSARecvFails(t) PROVE filled \subseteq filled'
  BY <1>4 DEF WSARecvFails, history, marks, others
<1>5. ASSUME NEW t \in Threads, ClaimIOMode(t) PROVE filled \subseteq filled'
  BY <1>5 DEF ClaimIOMode, history, marks, others
<1>6. ASSUME NEW t \in Threads, GetUseSize(t) PROVE filled \subseteq filled'
  BY <1>6 DEF GetUseSize, history, marks, others
<1>7. ASSUME NEW t \in Threads, GiveIOModeBack(t) PROVE filled \subseteq filled'
  BY <1>7 DEF GiveIOModeBack, history, marks, others
<1>8. ASSUME NEW t \in Threads, Recheck(t) PROVE filled \subseteq filled'
  BY <1>8 DEF Recheck, history, marks, others
<1>9. ASSUME NEW t \in Threads, FillStore(t) PROVE filled \subseteq filled'
  BY <1>9 DEF FillStore, history, marks, others
<1>10. ASSUME NEW t \in Threads, CountSend(t) PROVE filled \subseteq filled'
  BY <1>10 DEF CountSend, history, marks, others
<1>11. ASSUME NEW t \in Threads, WSASend(t) PROVE filled \subseteq filled'
  BY <1>11 DEF WSASend, history, marks, others
<1>12. ASSUME NEW t \in Threads, WSASendFails(t) PROVE filled \subseteq filled'
  BY <1>12 DEF WSASendFails, history, marks, others
<1>13. ASSUME NEW t \in Threads, WSASendCrashes(t) PROVE filled \subseteq filled'
  BY <1>13 DEF WSASendCrashes, history, marks, others
<1>14. ASSUME NEW t \in Threads, ReleaseSession(t) PROVE filled \subseteq filled'
  BY <1>14 DEF ReleaseSession, history, marks, others
<1>15. ASSUME NEW t \in Threads, DrainSendQ(t) PROVE filled \subseteq filled'
  BY <1>15 DEF DrainSendQ, history, marks, others
<1>16. ASSUME NEW t \in Threads, CloseSocket(t) PROVE filled \subseteq filled'
  BY <1>16 DEF CloseSocket, history, marks, others
<1>17. ASSUME NEW t \in Threads, InvalidateSocket(t) PROVE filled \subseteq filled'
  BY <1>17 DEF InvalidateSocket, history, marks, others
<1>18. ASSUME NEW t \in Threads, AppendToList(t) PROVE filled \subseteq filled'
  BY <1>18 DEF AppendToList, history, marks, others
<1>19. ASSUME NEW t \in Threads, AppendToListRaces(t) PROVE filled \subseteq filled'
  BY <1>19 DEF AppendToListRaces, history, marks, others
<1>20. ASSUME NEW t \in Workers, RecvZero(t) PROVE filled \subseteq filled'
  BY <1>20 DEF RecvZero, history, marks, others
<1>21. ASSUME NEW t \in Workers, RecvData(t) PROVE filled \subseteq filled'
  BY <1>21 DEF RecvData, history, marks, others
<1>22. ASSUME NEW t \in Workers, SendDone(t) PROVE filled \subseteq filled'
  BY <1>22 DEF SendDone, history, marks, others
<1>23. ASSUME NEW t \in Workers, SendNext(t) PROVE filled \subseteq filled'
  BY <1>23 DEF SendNext, history, marks, others
<1>24. ASSUME NEW t \in Workers, IODone(t) PROVE filled \subseteq filled'
  BY <1>24 DEF IODone, history, marks, others
<1>25. ASSUME NEW t \in Workers, WorkerStops(t) PROVE filled \subseteq filled'
  BY <1>25 DEF WorkerStops, history, marks, others
<1>26. ASSUME NEW t \in Workers, OverlappedNull(t) PROVE filled \subseteq filled'
  BY <1>26 DEF OverlappedNull, history, marks, others
<1>27. CASE PeekList
  BY <1>27 DEF PeekList, history, marks, others
<1>28. CASE SeeStopClient
  BY <1>28 DEF SeeStopClient, ReconnecterEnds, history, marks, others
<1>29. CASE NewSocket
  BY <1>29 DEF NewSocket, history, marks, others
<1>30. CASE NewSocketFails
  BY <1>30 DEF NewSocketFails, ReconnecterEnds, history, marks, others
<1>31. CASE Connect
  BY <1>31 DEF Connect, history, marks, others
<1>32. CASE SetsockoptFails
  BY <1>32 DEF SetsockoptFails, ReconnecterEnds, history, marks, others
<1>33. CASE BindToIOCP
  BY <1>33 DEF BindToIOCP, history, marks, others
<1>34. CASE PopList
  BY <1>34 DEF PopList, history, marks, others
<1>35. CASE StartChannel
  BY <1>35 DEF StartChannel, history, marks, others
<1>36. CASE StartFails
  BY <1>36 DEF StartFails, history, marks, others
<1>37. CASE NextChannel
  BY <1>37 DEF NextChannel, history, marks, others
<1>38. CASE ShutdownChannel
  BY <1>38 DEF ShutdownChannel, history, marks, others
<1>39. CASE PostStop
  BY <1>39 DEF PostStop, history, marks, others
<1>40. CASE JoinWorkers
  BY <1>40 DEF JoinWorkers, history, marks, others
<1>41. CASE Stop
  BY <1>41 DEF Stop, history, marks, others
<1>42. ASSUME NEW t \in Callers, SendPacket(t) PROVE filled \subseteq filled'
  BY <1>42 DEF SendPacket, SendPacketImpl, history, marks, others
<1>43. ASSUME NEW t \in Callers, SendPacketFixed(t) PROVE filled \subseteq filled'
  BY <1>43 DEF SendPacketFixed, SendPacketImpl, history, marks, others
<1>44. ASSUME NEW c \in Channels, SendCompletes(c) PROVE filled \subseteq filled'
  BY <1>44 DEF SendCompletes, Completed, history, marks, others
<1>45. ASSUME NEW c \in Channels, NEW s \in Sockets, RecvAborts(c, s)
       PROVE  filled \subseteq filled'
  BY <1>45 DEF RecvAborts, Completed, history, marks, others
<1>46. ASSUME NEW c \in Channels, NEW s \in Sockets, RecvCompletes(c, s)
       PROVE  filled \subseteq filled'
  BY <1>46 DEF RecvCompletes, Completed, history, marks, others
<1>47. ASSUME NEW s \in Sockets, ServerDisconnects(s) PROVE filled \subseteq filled'
  BY <1>47 DEF ServerDisconnects, history, marks, others
<1>48. CASE UNCHANGED vars
  BY <1>48 DEF vars, history, marks, others
<1> QED
  BY <1>1, <1>2, <1>3, <1>4, <1>5, <1>6, <1>7, <1>8, <1>9, <1>10, <1>11, <1>12, <1>13,
     <1>14, <1>15, <1>16, <1>17, <1>18, <1>19, <1>20, <1>21, <1>22, <1>23, <1>24, <1>25,
     <1>26, <1>27, <1>28, <1>29, <1>30, <1>31, <1>32, <1>33, <1>34, <1>35, <1>36, <1>37,
     <1>38, <1>39, <1>40, <1>41, <1>42, <1>43, <1>44, <1>45, <1>46, <1>47, <1>48
  DEF Next, Thread, Post, SendPost, Release, Worker, Reconnect, StartAndStop, Kernel,
      Network, Over

LEMMA CountStep ==
    ASSUME IInv, CountInv, [Next]_vars
    PROVE CountInv'
<1> SUFFICES ASSUME NEW k \in Channels, k \notin filled' PROVE Balanced(k)'
  BY DEF CountInv
<1>a. /\ pc \in [Threads -> Pcs] /\ chan \in [Threads -> 0 .. NumOfSession]
      /\ m_IOCount \in [Channels -> Int] /\ iocp \in Seq(Entries)
      /\ recvs \in [Channels -> [Sockets -> Nat]] /\ lost \in [Channels -> Nat]
      /\ sends \in [Channels -> Sockets \cup {INVALID_SOCKET}]
      /\ m_sock \in [Channels -> Sockets \cup {INVALID_SOCKET}]
  BY DEF IInv, TypeOK
<1>b. /\ Workers \subseteq Threads /\ Callers \subseteq Threads
      /\ Main \in Threads /\ Reconnecter \in Threads
      /\ Main \notin Workers /\ Reconnecter \notin Workers /\ Callers \cap Workers = {}
  BY LanClientAssumption DEF Threads
<1>c. /\ \A t \in Workers : Return(t) = "dec" /\ Deleted(t) = "gqcs"
      /\ \A t : Return(t) \notin {"wsasend", "wsarecv"} /\ Deleted(t) \notin {"wsasend", "wsarecv"}
  <2>1. \A t \in Workers : Return(t) = "dec" /\ Deleted(t) = "gqcs"
    BY <1>b DEF Return, Deleted
  <2>2. \A t : Return(t) \notin {"wsasend", "wsarecv"} /\ Deleted(t) \notin {"wsasend", "wsarecv"}
    BY PcsHas
  <2> QED
    BY <2>1, <2>2
<1>d. k \notin filled /\ m_IOCount[k] = Pending(k) + Holders(k)
  BY FilledGrows DEF CountInv, Balanced
<1>e. /\ Pending(k) \in Nat /\ Holders(k) \in Nat /\ m_IOCount[k] \in Int
      /\ Cardinality(Receives(k)) \in Nat /\ Cardinality(Arrived(k)) \in Nat
  BY <1>a, <1>b, PendingType, WeightBound DEF IInv
<1>f. \A t \in Threads : Weight(t, k) \in 0 .. 2 /\ Weight(t, k) <= Holders(k)
  BY WeightBound
<1>g. \A t \in Threads : pc[t] \notin {"shutdown", "join"} => chan[t] \in Channels
  BY DEF IInv, ChanInv
<1>m. ASSUME NEW t \in Threads, NEW d \in Int, NEW e \in Int,
             \A u \in Threads : u # t => pc'[u] = pc[u] /\ chan'[u] = chan[u],
             Pending(k)' = Pending(k) + d, Weight(t, k)' = Weight(t, k) + e,
             m_IOCount'[k] = m_IOCount[k] + d + e
      PROVE Balanced(k)'
  <2>1. Holders(k)' = Holders(k) + Weight(t, k)' - Weight(t, k)
    BY <1>m, OneMoves
  <2>2. Weight(t, k) \in Int
    BY <1>f
  <2> QED
    BY <1>d, <1>e, <1>m, <2>1, <2>2 DEF Balanced
<1>p. ASSUME NEW r \in Int, NEW q \in Int,
             Cardinality(Receives(k)') = Cardinality(Receives(k)) + r,
             Cardinality(Arrived(k)') = Cardinality(Arrived(k)) + q,
             sends'[k] = sends[k], lost'[k] = lost[k]
      PROVE Pending(k)' = Pending(k) + (r + q)
  <2>1. lost[k] \in Nat
    BY <1>a
  <2> QED
    BY <1>e, <1>p, <2>1 DEF Pending
<1>q. ASSUME recvs'[k] = recvs[k], sends'[k] = sends[k], lost'[k] = lost[k], iocp' = iocp
      PROVE Pending(k)' = Pending(k) /\ Pending(k)' = Pending(k) + 0
  BY <1>e, <1>q DEF Pending, Receives, Arrived
<1>n. ASSUME NEW t \in Threads,
             \A u \in Threads : u # t => pc'[u] = pc[u] /\ chan'[u] = chan[u],
             Weight(t, k)' = Weight(t, k), m_IOCount'[k] = m_IOCount[k],
             recvs'[k] = recvs[k], sends'[k] = sends[k], lost'[k] = lost[k], iocp' = iocp
      PROVE Balanced(k)'
  <2>1. /\ Pending(k)' = Pending(k) + 0 /\ Weight(t, k)' = Weight(t, k) + 0
        /\ m_IOCount'[k] = m_IOCount[k] + 0 + 0
    BY <1>e, <1>f, <1>n, <1>q
  <2> QED
    BY <1>m, <1>n, <2>1
<1>r. /\ Receives(k) = Held(recvs[k]) /\ Receives(k)' = Held(recvs'[k])
      /\ Arrived(k) = In(iocp, k) /\ Arrived(k)' = In(iocp', k)
  BY DEF Receives, Held, Arrived, In
<1>s. ASSUME iocp # <<>>, iocp' = Tail(iocp),
             recvs'[k] = recvs[k], sends'[k] = sends[k], lost'[k] = lost[k]
      PROVE Pending(k)' = Pending(k) + (IF Head(iocp).chan = k THEN -1 ELSE 0)
  <2> DEFINE q == IF Head(iocp).chan = k THEN -1 ELSE 0
  <2>1. Cardinality(In(iocp', k)) =
            Cardinality(In(iocp, k)) - (IF Head(iocp).chan = k THEN 1 ELSE 0)
    BY <1>a, <1>s, InTail
  <2>2. Cardinality(Arrived(k)') = Cardinality(Arrived(k)) + q
    BY <1>e, <1>r, <2>1
  <2>3. Cardinality(Receives(k)') = Cardinality(Receives(k)) + 0
    BY <1>e, <1>r, <1>s
  <2>4. q \in Int /\ 0 + q = q
    OBVIOUS
  <2> HIDE DEF q
  <2>5. Pending(k)' = Pending(k) + (0 + q)
    BY <1>p, <1>s, <2>2, <2>3, <2>4
  <2> QED
    BY <2>4, <2>5 DEF q
<1>t. ASSUME NEW x \in Entries, iocp' = Append(iocp, x)
      PROVE Cardinality(Arrived(k)') = Cardinality(Arrived(k)) + (IF x.chan = k THEN 1 ELSE 0)
  BY <1>a, <1>r, <1>t, InAppend
<1>u. /\ [io |-> "stop", chan |-> -1] \in Entries /\ [io |-> "null", chan |-> -1] \in Entries
      /\ k # -1 /\ \A x \in Entries : x.io \in {"stop", "null"} => x.chan # k
      /\ iocp # <<>> => Head(iocp) \in Entries
  <2>1. k # -1
    BY LanClientAssumption DEF Channels
  <2>2. iocp # <<>> => Head(iocp) \in Entries
    BY <1>a, HeadTailProperties
  <2> QED
    BY <2>1, <2>2 DEF Entries
<1>1. ASSUME NEW t \in Threads, RecvPostFull(t) PROVE Balanced(k)'
  <2>1. chan[t] # k
    BY <1>1 DEF RecvPostFull
  <2>2. \A u \in Threads : u # t => pc'[u] = pc[u] /\ chan'[u] = chan[u]
    BY <1>1, <1>a, <1>b DEF RecvPostFull, Decrement, Goto, threads, locals
  <2>3. Weight(t, k)' = Weight(t, k)
    BY <1>1, <1>a, <1>b, <1>c, <2>1
    DEF RecvPostFull, Decrement, Goto, threads, locals, Weight, Serving, Posting,
        SendPostPcs, RecvPostPcs
  <2>4. m_IOCount'[k] = m_IOCount[k]
        /\ recvs'[k] = recvs[k] /\ sends'[k] = sends[k] /\ lost'[k] = lost[k] /\ iocp' = iocp
    BY <1>1, <1>a, <2>1 DEF RecvPostFull, Decrement, Goto, session, others, kernel, requests
  <2> QED
    BY <1>b, <1>n, <2>2, <2>3, <2>4
<1>2. ASSUME NEW t \in Threads, RecvPost(t) PROVE Balanced(k)'
  <2>1. CASE chan[t] # k
    <3>1. \A u \in Threads : u # t => pc'[u] = pc[u] /\ chan'[u] = chan[u]
      BY <1>2, <1>a, <1>b DEF RecvPost, Goto, threads, locals
    <3>2. Weight(t, k)' = Weight(t, k)
      BY <1>2, <1>a, <1>b, <1>c, <2>1
      DEF RecvPost, Goto, threads, locals, Weight, Serving, Posting, SendPostPcs,
          RecvPostPcs
    <3>3. m_IOCount'[k] = m_IOCount[k]
          /\ recvs'[k] = recvs[k] /\ sends'[k] = sends[k] /\ lost'[k] = lost[k] /\ iocp' = iocp
      BY <1>2, <1>a, <2>1 DEF RecvPost, Goto, Increment, session, others, kernel, requests
    <3> QED
      BY <1>b, <1>n, <3>1, <3>2, <3>3
  <2>2. CASE chan[t] = k
    <3>1. \A u \in Threads : u # t => pc'[u] = pc[u] /\ chan'[u] = chan[u]
      BY <1>2, <1>a, <1>b DEF RecvPost, Goto, threads, locals
    <3>2. Weight(t, k)' = Weight(t, k) + 1
      BY <1>2, <1>a, <1>b, <1>c, <2>2
      DEF RecvPost, Goto, threads, locals, Weight, Serving, Posting, SendPostPcs,
          RecvPostPcs
    <3>3. recvs'[k] = recvs[k] /\ sends'[k] = sends[k] /\ lost'[k] = lost[k] /\ iocp' = iocp
      BY <1>2 DEF RecvPost, Goto, session, others, kernel, requests
    <3>4. m_IOCount'[k] = m_IOCount[k] + 0 + 1
      BY <1>2, <1>a, <1>e, <2>2 DEF RecvPost, Increment
    <3> QED
      BY <1>m, <1>q, <3>1, <3>2, <3>3, <3>4
  <2> QED
    BY <2>1, <2>2
<1>3. ASSUME NEW t \in Threads, WSARecv(t) PROVE Balanced(k)'
  <2>1. CASE chan[t] # k
    <3>1. \A u \in Threads : u # t => pc'[u] = pc[u] /\ chan'[u] = chan[u]
      BY <1>3, <1>a, <1>b DEF WSARecv, Goto, threads, locals
    <3>2. Weight(t, k)' = Weight(t, k)
      BY <1>3, <1>a, <1>b, <1>c, <2>1
      DEF WSARecv, Goto, threads, locals, Weight, Serving, Posting, SendPostPcs,
          RecvPostPcs
    <3>3. m_IOCount'[k] = m_IOCount[k]
          /\ recvs'[k] = recvs[k] /\ sends'[k] = sends[k] /\ lost'[k] = lost[k] /\ iocp' = iocp
      BY <1>3, <1>a, <2>1 DEF WSARecv, Goto, session, others, kernel, requests
    <3> QED
      BY <1>b, <1>n, <3>1, <3>2, <3>3
  <2>2. CASE chan[t] = k
    <3>1. \A u \in Threads : u # t => pc'[u] = pc[u] /\ chan'[u] = chan[u]
      BY <1>3, <1>a, <1>b DEF WSARecv, Goto, threads, locals
    <3>2. Weight(t, k)' = Weight(t, k) + -1
      BY <1>3, <1>a, <1>b, <1>c, <2>2
      DEF WSARecv, Goto, threads, locals, Weight, Serving, Posting, SendPostPcs,
          RecvPostPcs
    <3>3. m_sock[k] \in Sockets
      BY <1>3, <1>a, <2>2 DEF WSARecv, CanPost, State
    <3>4. recvs'[k] = [recvs[k] EXCEPT ![m_sock[k]] = recvs[k][m_sock[k]] + 1] /\ recvs[k] \in [Sockets -> Nat]
      BY <1>3, <1>a, <2>2 DEF WSARecv
    <3>5. Cardinality(Receives(k)') = Cardinality(Receives(k)) + 1
      BY <1>r, <3>3, <3>4, HeldGains
    <3>6. sends'[k] = sends[k] /\ lost'[k] = lost[k] /\ iocp' = iocp /\ m_IOCount'[k] = m_IOCount[k]
      BY <1>3 DEF WSARecv, session
    <3>7. Cardinality(Arrived(k)') = Cardinality(Arrived(k)) + 0
      BY <1>e, <1>r, <3>6
    <3>8. Pending(k)' = Pending(k) + 1 /\ m_IOCount'[k] = m_IOCount[k] + 1 + -1
      BY <1>e, <1>p, <3>5, <3>6, <3>7
    <3> QED
      BY <1>m, <3>1, <3>2, <3>8
  <2> QED
    BY <2>1, <2>2
<1>4. ASSUME NEW t \in Threads, WSARecvFails(t) PROVE Balanced(k)'
  <2>1. CASE chan[t] # k
    <3>1. \A u \in Threads : u # t => pc'[u] = pc[u] /\ chan'[u] = chan[u]
      BY <1>4, <1>a, <1>b DEF WSARecvFails, Decrement, Goto, threads, locals
    <3>2. Weight(t, k)' = Weight(t, k)
      BY <1>4, <1>a, <1>b, <1>c, <2>1
      DEF WSARecvFails, Decrement, Goto, threads, locals, Weight, Serving, Posting,
          SendPostPcs, RecvPostPcs
    <3>3. m_IOCount'[k] = m_IOCount[k]
          /\ recvs'[k] = recvs[k] /\ sends'[k] = sends[k] /\ lost'[k] = lost[k] /\ iocp' = iocp
      BY <1>4, <1>a, <2>1 DEF WSARecvFails, Decrement, Goto, session, others, kernel, requests
    <3> QED
      BY <1>b, <1>n, <3>1, <3>2, <3>3
  <2>2. CASE chan[t] = k
    <3>1. \A u \in Threads : u # t => pc'[u] = pc[u] /\ chan'[u] = chan[u]
      BY <1>4, <1>a, <1>b DEF WSARecvFails, Decrement, Goto, threads, locals
    <3>2. m_IOCount'[k] = m_IOCount[k] + 0 + -1
      BY <1>4, <1>a, <1>e, <2>2 DEF WSARecvFails, Decrement
    <3>3. recvs'[k] = recvs[k] /\ sends'[k] = sends[k] /\ lost'[k] = lost[k] /\ iocp' = iocp
      BY <1>4 DEF WSARecvFails, Decrement, Goto, session, others, kernel, requests
    <3>4. Weight(t, k)' = Weight(t, k) + -1
      <4>1. CASE t \in Workers
        <5>1. Weight(t, k) = 2
          BY <1>4, <2>2, <4>1
          DEF WSARecvFails, Decrement, Goto, Weight, Serving, Posting, SendPostPcs,
              RecvPostPcs
        <5>2. m_IOCount[k] # 1
          BY <1>d, <1>e, <1>f, <5>1
        <5>3. pc'[t] = "dec" /\ chan'[t] = k
          BY <1>4, <1>a, <1>c, <2>2, <4>1, <5>2 DEF WSARecvFails, Decrement, Goto, locals
        <5>4. Weight(t, k)' = 1
          BY <4>1, <5>3, <1>b DEF Weight, Serving, Posting
        <5> QED
          BY <5>1, <5>4
      <4>2. CASE t \notin Workers
        <5>1. Weight(t, k) = 1
          BY <1>4, <2>2, <4>2
          DEF WSARecvFails, Decrement, Goto, Weight, Serving, Posting, SendPostPcs,
              RecvPostPcs
        <5>2. pc'[t] \notin {"wsasend", "wsarecv"}
          BY <1>4, <1>a, <1>c DEF WSARecvFails, Decrement, Goto
        <5>3. Weight(t, k)' = 0
          BY <4>2, <5>2 DEF Weight, Serving, Posting
        <5> QED
          BY <5>1, <5>3
      <4> QED
        BY <4>1, <4>2
    <3> QED
      BY <1>m, <1>q, <3>1, <3>2, <3>3, <3>4
  <2> QED
    BY <2>1, <2>2
<1>5. ASSUME NEW t \in Threads, ClaimIOMode(t) PROVE Balanced(k)'
  <2>1. \A u \in Threads : u # t => pc'[u] = pc[u] /\ chan'[u] = chan[u]
    BY <1>5, <1>a, <1>b DEF ClaimIOMode, Goto, threads, locals
  <2>2. Weight(t, k)' = Weight(t, k)
    BY <1>5, <1>a, <1>b, <1>c
    DEF ClaimIOMode, Goto, threads, locals, Weight, Serving, Posting, SendPostPcs,
        RecvPostPcs
  <2>3. m_IOCount'[k] = m_IOCount[k]
        /\ recvs'[k] = recvs[k] /\ sends'[k] = sends[k] /\ lost'[k] = lost[k] /\ iocp' = iocp
    BY <1>5 DEF ClaimIOMode, Goto, session, others, kernel, requests
  <2> QED
    BY <1>b, <1>n, <2>1, <2>2, <2>3
<1>6. ASSUME NEW t \in Threads, GetUseSize(t) PROVE Balanced(k)'
  <2>1. \A u \in Threads : u # t => pc'[u] = pc[u] /\ chan'[u] = chan[u]
    BY <1>6, <1>a, <1>b DEF GetUseSize, Goto, threads, locals
  <2>2. Weight(t, k)' = Weight(t, k)
    BY <1>6, <1>a, <1>b, <1>c
    DEF GetUseSize, Goto, threads, locals, Weight, Serving, Posting, SendPostPcs,
        RecvPostPcs
  <2>3. m_IOCount'[k] = m_IOCount[k]
        /\ recvs'[k] = recvs[k] /\ sends'[k] = sends[k] /\ lost'[k] = lost[k] /\ iocp' = iocp
    BY <1>6 DEF GetUseSize, Goto, session, others, kernel, requests
  <2> QED
    BY <1>b, <1>n, <2>1, <2>2, <2>3
<1>7. ASSUME NEW t \in Threads, GiveIOModeBack(t) PROVE Balanced(k)'
  <2>1. \A u \in Threads : u # t => pc'[u] = pc[u] /\ chan'[u] = chan[u]
    BY <1>7, <1>a, <1>b DEF GiveIOModeBack, Goto, threads, locals
  <2>2. Weight(t, k)' = Weight(t, k)
    BY <1>7, <1>a, <1>b, <1>c
    DEF GiveIOModeBack, Goto, threads, locals, Weight, Serving, Posting, SendPostPcs,
        RecvPostPcs
  <2>3. m_IOCount'[k] = m_IOCount[k]
        /\ recvs'[k] = recvs[k] /\ sends'[k] = sends[k] /\ lost'[k] = lost[k] /\ iocp' = iocp
    BY <1>7 DEF GiveIOModeBack, Goto, session, others, kernel, requests
  <2> QED
    BY <1>b, <1>n, <2>1, <2>2, <2>3
<1>8. ASSUME NEW t \in Threads, Recheck(t) PROVE Balanced(k)'
  <2>1. \A u \in Threads : u # t => pc'[u] = pc[u] /\ chan'[u] = chan[u]
    BY <1>8, <1>a, <1>b DEF Recheck, Goto, threads, locals
  <2>2. Weight(t, k)' = Weight(t, k)
    BY <1>8, <1>a, <1>b, <1>c
    DEF Recheck, Goto, threads, locals, Weight, Serving, Posting, SendPostPcs, RecvPostPcs
  <2>3. m_IOCount'[k] = m_IOCount[k]
        /\ recvs'[k] = recvs[k] /\ sends'[k] = sends[k] /\ lost'[k] = lost[k] /\ iocp' = iocp
    BY <1>8 DEF Recheck, Goto, session, others, kernel, requests
  <2> QED
    BY <1>b, <1>n, <2>1, <2>2, <2>3
<1>9. ASSUME NEW t \in Threads, FillStore(t) PROVE Balanced(k)'
  <2>1. \A u \in Threads : u # t => pc'[u] = pc[u] /\ chan'[u] = chan[u]
    BY <1>9, <1>a, <1>b DEF FillStore, Goto, threads, locals
  <2>2. Weight(t, k)' = Weight(t, k)
    BY <1>9, <1>a, <1>b, <1>c
    DEF FillStore, Goto, threads, locals, Weight, Serving, Posting, SendPostPcs,
        RecvPostPcs
  <2>3. m_IOCount'[k] = m_IOCount[k]
        /\ recvs'[k] = recvs[k] /\ sends'[k] = sends[k] /\ lost'[k] = lost[k] /\ iocp' = iocp
    BY <1>9 DEF FillStore, Goto, session, others, kernel, requests
  <2> QED
    BY <1>b, <1>n, <2>1, <2>2, <2>3
<1>10. ASSUME NEW t \in Threads, CountSend(t) PROVE Balanced(k)'
  <2>1. CASE chan[t] # k
    <3>1. \A u \in Threads : u # t => pc'[u] = pc[u] /\ chan'[u] = chan[u]
      BY <1>10, <1>a, <1>b DEF CountSend, Goto, threads, locals
    <3>2. Weight(t, k)' = Weight(t, k)
      BY <1>10, <1>a, <1>b, <1>c, <2>1
      DEF CountSend, Goto, threads, locals, Weight, Serving, Posting, SendPostPcs,
          RecvPostPcs
    <3>3. m_IOCount'[k] = m_IOCount[k]
          /\ recvs'[k] = recvs[k] /\ sends'[k] = sends[k] /\ lost'[k] = lost[k] /\ iocp' = iocp
      BY <1>10, <1>a, <2>1 DEF CountSend, Goto, Increment, session, others, kernel, requests
    <3> QED
      BY <1>b, <1>n, <3>1, <3>2, <3>3
  <2>2. CASE chan[t] = k
    <3>1. \A u \in Threads : u # t => pc'[u] = pc[u] /\ chan'[u] = chan[u]
      BY <1>10, <1>a, <1>b DEF CountSend, Goto, threads, locals
    <3>2. Weight(t, k)' = Weight(t, k) + 1
      BY <1>10, <1>a, <1>b, <1>c, <2>2
      DEF CountSend, Goto, threads, locals, Weight, Serving, Posting, SendPostPcs,
          RecvPostPcs
    <3>3. recvs'[k] = recvs[k] /\ sends'[k] = sends[k] /\ lost'[k] = lost[k] /\ iocp' = iocp
      BY <1>10 DEF CountSend, Goto, session, others, kernel, requests
    <3>4. m_IOCount'[k] = m_IOCount[k] + 0 + 1
      BY <1>10, <1>a, <1>e, <2>2 DEF CountSend, Increment
    <3> QED
      BY <1>m, <1>q, <3>1, <3>2, <3>3, <3>4
  <2> QED
    BY <2>1, <2>2
<1>11. ASSUME NEW t \in Threads, WSASend(t) PROVE Balanced(k)'
  <2>1. CASE chan[t] # k
    <3>1. \A u \in Threads : u # t => pc'[u] = pc[u] /\ chan'[u] = chan[u]
      BY <1>11, <1>a, <1>b DEF WSASend, Goto, threads, locals
    <3>2. Weight(t, k)' = Weight(t, k)
      BY <1>11, <1>a, <1>b, <1>c, <2>1
      DEF WSASend, Goto, threads, locals, Weight, Serving, Posting, SendPostPcs,
          RecvPostPcs
    <3>3. m_IOCount'[k] = m_IOCount[k]
          /\ recvs'[k] = recvs[k] /\ sends'[k] = sends[k] /\ lost'[k] = lost[k] /\ iocp' = iocp
      BY <1>11, <1>a, <2>1 DEF WSASend, Goto, session, others, kernel, requests
    <3> QED
      BY <1>b, <1>n, <3>1, <3>2, <3>3
  <2>2. CASE chan[t] = k
    <3>1. \A u \in Threads : u # t => pc'[u] = pc[u] /\ chan'[u] = chan[u]
      BY <1>11, <1>a, <1>b DEF WSASend, Goto, threads, locals
    <3>2. Weight(t, k)' = Weight(t, k) + -1
      BY <1>11, <1>a, <1>b, <1>c, <2>2
      DEF WSASend, Goto, threads, locals, Weight, Serving, Posting, SendPostPcs,
          RecvPostPcs
    <3>3. sends[k] = INVALID_SOCKET
      <4>1. Owns(t, k)
        BY <1>11, <2>2 DEF WSASend, Goto, Owns, Owning
      <4> QED
        BY <4>1 DEF IInv, StoreInv, OwnerInv, HasOwner
    <3>4. sends'[k] # INVALID_SOCKET
      BY <1>11, <1>a, <2>2 DEF WSASend, CanPost, State
    <3>5. recvs' = recvs /\ lost'[k] = lost[k] /\ iocp' = iocp /\ m_IOCount'[k] = m_IOCount[k]
      BY <1>11 DEF WSASend, session
    <3>6. Pending(k)' = Pending(k) + 1
      <4>1. lost[k] \in Nat
        BY <1>a
      <4>2. Receives(k)' = Receives(k) /\ Arrived(k)' = Arrived(k)
        BY <1>r, <3>5
      <4> QED
        BY <1>e, <3>3, <3>4, <3>5, <4>1, <4>2 DEF Pending
    <3>7. m_IOCount'[k] = m_IOCount[k] + 1 + -1
      BY <1>e, <3>5
    <3> QED
      BY <1>m, <3>1, <3>2, <3>6, <3>7
  <2> QED
    BY <2>1, <2>2
<1>12. ASSUME NEW t \in Threads, WSASendFails(t) PROVE Balanced(k)'
  <2>1. CASE chan[t] # k
    <3>1. \A u \in Threads : u # t => pc'[u] = pc[u] /\ chan'[u] = chan[u]
      BY <1>12, <1>a, <1>b DEF WSASendFails, Decrement, Goto, threads, locals
    <3>2. Weight(t, k)' = Weight(t, k)
      BY <1>12, <1>a, <1>b, <1>c, <2>1
      DEF WSASendFails, Decrement, Goto, threads, locals, Weight, Serving, Posting,
          SendPostPcs, RecvPostPcs
    <3>3. m_IOCount'[k] = m_IOCount[k]
          /\ recvs'[k] = recvs[k] /\ sends'[k] = sends[k] /\ lost'[k] = lost[k] /\ iocp' = iocp
      BY <1>12, <1>a, <2>1 DEF WSASendFails, Decrement, Goto, session, others, kernel, requests
    <3> QED
      BY <1>b, <1>n, <3>1, <3>2, <3>3
  <2>2. CASE chan[t] = k
    <3>1. \A u \in Threads : u # t => pc'[u] = pc[u] /\ chan'[u] = chan[u]
      BY <1>12, <1>a, <1>b DEF WSASendFails, Decrement, Goto, threads, locals
    <3>2. m_IOCount'[k] = m_IOCount[k] + 0 + -1
      BY <1>12, <1>a, <1>e, <2>2 DEF WSASendFails, Decrement
    <3>3. recvs'[k] = recvs[k] /\ sends'[k] = sends[k] /\ lost'[k] = lost[k] /\ iocp' = iocp
      BY <1>12 DEF WSASendFails, Decrement, Goto, session, others, kernel, requests
    <3>4. Weight(t, k)' = Weight(t, k) + -1
      <4>1. CASE t \in Workers
        <5>1. Weight(t, k) = 2
          BY <1>12, <2>2, <4>1
          DEF WSASendFails, Decrement, Goto, Weight, Serving, Posting, SendPostPcs,
              RecvPostPcs
        <5>2. m_IOCount[k] # 1
          BY <1>d, <1>e, <1>f, <5>1
        <5>3. pc'[t] = "dec" /\ chan'[t] = k
          BY <1>12, <1>a, <1>c, <2>2, <4>1, <5>2 DEF WSASendFails, Decrement, Goto, locals
        <5>4. Weight(t, k)' = 1
          BY <4>1, <5>3, <1>b DEF Weight, Serving, Posting
        <5> QED
          BY <5>1, <5>4
      <4>2. CASE t \notin Workers
        <5>1. Weight(t, k) = 1
          BY <1>12, <2>2, <4>2
          DEF WSASendFails, Decrement, Goto, Weight, Serving, Posting, SendPostPcs,
              RecvPostPcs
        <5>2. pc'[t] \notin {"wsasend", "wsarecv"}
          BY <1>12, <1>a, <1>c DEF WSASendFails, Decrement, Goto
        <5>3. Weight(t, k)' = 0
          BY <4>2, <5>2 DEF Weight, Serving, Posting
        <5> QED
          BY <5>1, <5>3
      <4> QED
        BY <4>1, <4>2
    <3> QED
      BY <1>m, <1>q, <3>1, <3>2, <3>3, <3>4
  <2> QED
    BY <2>1, <2>2
<1>13. ASSUME NEW t \in Threads, WSASendCrashes(t) PROVE Balanced(k)'
  <2>1. \A u \in Threads : u # t => pc'[u] = pc[u] /\ chan'[u] = chan[u]
    BY <1>13, <1>a, <1>b DEF WSASendCrashes, threads, locals
  <2>2. Weight(t, k)' = Weight(t, k)
    BY <1>13, <1>a, <1>b, <1>c
    DEF WSASendCrashes, threads, locals, Weight, Serving, Posting, SendPostPcs,
        RecvPostPcs
  <2>3. m_IOCount'[k] = m_IOCount[k]
        /\ recvs'[k] = recvs[k] /\ sends'[k] = sends[k] /\ lost'[k] = lost[k] /\ iocp' = iocp
    BY <1>13 DEF WSASendCrashes, session, others, kernel, requests
  <2> QED
    BY <1>b, <1>n, <2>1, <2>2, <2>3
<1>14. ASSUME NEW t \in Threads, ReleaseSession(t) PROVE Balanced(k)'
  <2>1. \A u \in Threads : u # t => pc'[u] = pc[u] /\ chan'[u] = chan[u]
    BY <1>14, <1>a, <1>b DEF ReleaseSession, Goto, threads, locals
  <2>2. Weight(t, k)' = Weight(t, k)
    BY <1>14, <1>a, <1>b, <1>c
    DEF ReleaseSession, Goto, threads, locals, Weight, Serving, Posting, SendPostPcs,
        RecvPostPcs
  <2>3. m_IOCount'[k] = m_IOCount[k]
        /\ recvs'[k] = recvs[k] /\ sends'[k] = sends[k] /\ lost'[k] = lost[k] /\ iocp' = iocp
    BY <1>14 DEF ReleaseSession, Goto, session, others, kernel, requests
  <2> QED
    BY <1>b, <1>n, <2>1, <2>2, <2>3
<1>15. ASSUME NEW t \in Threads, DrainSendQ(t) PROVE Balanced(k)'
  <2>1. \A u \in Threads : u # t => pc'[u] = pc[u] /\ chan'[u] = chan[u]
    BY <1>15, <1>a, <1>b DEF DrainSendQ, Goto, threads, locals
  <2>2. Weight(t, k)' = Weight(t, k)
    BY <1>15, <1>a, <1>b, <1>c
    DEF DrainSendQ, Goto, threads, locals, Weight, Serving, Posting, SendPostPcs,
        RecvPostPcs
  <2>3. m_IOCount'[k] = m_IOCount[k]
        /\ recvs'[k] = recvs[k] /\ sends'[k] = sends[k] /\ lost'[k] = lost[k] /\ iocp' = iocp
    BY <1>15 DEF DrainSendQ, Goto, session, others, kernel, requests
  <2> QED
    BY <1>b, <1>n, <2>1, <2>2, <2>3
<1>16. ASSUME NEW t \in Threads, CloseSocket(t) PROVE Balanced(k)'
  <2>1. \A u \in Threads : u # t => pc'[u] = pc[u] /\ chan'[u] = chan[u]
    BY <1>16, <1>a, <1>b DEF CloseSocket, Goto, threads, locals
  <2>2. Weight(t, k)' = Weight(t, k)
    BY <1>16, <1>a, <1>b, <1>c
    DEF CloseSocket, Goto, threads, locals, Weight, Serving, Posting, SendPostPcs,
        RecvPostPcs
  <2>3. m_IOCount'[k] = m_IOCount[k]
        /\ recvs'[k] = recvs[k] /\ sends'[k] = sends[k] /\ lost'[k] = lost[k] /\ iocp' = iocp
    BY <1>16 DEF CloseSocket, Goto, session, others, kernel, requests
  <2> QED
    BY <1>b, <1>n, <2>1, <2>2, <2>3
<1>17. ASSUME NEW t \in Threads, InvalidateSocket(t) PROVE Balanced(k)'
  <2>1. \A u \in Threads : u # t => pc'[u] = pc[u] /\ chan'[u] = chan[u]
    BY <1>17, <1>a, <1>b DEF InvalidateSocket, Goto, threads, locals
  <2>2. Weight(t, k)' = Weight(t, k)
    BY <1>17, <1>a, <1>b, <1>c
    DEF InvalidateSocket, Goto, threads, locals, Weight, Serving, Posting, SendPostPcs,
        RecvPostPcs
  <2>3. m_IOCount'[k] = m_IOCount[k]
        /\ recvs'[k] = recvs[k] /\ sends'[k] = sends[k] /\ lost'[k] = lost[k] /\ iocp' = iocp
    BY <1>17 DEF InvalidateSocket, Goto, session, others, kernel, requests
  <2> QED
    BY <1>b, <1>n, <2>1, <2>2, <2>3
<1>18. ASSUME NEW t \in Threads, AppendToList(t) PROVE Balanced(k)'
  <2>1. \A u \in Threads : u # t => pc'[u] = pc[u] /\ chan'[u] = chan[u]
    BY <1>18, <1>a, <1>b DEF AppendToList, Goto, threads, locals
  <2>2. Weight(t, k)' = Weight(t, k)
    BY <1>18, <1>a, <1>b, <1>c
    DEF AppendToList, Goto, threads, locals, Weight, Serving, Posting, SendPostPcs,
        RecvPostPcs
  <2>3. m_IOCount'[k] = m_IOCount[k]
        /\ recvs'[k] = recvs[k] /\ sends'[k] = sends[k] /\ lost'[k] = lost[k] /\ iocp' = iocp
    BY <1>18 DEF AppendToList, Goto, session, others, kernel, requests
  <2> QED
    BY <1>b, <1>n, <2>1, <2>2, <2>3
<1>19. ASSUME NEW t \in Threads, AppendToListRaces(t) PROVE Balanced(k)'
  <2>1. \A u \in Threads : u # t => pc'[u] = pc[u] /\ chan'[u] = chan[u]
    BY <1>19, <1>a, <1>b DEF AppendToListRaces, Goto, threads, locals
  <2>2. Weight(t, k)' = Weight(t, k)
    BY <1>19, <1>a, <1>b, <1>c
    DEF AppendToListRaces, Goto, threads, locals, Weight, Serving, Posting, SendPostPcs,
        RecvPostPcs
  <2>3. m_IOCount'[k] = m_IOCount[k]
        /\ recvs'[k] = recvs[k] /\ sends'[k] = sends[k] /\ lost'[k] = lost[k] /\ iocp' = iocp
    BY <1>19 DEF AppendToListRaces, Goto, session, others, kernel, requests
  <2> QED
    BY <1>b, <1>n, <2>1, <2>2, <2>3
<1>20. ASSUME NEW t \in Workers, RecvZero(t) PROVE Balanced(k)'
  <2> DEFINE d == IF Head(iocp).chan = k THEN -1 ELSE 0
             e == 0
  <2>1. \A u \in Threads : u # t => pc'[u] = pc[u] /\ chan'[u] = chan[u]
    BY <1>20, <1>a, <1>b DEF RecvZero, Dequeued, threads, locals
  <2>2. iocp # <<>> /\ iocp' = Tail(iocp) /\ recvs'[k] = recvs[k] /\ sends'[k] = sends[k] /\ lost'[k] = lost[k]
    BY <1>20 DEF RecvZero, Dequeued, requests
  <2>3. Pending(k)' = Pending(k) + d
    BY <1>s, <2>2
  <2>4. Weight(t, k)' = Weight(t, k) + e
    BY <1>20, <1>a, <1>b
    DEF RecvZero, Dequeued, Weight, Serving, Posting, SendPostPcs, RecvPostPcs
  <2>5. m_IOCount'[k] = m_IOCount[k] + d + e
    BY <1>20, <1>a, <1>e DEF RecvZero
  <2>6. d \in Int /\ e \in Int
    OBVIOUS
  <2> HIDE DEF d, e
  <2> QED
    BY <1>b, <1>m, <2>1, <2>3, <2>4, <2>5, <2>6
<1>21. ASSUME NEW t \in Workers, RecvData(t) PROVE Balanced(k)'
  <2> DEFINE d == IF Head(iocp).chan = k THEN -1 ELSE 0
             e == IF Head(iocp).chan = k THEN 1 ELSE 0
  <2>1. \A u \in Threads : u # t => pc'[u] = pc[u] /\ chan'[u] = chan[u]
    BY <1>21, <1>a, <1>b DEF RecvData, Dequeued, threads, locals
  <2>2. iocp # <<>> /\ iocp' = Tail(iocp) /\ recvs'[k] = recvs[k] /\ sends'[k] = sends[k] /\ lost'[k] = lost[k]
    BY <1>21 DEF RecvData, Dequeued, requests
  <2>3. Pending(k)' = Pending(k) + d
    BY <1>s, <2>2
  <2>4. Weight(t, k)' = Weight(t, k) + e
    BY <1>21, <1>a, <1>b
    DEF RecvData, Dequeued, Weight, Serving, Posting, SendPostPcs, RecvPostPcs
  <2>5. m_IOCount'[k] = m_IOCount[k] + d + e
    BY <1>21, <1>a, <1>e DEF RecvData
  <2>6. d \in Int /\ e \in Int
    OBVIOUS
  <2> HIDE DEF d, e
  <2> QED
    BY <1>b, <1>m, <2>1, <2>3, <2>4, <2>5, <2>6
<1>22. ASSUME NEW t \in Workers, SendDone(t) PROVE Balanced(k)'
  <2> DEFINE d == IF Head(iocp).chan = k THEN -1 ELSE 0
             e == IF Head(iocp).chan = k THEN 1 ELSE 0
  <2>1. \A u \in Threads : u # t => pc'[u] = pc[u] /\ chan'[u] = chan[u]
    BY <1>22, <1>a, <1>b DEF SendDone, Dequeued, threads, locals
  <2>2. iocp # <<>> /\ iocp' = Tail(iocp) /\ recvs'[k] = recvs[k] /\ sends'[k] = sends[k] /\ lost'[k] = lost[k]
    BY <1>22 DEF SendDone, Dequeued, requests
  <2>3. Pending(k)' = Pending(k) + d
    BY <1>s, <2>2
  <2>4. Weight(t, k)' = Weight(t, k) + e
    BY <1>22, <1>a, <1>b
    DEF SendDone, Dequeued, Weight, Serving, Posting, SendPostPcs, RecvPostPcs
  <2>5. m_IOCount'[k] = m_IOCount[k] + d + e
    BY <1>22, <1>a, <1>e DEF SendDone
  <2>6. d \in Int /\ e \in Int
    OBVIOUS
  <2> HIDE DEF d, e
  <2> QED
    BY <1>b, <1>m, <2>1, <2>3, <2>4, <2>5, <2>6
<1>23. ASSUME NEW t \in Workers, SendNext(t) PROVE Balanced(k)'
  <2>1. \A u \in Threads : u # t => pc'[u] = pc[u] /\ chan'[u] = chan[u]
    BY <1>23, <1>a, <1>b DEF SendNext, Goto, threads, locals
  <2>2. Weight(t, k)' = Weight(t, k)
    BY <1>23, <1>a, <1>b, <1>c
    DEF SendNext, Goto, threads, locals, Weight, Serving, Posting, SendPostPcs,
        RecvPostPcs
  <2>3. m_IOCount'[k] = m_IOCount[k]
        /\ recvs'[k] = recvs[k] /\ sends'[k] = sends[k] /\ lost'[k] = lost[k] /\ iocp' = iocp
    BY <1>23 DEF SendNext, Goto, session, others, kernel, requests
  <2> QED
    BY <1>b, <1>n, <2>1, <2>2, <2>3
<1>24. ASSUME NEW t \in Workers, IODone(t) PROVE Balanced(k)'
  <2>1. CASE chan[t] # k
    <3>1. \A u \in Threads : u # t => pc'[u] = pc[u] /\ chan'[u] = chan[u]
      BY <1>24, <1>a, <1>b DEF IODone, Decrement, Goto, threads, locals
    <3>2. Weight(t, k)' = Weight(t, k)
      BY <1>24, <1>a, <1>b, <1>c, <2>1
      DEF IODone, Decrement, Goto, threads, locals, Weight, Serving, Posting, SendPostPcs,
          RecvPostPcs
    <3>3. m_IOCount'[k] = m_IOCount[k]
          /\ recvs'[k] = recvs[k] /\ sends'[k] = sends[k] /\ lost'[k] = lost[k] /\ iocp' = iocp
      BY <1>24, <1>a, <2>1 DEF IODone, Decrement, Goto, session, others, kernel, requests
    <3> QED
      BY <1>b, <1>n, <3>1, <3>2, <3>3
  <2>2. CASE chan[t] = k
    <3>1. \A u \in Threads : u # t => pc'[u] = pc[u] /\ chan'[u] = chan[u]
      BY <1>24, <1>a, <1>b DEF IODone, Decrement, Goto, threads, locals
    <3>2. Weight(t, k)' = Weight(t, k) + -1
      BY <1>24, <1>a, <1>b, <1>c, <2>2
      DEF IODone, Decrement, Goto, threads, locals, Weight, Serving, Posting, SendPostPcs,
          RecvPostPcs
    <3>3. recvs'[k] = recvs[k] /\ sends'[k] = sends[k] /\ lost'[k] = lost[k] /\ iocp' = iocp
      BY <1>24 DEF IODone, Decrement, Goto, session, others, kernel, requests
    <3>4. m_IOCount'[k] = m_IOCount[k] + 0 + -1
      BY <1>24, <1>a, <1>e, <2>2 DEF IODone, Decrement
    <3> QED
      BY <1>b, <1>m, <1>q, <3>1, <3>2, <3>3, <3>4
  <2> QED
    BY <2>1, <2>2
<1>25. ASSUME NEW t \in Workers, WorkerStops(t) PROVE Balanced(k)'
  <2>1. \A u \in Threads : u # t => pc'[u] = pc[u] /\ chan'[u] = chan[u]
    BY <1>25, <1>a, <1>b DEF WorkerStops, threads, locals
  <2>2. /\ iocp # <<>> /\ iocp' = Append(Tail(iocp), [io |-> "null", chan |-> -1])
        /\ Head(iocp).io = "stop" /\ m_IOCount'[k] = m_IOCount[k]
        /\ recvs'[k] = recvs[k] /\ sends'[k] = sends[k] /\ lost'[k] = lost[k]
    BY <1>25 DEF WorkerStops, requests, session
  <2>3. Cardinality(In(Tail(iocp), k)) = Cardinality(In(iocp, k)) - 0
    BY <1>a, <1>u, <2>2, InTail
  <2>4. Tail(iocp) \in Seq(Entries)
    BY <1>a, <2>2, HeadTailProperties
  <2>5. Cardinality(In(iocp', k)) = Cardinality(In(Tail(iocp), k)) + 0
    <3> DEFINE null == [io |-> "null", chan |-> -1]
    <3>1. null \in Entries /\ null.chan # k
      BY <1>u
    <3> HIDE DEF null
    <3> QED
      BY <2>2, <2>4, <3>1, InAppend DEF null
  <2>6. Cardinality(Arrived(k)') = Cardinality(Arrived(k)) + 0
    BY <1>e, <1>r, <2>3, <2>5
  <2>7. Cardinality(Receives(k)') = Cardinality(Receives(k)) + 0
    BY <1>e, <1>r, <2>2
  <2>8. Pending(k)' = Pending(k) + 0 /\ m_IOCount'[k] = m_IOCount[k] + 0 + 0
    BY <1>e, <1>p, <2>2, <2>6, <2>7
  <2>9. Weight(t, k)' = Weight(t, k) + 0
    BY <1>25, <1>a, <1>b
    DEF WorkerStops, locals, Weight, Serving, Posting, SendPostPcs, RecvPostPcs
  <2> QED
    BY <1>b, <1>m, <2>1, <2>8, <2>9
<1>26. ASSUME NEW t \in Workers, OverlappedNull(t) PROVE Balanced(k)'
  <2>1. \A u \in Threads : u # t => pc'[u] = pc[u] /\ chan'[u] = chan[u]
    BY <1>26, <1>a, <1>b DEF OverlappedNull, Dequeued, threads, locals
  <2>2. /\ iocp # <<>> /\ iocp' = Tail(iocp) /\ Head(iocp).io = "null"
        /\ recvs'[k] = recvs[k] /\ sends'[k] = sends[k] /\ lost'[k] = lost[k]
        /\ m_IOCount'[k] = m_IOCount[k] /\ pc' = pc /\ chan' = chan
    BY <1>26 DEF OverlappedNull, Dequeued, requests, session, threads, locals
  <2>3. Pending(k)' = Pending(k) + 0
    BY <1>s, <1>u, <2>2
  <2>4. Weight(t, k)' = Weight(t, k) + 0
    BY <1>b, <1>f, <2>2 DEF Weight, Serving, Posting
  <2>5. m_IOCount'[k] = m_IOCount[k] + 0 + 0
    BY <1>e, <2>2
  <2> QED
    BY <1>b, <1>m, <2>1, <2>3, <2>4, <2>5
<1>27. CASE PeekList
  <2>1. \A u \in Threads : u # Reconnecter => pc'[u] = pc[u] /\ chan'[u] = chan[u]
    BY <1>27, <1>a, <1>b DEF PeekList, Goto, threads, locals
  <2>2. Weight(Reconnecter, k)' = Weight(Reconnecter, k)
    BY <1>27, <1>a, <1>b, <1>c
    DEF PeekList, Goto, threads, locals, Weight, Serving, Posting, SendPostPcs,
        RecvPostPcs
  <2>3. m_IOCount'[k] = m_IOCount[k]
        /\ recvs'[k] = recvs[k] /\ sends'[k] = sends[k] /\ lost'[k] = lost[k] /\ iocp' = iocp
    BY <1>27 DEF PeekList, Goto, session, others, kernel, requests
  <2> QED
    BY <1>b, <1>n, <2>1, <2>2, <2>3
<1>28. CASE SeeStopClient
  <2>1. \A u \in Threads : u # Reconnecter => pc'[u] = pc[u] /\ chan'[u] = chan[u]
    BY <1>28, <1>a, <1>b DEF SeeStopClient, ReconnecterEnds, threads, locals
  <2>2. Weight(Reconnecter, k)' = Weight(Reconnecter, k)
    BY <1>28, <1>a, <1>b, <1>c
    DEF SeeStopClient, ReconnecterEnds, threads, locals, Weight, Serving, Posting,
        SendPostPcs, RecvPostPcs
  <2>3. m_IOCount'[k] = m_IOCount[k]
        /\ recvs'[k] = recvs[k] /\ sends'[k] = sends[k] /\ lost'[k] = lost[k] /\ iocp' = iocp
    BY <1>28 DEF SeeStopClient, ReconnecterEnds, session, others, kernel, requests
  <2> QED
    BY <1>b, <1>n, <2>1, <2>2, <2>3
<1>29. CASE NewSocket
  <2>1. \A u \in Threads : u # Reconnecter => pc'[u] = pc[u] /\ chan'[u] = chan[u]
    BY <1>29, <1>a, <1>b DEF NewSocket, Goto, threads, locals
  <2>2. Weight(Reconnecter, k)' = Weight(Reconnecter, k)
    BY <1>29, <1>a, <1>b, <1>c
    DEF NewSocket, Goto, threads, locals, Weight, Serving, Posting, SendPostPcs,
        RecvPostPcs
  <2>3. m_IOCount'[k] = m_IOCount[k]
        /\ recvs'[k] = recvs[k] /\ sends'[k] = sends[k] /\ lost'[k] = lost[k] /\ iocp' = iocp
    BY <1>29 DEF NewSocket, Goto, session, others, kernel, requests
  <2> QED
    BY <1>b, <1>n, <2>1, <2>2, <2>3
<1>30. CASE NewSocketFails
  <2>1. \A u \in Threads : u # Reconnecter => pc'[u] = pc[u] /\ chan'[u] = chan[u]
    BY <1>30, <1>a, <1>b DEF NewSocketFails, ReconnecterEnds, threads, locals
  <2>2. Weight(Reconnecter, k)' = Weight(Reconnecter, k)
    BY <1>30, <1>a, <1>b, <1>c
    DEF NewSocketFails, ReconnecterEnds, threads, locals, Weight, Serving, Posting,
        SendPostPcs, RecvPostPcs
  <2>3. m_IOCount'[k] = m_IOCount[k]
        /\ recvs'[k] = recvs[k] /\ sends'[k] = sends[k] /\ lost'[k] = lost[k] /\ iocp' = iocp
    BY <1>30 DEF NewSocketFails, ReconnecterEnds, session, others, kernel, requests
  <2> QED
    BY <1>b, <1>n, <2>1, <2>2, <2>3
<1>31. CASE Connect
  <2>1. \A u \in Threads : u # Reconnecter => pc'[u] = pc[u] /\ chan'[u] = chan[u]
    BY <1>31, <1>a, <1>b DEF Connect, Goto, threads, locals
  <2>2. Weight(Reconnecter, k)' = Weight(Reconnecter, k)
    BY <1>31, <1>a, <1>b, <1>c
    DEF Connect, Goto, threads, locals, Weight, Serving, Posting, SendPostPcs, RecvPostPcs
  <2>3. m_IOCount'[k] = m_IOCount[k]
        /\ recvs'[k] = recvs[k] /\ sends'[k] = sends[k] /\ lost'[k] = lost[k] /\ iocp' = iocp
    BY <1>31 DEF Connect, Goto, session, others, kernel, requests
  <2> QED
    BY <1>b, <1>n, <2>1, <2>2, <2>3
<1>32. CASE SetsockoptFails
  <2>1. \A u \in Threads : u # Reconnecter => pc'[u] = pc[u] /\ chan'[u] = chan[u]
    BY <1>32, <1>a, <1>b DEF SetsockoptFails, ReconnecterEnds, threads, locals
  <2>2. Weight(Reconnecter, k)' = Weight(Reconnecter, k)
    BY <1>32, <1>a, <1>b, <1>c
    DEF SetsockoptFails, ReconnecterEnds, threads, locals, Weight, Serving, Posting,
        SendPostPcs, RecvPostPcs
  <2>3. m_IOCount'[k] = m_IOCount[k]
        /\ recvs'[k] = recvs[k] /\ sends'[k] = sends[k] /\ lost'[k] = lost[k] /\ iocp' = iocp
    BY <1>32 DEF SetsockoptFails, ReconnecterEnds, session, others, kernel, requests
  <2> QED
    BY <1>b, <1>n, <2>1, <2>2, <2>3
<1>33. CASE BindToIOCP
  <2>1. \A u \in Threads : u # Reconnecter => pc'[u] = pc[u] /\ chan'[u] = chan[u]
    BY <1>33, <1>a, <1>b DEF BindToIOCP, Goto, threads, locals
  <2>2. Weight(Reconnecter, k)' = Weight(Reconnecter, k)
    BY <1>33, <1>a, <1>b, <1>c
    DEF BindToIOCP, Goto, threads, locals, Weight, Serving, Posting, SendPostPcs,
        RecvPostPcs
  <2>3. m_IOCount'[k] = m_IOCount[k]
        /\ recvs'[k] = recvs[k] /\ sends'[k] = sends[k] /\ lost'[k] = lost[k] /\ iocp' = iocp
    BY <1>33 DEF BindToIOCP, Goto, session, others, kernel, requests
  <2> QED
    BY <1>b, <1>n, <2>1, <2>2, <2>3
<1>34. CASE PopList
  <2>1. \A u \in Threads : u # Reconnecter => pc'[u] = pc[u] /\ chan'[u] = chan[u]
    BY <1>34, <1>a, <1>b DEF PopList, Goto, threads, locals
  <2>2. Weight(Reconnecter, k)' = Weight(Reconnecter, k)
    BY <1>34, <1>a, <1>b, <1>c
    DEF PopList, Goto, threads, locals, Weight, Serving, Posting, SendPostPcs, RecvPostPcs
  <2>3. m_IOCount'[k] = m_IOCount[k]
        /\ recvs'[k] = recvs[k] /\ sends'[k] = sends[k] /\ lost'[k] = lost[k] /\ iocp' = iocp
    BY <1>34 DEF PopList, Goto, session, others, kernel, requests
  <2> QED
    BY <1>b, <1>n, <2>1, <2>2, <2>3
<1>35. CASE StartChannel
  <2>1. \A u \in Threads : u # Main => pc'[u] = pc[u] /\ chan'[u] = chan[u]
    BY <1>35, <1>a, <1>b DEF StartChannel, Goto, threads, locals
  <2>2. Weight(Main, k)' = Weight(Main, k)
    BY <1>35, <1>a, <1>b, <1>c
    DEF StartChannel, Goto, threads, locals, Weight, Serving, Posting, SendPostPcs,
        RecvPostPcs
  <2>3. m_IOCount'[k] = m_IOCount[k]
        /\ recvs'[k] = recvs[k] /\ sends'[k] = sends[k] /\ lost'[k] = lost[k] /\ iocp' = iocp
    BY <1>35 DEF StartChannel, Goto, session, others, kernel, requests
  <2> QED
    BY <1>b, <1>n, <2>1, <2>2, <2>3
<1>36. CASE StartFails
  <2>1. \A u \in Threads : u # Main => pc'[u] = pc[u] /\ chan'[u] = chan[u]
    BY <1>36, <1>a, <1>b DEF StartFails, threads, locals
  <2>2. Weight(Main, k)' = Weight(Main, k)
    BY <1>36, <1>a, <1>b, <1>c
    DEF StartFails, threads, locals, Weight, Serving, Posting, SendPostPcs, RecvPostPcs
  <2>3. m_IOCount'[k] = m_IOCount[k]
        /\ recvs'[k] = recvs[k] /\ sends'[k] = sends[k] /\ lost'[k] = lost[k] /\ iocp' = iocp
    BY <1>36 DEF StartFails, session, others, kernel, requests
  <2> QED
    BY <1>b, <1>n, <2>1, <2>2, <2>3
<1>37. CASE NextChannel
  <2>1. \A u \in Threads : u # Main => pc'[u] = pc[u] /\ chan'[u] = chan[u]
    BY <1>37, <1>a, <1>b DEF NextChannel, Goto, threads, locals
  <2>2. Weight(Main, k)' = Weight(Main, k)
    BY <1>37, <1>a, <1>b, <1>c
    DEF NextChannel, Goto, threads, locals, Weight, Serving, Posting, SendPostPcs,
        RecvPostPcs
  <2>3. m_IOCount'[k] = m_IOCount[k]
        /\ recvs'[k] = recvs[k] /\ sends'[k] = sends[k] /\ lost'[k] = lost[k] /\ iocp' = iocp
    BY <1>37 DEF NextChannel, Goto, session, others, kernel, requests
  <2> QED
    BY <1>b, <1>n, <2>1, <2>2, <2>3
<1>38. CASE ShutdownChannel
  <2>1. \A u \in Threads : u # Main => pc'[u] = pc[u] /\ chan'[u] = chan[u]
    BY <1>38, <1>a, <1>b DEF ShutdownChannel, threads, locals
  <2>2. Weight(Main, k)' = Weight(Main, k)
    BY <1>38, <1>a, <1>b, <1>c
    DEF ShutdownChannel, threads, locals, Weight, Serving, Posting, SendPostPcs,
        RecvPostPcs
  <2>3. m_IOCount'[k] = m_IOCount[k]
        /\ recvs'[k] = recvs[k] /\ sends'[k] = sends[k] /\ lost'[k] = lost[k] /\ iocp' = iocp
    BY <1>38 DEF ShutdownChannel, session, others, kernel, requests
  <2> QED
    BY <1>b, <1>n, <2>1, <2>2, <2>3
<1>39. CASE PostStop
  <2>1. \A u \in Threads : u # Main => pc'[u] = pc[u] /\ chan'[u] = chan[u]
    BY <1>39, <1>a, <1>b DEF PostStop, Goto, threads, locals
  <2>2. /\ iocp' = Append(iocp, [io |-> "stop", chan |-> -1]) /\ m_IOCount'[k] = m_IOCount[k]
        /\ recvs'[k] = recvs[k] /\ sends'[k] = sends[k] /\ lost'[k] = lost[k]
    BY <1>39 DEF PostStop, requests, session
  <2>3. Cardinality(Arrived(k)') = Cardinality(Arrived(k)) + 0
    BY <1>t, <1>u, <2>2
  <2>4. Cardinality(Receives(k)') = Cardinality(Receives(k)) + 0
    BY <1>e, <1>r, <2>2
  <2>5. Pending(k)' = Pending(k) + 0 /\ m_IOCount'[k] = m_IOCount[k] + 0 + 0
    BY <1>e, <1>p, <2>2, <2>3, <2>4
  <2>6. Weight(Main, k)' = Weight(Main, k) + 0
    BY <1>39, <1>a, <1>b
    DEF PostStop, Goto, locals, Weight, Serving, Posting, SendPostPcs, RecvPostPcs
  <2> QED
    BY <1>b, <1>m, <2>1, <2>5, <2>6
<1>40. CASE JoinWorkers
  <2>1. \A u \in Threads : u # Main => pc'[u] = pc[u] /\ chan'[u] = chan[u]
    BY <1>40, <1>a, <1>b DEF JoinWorkers, threads, locals
  <2>2. Weight(Main, k)' = Weight(Main, k)
    BY <1>40, <1>a, <1>b, <1>c
    DEF JoinWorkers, threads, locals, Weight, Serving, Posting, SendPostPcs, RecvPostPcs
  <2>3. m_IOCount'[k] = m_IOCount[k]
        /\ recvs'[k] = recvs[k] /\ sends'[k] = sends[k] /\ lost'[k] = lost[k] /\ iocp' = iocp
    BY <1>40 DEF JoinWorkers, session, others, kernel, requests
  <2> QED
    BY <1>b, <1>n, <2>1, <2>2, <2>3
<1>41. CASE Stop
  <2>1. \A u \in Threads : u # Main => pc'[u] = pc[u] /\ chan'[u] = chan[u]
    BY <1>41, <1>a, <1>b DEF Stop, Goto, threads, locals
  <2>2. Weight(Main, k)' = Weight(Main, k)
    BY <1>41, <1>a, <1>b, <1>c
    DEF Stop, Goto, threads, locals, Weight, Serving, Posting, SendPostPcs, RecvPostPcs
  <2>3. m_IOCount'[k] = m_IOCount[k]
        /\ recvs'[k] = recvs[k] /\ sends'[k] = sends[k] /\ lost'[k] = lost[k] /\ iocp' = iocp
    BY <1>41 DEF Stop, Goto, session, others, kernel, requests
  <2> QED
    BY <1>b, <1>n, <2>1, <2>2, <2>3
<1>42. ASSUME NEW t \in Callers, SendPacket(t) PROVE Balanced(k)'
  <2>1. \A u \in Threads : u # t => pc'[u] = pc[u] /\ chan'[u] = chan[u]
    BY <1>42, <1>a, <1>b DEF SendPacket, SendPacketImpl, threads, locals
  <2>2. Weight(t, k)' = Weight(t, k)
    BY <1>42, <1>a, <1>b, <1>c
    DEF SendPacket, SendPacketImpl, threads, locals, Weight, Serving, Posting,
        SendPostPcs, RecvPostPcs
  <2>3. m_IOCount'[k] = m_IOCount[k]
        /\ recvs'[k] = recvs[k] /\ sends'[k] = sends[k] /\ lost'[k] = lost[k] /\ iocp' = iocp
    BY <1>42 DEF SendPacket, SendPacketImpl, session, others, kernel, requests
  <2> QED
    BY <1>b, <1>n, <2>1, <2>2, <2>3
<1>43. ASSUME NEW t \in Callers, SendPacketFixed(t) PROVE Balanced(k)'
  <2>1. \A u \in Threads : u # t => pc'[u] = pc[u] /\ chan'[u] = chan[u]
    BY <1>43, <1>a, <1>b DEF SendPacketFixed, SendPacketImpl, threads, locals
  <2>2. Weight(t, k)' = Weight(t, k)
    BY <1>43, <1>a, <1>b, <1>c
    DEF SendPacketFixed, SendPacketImpl, threads, locals, Weight, Serving, Posting,
        SendPostPcs, RecvPostPcs
  <2>3. m_IOCount'[k] = m_IOCount[k]
        /\ recvs'[k] = recvs[k] /\ sends'[k] = sends[k] /\ lost'[k] = lost[k] /\ iocp' = iocp
    BY <1>43 DEF SendPacketFixed, SendPacketImpl, session, others, kernel, requests
  <2> QED
    BY <1>b, <1>n, <2>1, <2>2, <2>3
<1>44. ASSUME NEW c \in Channels, SendCompletes(c) PROVE Balanced(k)'
  <2>1. \A u \in Threads : u # Main => pc'[u] = pc[u] /\ chan'[u] = chan[u]
    BY <1>44, <1>a, <1>b DEF SendCompletes, Completed, threads, locals
  <2>2. m_IOCount'[k] = m_IOCount[k] + 0 + 0 /\ Weight(Main, k)' = Weight(Main, k) + 0
    <3>1. m_IOCount' = m_IOCount /\ pc' = pc /\ chan' = chan
      BY <1>44 DEF SendCompletes, Completed, session, threads, locals
    <3> QED
      BY <1>b, <1>e, <1>f, <3>1 DEF Weight, Serving, Posting
  <2> DEFINE x == [io |-> "send", chan |-> c]
             b == bound[sends[c]]
  <2>3. /\ iocp' = IF b THEN Append(iocp, x) ELSE iocp
        /\ lost' = IF b THEN lost ELSE [lost EXCEPT ![c] = lost[c] + 1]
    BY <1>44 DEF SendCompletes, Completed
  <2>4. x \in Entries /\ x.chan = c /\ lost[k] \in Nat
    BY <1>a DEF Entries
  <2> HIDE DEF x, b
  <2>5. /\ Cardinality(Arrived(k)') = Cardinality(Arrived(k)) + (IF b /\ c = k THEN 1 ELSE 0)
        /\ lost'[k] = lost[k] + (IF ~b /\ c = k THEN 1 ELSE 0)
    <3>1. CASE b
      BY <1>t, <2>3, <2>4, <3>1
    <3>2. CASE ~b
      BY <1>a, <1>e, <1>r, <2>3, <2>4, <3>2
    <3> QED
      BY <3>1, <3>2
  <2>6. Receives(k)' = Receives(k)
    BY <1>44, <1>r DEF SendCompletes
  <2>7. sends'[k] = IF c = k THEN INVALID_SOCKET ELSE sends[k]
    BY <1>44, <1>a DEF SendCompletes
  <2>8. c = k => sends[k] # INVALID_SOCKET
    BY <1>44 DEF SendCompletes
  <2>9. Pending(k)' = Pending(k) + 0
    BY <1>e, <2>4, <2>5, <2>6, <2>7, <2>8 DEF Pending
  <2> QED
    BY <1>b, <1>m, <2>1, <2>2, <2>9
<1>45. ASSUME NEW c \in Channels, NEW s \in Sockets, RecvAborts(c, s) PROVE Balanced(k)'
  <2>1. \A u \in Threads : u # Main => pc'[u] = pc[u] /\ chan'[u] = chan[u]
    BY <1>45, <1>a, <1>b DEF RecvAborts, Completed, threads, locals
  <2>2. m_IOCount'[k] = m_IOCount[k] + 0 + 0 /\ Weight(Main, k)' = Weight(Main, k) + 0
    <3>1. m_IOCount' = m_IOCount /\ pc' = pc /\ chan' = chan
      BY <1>45 DEF RecvAborts, Completed, session, threads, locals
    <3> QED
      BY <1>b, <1>e, <1>f, <3>1 DEF Weight, Serving, Posting
  <2> DEFINE x == [io |-> "recv0", chan |-> c]
             b == bound[s]
  <2>3. /\ iocp' = IF b THEN Append(iocp, x) ELSE iocp
        /\ lost' = IF b THEN lost ELSE [lost EXCEPT ![c] = lost[c] + 1]
    BY <1>45 DEF RecvAborts, Completed
  <2>4. x \in Entries /\ x.chan = c /\ lost[k] \in Nat
    BY <1>a DEF Entries
  <2> HIDE DEF x, b
  <2>5. /\ Cardinality(Arrived(k)') = Cardinality(Arrived(k)) + (IF b /\ c = k THEN 1 ELSE 0)
        /\ lost'[k] = lost[k] + (IF ~b /\ c = k THEN 1 ELSE 0)
    <3>1. CASE b
      BY <1>t, <2>3, <2>4, <3>1
    <3>2. CASE ~b
      BY <1>a, <1>e, <1>r, <2>3, <2>4, <3>2
    <3> QED
      BY <3>1, <3>2
  <2>6. Cardinality(Receives(k)') = Cardinality(Receives(k)) - (IF c = k THEN 1 ELSE 0)
    <3>1. CASE c = k
      <4>1. /\ recvs[k] \in [Sockets -> Nat] /\ recvs[k][s] > 0
            /\ recvs'[k] = [recvs[k] EXCEPT ![s] = recvs[k][s] - 1]
        BY <1>45, <1>a, <3>1 DEF RecvAborts
      <4> QED
        BY <1>r, <3>1, <4>1, HeldLoses
    <3>2. CASE c # k
      <4>1. recvs'[k] = recvs[k]
        BY <1>45, <1>a, <3>2 DEF RecvAborts
      <4> QED
        BY <1>e, <1>r, <3>2, <4>1
    <3> QED
      BY <3>1, <3>2
  <2>7. sends'[k] = sends[k]
    BY <1>45 DEF RecvAborts
  <2>8. Pending(k)' = Pending(k) + 0
    BY <1>e, <2>4, <2>5, <2>6, <2>7 DEF Pending
  <2> QED
    BY <1>b, <1>m, <2>1, <2>2, <2>8
<1>46. ASSUME NEW c \in Channels, NEW s \in Sockets, RecvCompletes(c, s) PROVE Balanced(k)'
  <2>1. \A u \in Threads : u # Main => pc'[u] = pc[u] /\ chan'[u] = chan[u]
    BY <1>46, <1>a, <1>b DEF RecvCompletes, Completed, threads, locals
  <2>2. m_IOCount'[k] = m_IOCount[k] + 0 + 0 /\ Weight(Main, k)' = Weight(Main, k) + 0
    <3>1. m_IOCount' = m_IOCount /\ pc' = pc /\ chan' = chan
      BY <1>46 DEF RecvCompletes, Completed, session, threads, locals
    <3> QED
      BY <1>b, <1>e, <1>f, <3>1 DEF Weight, Serving, Posting
  <2> DEFINE x == [io |-> "recv", chan |-> c]
             b == bound[s]
  <2>3. /\ iocp' = IF b THEN Append(iocp, x) ELSE iocp
        /\ lost' = IF b THEN lost ELSE [lost EXCEPT ![c] = lost[c] + 1]
    BY <1>46 DEF RecvCompletes, Completed
  <2>4. x \in Entries /\ x.chan = c /\ lost[k] \in Nat
    BY <1>a DEF Entries
  <2> HIDE DEF x, b
  <2>5. /\ Cardinality(Arrived(k)') = Cardinality(Arrived(k)) + (IF b /\ c = k THEN 1 ELSE 0)
        /\ lost'[k] = lost[k] + (IF ~b /\ c = k THEN 1 ELSE 0)
    <3>1. CASE b
      BY <1>t, <2>3, <2>4, <3>1
    <3>2. CASE ~b
      BY <1>a, <1>e, <1>r, <2>3, <2>4, <3>2
    <3> QED
      BY <3>1, <3>2
  <2>6. Cardinality(Receives(k)') = Cardinality(Receives(k)) - (IF c = k THEN 1 ELSE 0)
    <3>1. CASE c = k
      <4>1. /\ recvs[k] \in [Sockets -> Nat] /\ recvs[k][s] > 0
            /\ recvs'[k] = [recvs[k] EXCEPT ![s] = recvs[k][s] - 1]
        BY <1>46, <1>a, <3>1 DEF RecvCompletes
      <4> QED
        BY <1>r, <3>1, <4>1, HeldLoses
    <3>2. CASE c # k
      <4>1. recvs'[k] = recvs[k]
        BY <1>46, <1>a, <3>2 DEF RecvCompletes
      <4> QED
        BY <1>e, <1>r, <3>2, <4>1
    <3> QED
      BY <3>1, <3>2
  <2>7. sends'[k] = sends[k]
    BY <1>46 DEF RecvCompletes
  <2>8. Pending(k)' = Pending(k) + 0
    BY <1>e, <2>4, <2>5, <2>6, <2>7 DEF Pending
  <2> QED
    BY <1>b, <1>m, <2>1, <2>2, <2>8
<1>47. ASSUME NEW s \in Sockets, ServerDisconnects(s) PROVE Balanced(k)'
  <2>1. \A u \in Threads : u # Main => pc'[u] = pc[u] /\ chan'[u] = chan[u]
    BY <1>47, <1>a, <1>b DEF ServerDisconnects, threads, locals
  <2>2. Weight(Main, k)' = Weight(Main, k)
    BY <1>47, <1>a, <1>b, <1>c
    DEF ServerDisconnects, threads, locals, Weight, Serving, Posting, SendPostPcs,
        RecvPostPcs
  <2>3. m_IOCount'[k] = m_IOCount[k]
        /\ recvs'[k] = recvs[k] /\ sends'[k] = sends[k] /\ lost'[k] = lost[k] /\ iocp' = iocp
    BY <1>47 DEF ServerDisconnects, session, others, kernel, requests
  <2> QED
    BY <1>b, <1>n, <2>1, <2>2, <2>3
<1>48. CASE UNCHANGED vars
  <2>1. \A u \in Threads : u # Main => pc'[u] = pc[u] /\ chan'[u] = chan[u]
    BY <1>48, <1>a, <1>b DEF vars, threads, locals
  <2>2. Weight(Main, k)' = Weight(Main, k)
    BY <1>48, <1>a, <1>b, <1>c
    DEF vars, threads, locals, Weight, Serving, Posting, SendPostPcs, RecvPostPcs
  <2>3. m_IOCount'[k] = m_IOCount[k]
        /\ recvs'[k] = recvs[k] /\ sends'[k] = sends[k] /\ lost'[k] = lost[k] /\ iocp' = iocp
    BY <1>48 DEF vars, session, others, kernel, requests
  <2> QED
    BY <1>b, <1>n, <2>1, <2>2, <2>3
<1> QED
  BY <1>1, <1>2, <1>3, <1>4, <1>5, <1>6, <1>7, <1>8, <1>9, <1>10, <1>11, <1>12, <1>13,
     <1>14, <1>15, <1>16, <1>17, <1>18, <1>19, <1>20, <1>21, <1>22, <1>23, <1>24, <1>25,
     <1>26, <1>27, <1>28, <1>29, <1>30, <1>31, <1>32, <1>33, <1>34, <1>35, <1>36, <1>37,
     <1>38, <1>39, <1>40, <1>41, <1>42, <1>43, <1>44, <1>45, <1>46, <1>47, <1>48
  DEF Next, Thread, Post, SendPost, Release, Worker, Reconnect, StartAndStop, Kernel,
      Network, Over

LEMMA InitCount == Init => CountInv
<1> SUFFICES ASSUME Init, NEW k \in Channels PROVE Balanced(k)
  BY DEF CountInv
<1>1. /\ recvs[k] = [s \in Sockets |-> 0] /\ sends[k] = INVALID_SOCKET /\ lost[k] = 0
      /\ iocp = <<>> /\ m_IOCount[k] = 0
      /\ \A t \in Threads : pc[t] \in {"start", "gqcs", "peek", "idle"}
  BY DEF Init
<1>2. Receives(k) = {}
  <2>1. \A s \in Sockets : {s} \X (1 .. recvs[k][s]) = {}
    BY <1>1
  <2> QED
    BY <2>1 DEF Receives
<1>3. Arrived(k) = {}
  BY <1>1 DEF Arrived
<1>4. Serving(k) = {} /\ Posting(k) = {}
  BY <1>1 DEF Serving, Posting, SendPostPcs, RecvPostPcs, Threads
<1> QED
  BY <1>1, <1>2, <1>3, <1>4, FS_EmptySet DEF Balanced, Pending, Holders

LEMMA AlwaysCount == Spec => [](IInv /\ CountInv)
<1>1. Init => IInv /\ CountInv
  BY InitInv, InitCount
<1>2. IInv /\ CountInv /\ [Next]_vars => (IInv /\ CountInv)'
  BY NextInv, CountStep
<1> QED
  BY <1>1, <1>2, PTL DEF Spec

(* m_IOCount of a channel whose ring was never full is the number of its     *)
(* requests with the kernel, of its completion packets in the port, and of   *)
(* the threads that hold it: no path through RecvPost, SendPost and Worker   *)
(* counts twice or forgets to count, so ReleaseSession runs only when        *)
(* nothing of the channel is left.                                           *)
THEOREM CountIsExact == Spec => []IOCountExact
<1>1. IInv /\ CountInv => IOCountExact
  <2> SUFFICES ASSUME IInv, CountInv, NEW c \in Channels \ filled
               PROVE m_IOCount[c] = Cardinality(Receives(c))
                         + (IF sends[c] = INVALID_SOCKET THEN 0 ELSE 1)
                         + lost[c] + Cardinality(Arrived(c))
                         + Cardinality(Serving(c)) + Cardinality(Posting(c))
    BY DEF IOCountExact
  <2>1. m_IOCount[c] = Pending(c) + Holders(c)
    BY DEF CountInv, Balanced
  <2>2. Cardinality(Receives(c)) \in Nat /\ Cardinality(Arrived(c)) \in Nat /\ lost[c] \in Nat
    BY PendingType DEF IInv, TypeOK
  <2>3. Cardinality(Serving(c)) \in Nat /\ Cardinality(Posting(c)) \in Nat
    <3>1. Serving(c) \in SUBSET Threads /\ Posting(c) \in SUBSET Threads
      BY DEF Serving, Posting, Threads
    <3> QED
      BY <3>1, ThreadsFinite, FS_Subset, FS_CardinalityType
  <2> QED
    BY <2>1, <2>2, <2>3 DEF Pending, Holders
<1> QED
  BY <1>1, AlwaysCount, PTL

-----------------------------------------------------------------------------
(* A channel has one life at a time: it waits for Start, or is counted, or   *)
(* is being released, or waits on the list of the Reconnecter.               *)

(* What each kind of thread does.                                            *)
RoleInv ==
    /\ \A t \in Workers :
          pc[t] \in {"gqcs", "sent", "dec", "exited"} \cup SendPostPcs \cup RecvPostPcs \cup ReleasePcs
    /\ \A t \in Callers : pc[t] \in {"idle"} \cup SendPostPcs \cup ReleasePcs
    /\ pc[Main] \in {"start", "next", "run", "shutdown", "join"} \cup RecvPostPcs \cup ReleasePcs
    /\ pc[Reconnecter] \in {"peek", "socket", "connect", "bind", "pop", "exited"}
                               \cup RecvPostPcs \cup ReleasePcs

(* The Reconnecter works on the first channel of the list.                   *)
HeadInv ==
    pc[Reconnecter] \in {"socket", "connect", "bind", "recvpost"} =>
        chan[Reconnecter] = reconnectIdList[1]

InRelease(t, c) == chan[t] = c /\ pc[t] \in ReleasePcs
Releasing(c) == \E t \in Threads : InRelease(t, c)

(* The first entry is used up when the Reconnecter has counted its receive.  *)
Waiting == {"peek", "socket", "connect", "bind", "recvpost", "exited"}
Entry(i, c) ==
    (i > 1 \/ pc[Reconnecter] \in Waiting) /\ reconnectIdList[i] = c
Listed(c) == \E i \in DOMAIN reconnectIdList : Entry(i, c)
OneEntry(c) == \A i, j \in DOMAIN reconnectIdList : Entry(i, c) /\ Entry(j, c) => i = j

(* Start has not come to the RecvPost of the channel.                        *)
Untouched(c) ==
    \/ pc[Main] \in {"start", "recvpost"} /\ c >= chan[Main]
    \/ pc[Main] \notin {"run", "shutdown", "join"} /\ c > chan[Main]

LifeOf(c) ==
    /\ \A t, u \in Threads : InRelease(t, c) /\ InRelease(u, c) => t = u
    /\ OneEntry(c)
    /\ Releasing(c) => m_IOCount[c] = 0 /\ ~Listed(c) /\ ~Untouched(c)
    /\ Listed(c) => m_IOCount[c] = 0 /\ ~Untouched(c)
    /\ Untouched(c) => m_IOCount[c] = 0

LifeInv == \A c \in Channels \ (disturbed \cup filled) : LifeOf(c)

LEMMA RoleStep ==
    ASSUME TypeOK, RoleInv, [Next]_vars
    PROVE RoleInv'
<1>a. pc \in [Threads -> Pcs]
  BY DEF TypeOK
<1>b. /\ Workers \subseteq Threads /\ Callers \subseteq Threads
      /\ Main \in Threads /\ Reconnecter \in Threads /\ Main # Reconnecter
      /\ Main \notin Workers \cup Callers /\ Reconnecter \notin Workers \cup Callers
      /\ Callers \cap Workers = {}
      /\ \A t \in Threads : t \in Workers \/ t \in Callers \/ t = Main \/ t = Reconnecter
  BY LanClientAssumption DEF Threads
<1>c. /\ \A t \in Workers : Return(t) = "dec" /\ Deleted(t) = "gqcs"
      /\ \A t \in Callers : Return(t) = "idle" /\ Deleted(t) = "idle"
      /\ Return(Main) = "next" /\ Deleted(Main) = "next"
      /\ Return(Reconnecter) = "pop" /\ Deleted(Reconnecter) = "pop"
  BY <1>b DEF Return, Deleted
<1>1. ASSUME NEW t \in Threads, RecvPostFull(t) PROVE RoleInv'
  BY <1>1, <1>a, <1>b, <1>c
  DEF RecvPostFull, Decrement, Goto, RoleInv, SendPostPcs, RecvPostPcs, ReleasePcs,
      threads
<1>2. ASSUME NEW t \in Threads, RecvPost(t) PROVE RoleInv'
  BY <1>2, <1>a, <1>b, <1>c
  DEF RecvPost, Goto, RoleInv, SendPostPcs, RecvPostPcs, ReleasePcs, threads
<1>3. ASSUME NEW t \in Threads, WSARecv(t) PROVE RoleInv'
  BY <1>3, <1>a, <1>b, <1>c
  DEF WSARecv, Goto, RoleInv, SendPostPcs, RecvPostPcs, ReleasePcs, threads
<1>4. ASSUME NEW t \in Threads, WSARecvFails(t) PROVE RoleInv'
  BY <1>4, <1>a, <1>b, <1>c
  DEF WSARecvFails, Decrement, Goto, RoleInv, SendPostPcs, RecvPostPcs, ReleasePcs,
      threads
<1>5. ASSUME NEW t \in Threads, ClaimIOMode(t) PROVE RoleInv'
  BY <1>5, <1>a, <1>b, <1>c
  DEF ClaimIOMode, Goto, RoleInv, SendPostPcs, RecvPostPcs, ReleasePcs, threads
<1>6. ASSUME NEW t \in Threads, GetUseSize(t) PROVE RoleInv'
  BY <1>6, <1>a, <1>b, <1>c
  DEF GetUseSize, Goto, RoleInv, SendPostPcs, RecvPostPcs, ReleasePcs, threads
<1>7. ASSUME NEW t \in Threads, GiveIOModeBack(t) PROVE RoleInv'
  BY <1>7, <1>a, <1>b, <1>c
  DEF GiveIOModeBack, Goto, RoleInv, SendPostPcs, RecvPostPcs, ReleasePcs, threads
<1>8. ASSUME NEW t \in Threads, Recheck(t) PROVE RoleInv'
  BY <1>8, <1>a, <1>b, <1>c
  DEF Recheck, Goto, RoleInv, SendPostPcs, RecvPostPcs, ReleasePcs, threads
<1>9. ASSUME NEW t \in Threads, FillStore(t) PROVE RoleInv'
  BY <1>9, <1>a, <1>b, <1>c
  DEF FillStore, Goto, RoleInv, SendPostPcs, RecvPostPcs, ReleasePcs, threads
<1>10. ASSUME NEW t \in Threads, CountSend(t) PROVE RoleInv'
  BY <1>10, <1>a, <1>b, <1>c
  DEF CountSend, Goto, RoleInv, SendPostPcs, RecvPostPcs, ReleasePcs, threads
<1>11. ASSUME NEW t \in Threads, WSASend(t) PROVE RoleInv'
  BY <1>11, <1>a, <1>b, <1>c
  DEF WSASend, Goto, RoleInv, SendPostPcs, RecvPostPcs, ReleasePcs, threads
<1>12. ASSUME NEW t \in Threads, WSASendFails(t) PROVE RoleInv'
  BY <1>12, <1>a, <1>b, <1>c
  DEF WSASendFails, Decrement, Goto, RoleInv, SendPostPcs, RecvPostPcs, ReleasePcs,
      threads
<1>13. ASSUME NEW t \in Threads, WSASendCrashes(t) PROVE RoleInv'
  BY <1>13, <1>a, <1>b, <1>c
  DEF WSASendCrashes, RoleInv, SendPostPcs, RecvPostPcs, ReleasePcs, threads
<1>14. ASSUME NEW t \in Threads, ReleaseSession(t) PROVE RoleInv'
  BY <1>14, <1>a, <1>b, <1>c
  DEF ReleaseSession, Goto, RoleInv, SendPostPcs, RecvPostPcs, ReleasePcs, threads
<1>15. ASSUME NEW t \in Threads, DrainSendQ(t) PROVE RoleInv'
  BY <1>15, <1>a, <1>b, <1>c
  DEF DrainSendQ, Goto, RoleInv, SendPostPcs, RecvPostPcs, ReleasePcs, threads
<1>16. ASSUME NEW t \in Threads, CloseSocket(t) PROVE RoleInv'
  BY <1>16, <1>a, <1>b, <1>c
  DEF CloseSocket, Goto, RoleInv, SendPostPcs, RecvPostPcs, ReleasePcs, threads
<1>17. ASSUME NEW t \in Threads, InvalidateSocket(t) PROVE RoleInv'
  BY <1>17, <1>a, <1>b, <1>c
  DEF InvalidateSocket, Goto, RoleInv, SendPostPcs, RecvPostPcs, ReleasePcs, threads
<1>18. ASSUME NEW t \in Threads, AppendToList(t) PROVE RoleInv'
  BY <1>18, <1>a, <1>b, <1>c
  DEF AppendToList, Goto, RoleInv, SendPostPcs, RecvPostPcs, ReleasePcs, threads
<1>19. ASSUME NEW t \in Threads, AppendToListRaces(t) PROVE RoleInv'
  BY <1>19, <1>a, <1>b, <1>c
  DEF AppendToListRaces, Goto, RoleInv, SendPostPcs, RecvPostPcs, ReleasePcs, threads
<1>20. ASSUME NEW t \in Workers, RecvZero(t) PROVE RoleInv'
  BY <1>20, <1>a, <1>b, <1>c
  DEF RecvZero, Dequeued, RoleInv, SendPostPcs, RecvPostPcs, ReleasePcs, threads
<1>21. ASSUME NEW t \in Workers, RecvData(t) PROVE RoleInv'
  BY <1>21, <1>a, <1>b, <1>c
  DEF RecvData, Dequeued, RoleInv, SendPostPcs, RecvPostPcs, ReleasePcs, threads
<1>22. ASSUME NEW t \in Workers, SendDone(t) PROVE RoleInv'
  BY <1>22, <1>a, <1>b, <1>c
  DEF SendDone, Dequeued, RoleInv, SendPostPcs, RecvPostPcs, ReleasePcs, threads
<1>23. ASSUME NEW t \in Workers, SendNext(t) PROVE RoleInv'
  BY <1>23, <1>a, <1>b, <1>c
  DEF SendNext, Goto, RoleInv, SendPostPcs, RecvPostPcs, ReleasePcs, threads
<1>24. ASSUME NEW t \in Workers, IODone(t) PROVE RoleInv'
  BY <1>24, <1>a, <1>b, <1>c
  DEF IODone, Decrement, Goto, RoleInv, SendPostPcs, RecvPostPcs, ReleasePcs, threads
<1>25. ASSUME NEW t \in Workers, WorkerStops(t) PROVE RoleInv'
  BY <1>25, <1>a, <1>b, <1>c
  DEF WorkerStops, RoleInv, SendPostPcs, RecvPostPcs, ReleasePcs, threads
<1>26. ASSUME NEW t \in Workers, OverlappedNull(t) PROVE RoleInv'
  BY <1>26, <1>a, <1>b, <1>c
  DEF OverlappedNull, Dequeued, RoleInv, SendPostPcs, RecvPostPcs, ReleasePcs, threads
<1>27. CASE PeekList
  BY <1>27, <1>a, <1>b, <1>c
  DEF PeekList, Goto, RoleInv, SendPostPcs, RecvPostPcs, ReleasePcs, threads
<1>28. CASE SeeStopClient
  BY <1>28, <1>a, <1>b, <1>c
  DEF SeeStopClient, ReconnecterEnds, RoleInv, SendPostPcs, RecvPostPcs, ReleasePcs,
      threads
<1>29. CASE NewSocket
  BY <1>29, <1>a, <1>b, <1>c
  DEF NewSocket, Goto, RoleInv, SendPostPcs, RecvPostPcs, ReleasePcs, threads
<1>30. CASE NewSocketFails
  BY <1>30, <1>a, <1>b, <1>c
  DEF NewSocketFails, ReconnecterEnds, RoleInv, SendPostPcs, RecvPostPcs, ReleasePcs,
      threads
<1>31. CASE Connect
  BY <1>31, <1>a, <1>b, <1>c
  DEF Connect, Goto, RoleInv, SendPostPcs, RecvPostPcs, ReleasePcs, threads
<1>32. CASE SetsockoptFails
  BY <1>32, <1>a, <1>b, <1>c
  DEF SetsockoptFails, ReconnecterEnds, RoleInv, SendPostPcs, RecvPostPcs, ReleasePcs,
      threads
<1>33. CASE BindToIOCP
  BY <1>33, <1>a, <1>b, <1>c
  DEF BindToIOCP, Goto, RoleInv, SendPostPcs, RecvPostPcs, ReleasePcs, threads
<1>34. CASE PopList
  BY <1>34, <1>a, <1>b, <1>c
  DEF PopList, Goto, RoleInv, SendPostPcs, RecvPostPcs, ReleasePcs, threads
<1>35. CASE StartChannel
  BY <1>35, <1>a, <1>b, <1>c
  DEF StartChannel, Goto, RoleInv, SendPostPcs, RecvPostPcs, ReleasePcs, threads
<1>36. CASE StartFails
  BY <1>36, <1>a, <1>b, <1>c
  DEF StartFails, RoleInv, SendPostPcs, RecvPostPcs, ReleasePcs, threads
<1>37. CASE NextChannel
  BY <1>37, <1>a, <1>b, <1>c
  DEF NextChannel, Goto, RoleInv, SendPostPcs, RecvPostPcs, ReleasePcs, threads
<1>38. CASE ShutdownChannel
  BY <1>38, <1>a, <1>b, <1>c
  DEF ShutdownChannel, RoleInv, SendPostPcs, RecvPostPcs, ReleasePcs, threads
<1>39. CASE PostStop
  BY <1>39, <1>a, <1>b, <1>c
  DEF PostStop, Goto, RoleInv, SendPostPcs, RecvPostPcs, ReleasePcs, threads
<1>40. CASE JoinWorkers
  BY <1>40, <1>a, <1>b, <1>c
  DEF JoinWorkers, RoleInv, SendPostPcs, RecvPostPcs, ReleasePcs, threads
<1>41. CASE Stop
  BY <1>41, <1>a, <1>b, <1>c
  DEF Stop, Goto, RoleInv, SendPostPcs, RecvPostPcs, ReleasePcs, threads
<1>42. ASSUME NEW t \in Callers, SendPacket(t) PROVE RoleInv'
  BY <1>42, <1>a, <1>b, <1>c
  DEF SendPacket, SendPacketImpl, RoleInv, SendPostPcs, RecvPostPcs, ReleasePcs, threads
<1>43. ASSUME NEW t \in Callers, SendPacketFixed(t) PROVE RoleInv'
  BY <1>43, <1>a, <1>b, <1>c
  DEF SendPacketFixed, SendPacketImpl, RoleInv, SendPostPcs, RecvPostPcs, ReleasePcs,
      threads
<1>44. ASSUME NEW c \in Channels, SendCompletes(c) PROVE RoleInv'
  BY <1>44, <1>a, <1>b, <1>c
  DEF SendCompletes, Completed, RoleInv, SendPostPcs, RecvPostPcs, ReleasePcs, threads
<1>45. ASSUME NEW c \in Channels, NEW s \in Sockets, RecvAborts(c, s) PROVE RoleInv'
  BY <1>45, <1>a, <1>b, <1>c
  DEF RecvAborts, Completed, RoleInv, SendPostPcs, RecvPostPcs, ReleasePcs, threads
<1>46. ASSUME NEW c \in Channels, NEW s \in Sockets, RecvCompletes(c, s) PROVE RoleInv'
  BY <1>46, <1>a, <1>b, <1>c
  DEF RecvCompletes, Completed, RoleInv, SendPostPcs, RecvPostPcs, ReleasePcs, threads
<1>47. ASSUME NEW s \in Sockets, ServerDisconnects(s) PROVE RoleInv'
  BY <1>47, <1>a, <1>b, <1>c
  DEF ServerDisconnects, RoleInv, SendPostPcs, RecvPostPcs, ReleasePcs, threads
<1>48. CASE UNCHANGED vars
  BY <1>48, <1>a, <1>b, <1>c DEF vars, RoleInv, SendPostPcs, RecvPostPcs, ReleasePcs, threads
<1> QED
  BY <1>1, <1>2, <1>3, <1>4, <1>5, <1>6, <1>7, <1>8, <1>9, <1>10, <1>11, <1>12, <1>13,
     <1>14, <1>15, <1>16, <1>17, <1>18, <1>19, <1>20, <1>21, <1>22, <1>23, <1>24, <1>25,
     <1>26, <1>27, <1>28, <1>29, <1>30, <1>31, <1>32, <1>33, <1>34, <1>35, <1>36, <1>37,
     <1>38, <1>39, <1>40, <1>41, <1>42, <1>43, <1>44, <1>45, <1>46, <1>47, <1>48
  DEF Next, Thread, Post, SendPost, Release, Worker, Reconnect, StartAndStop, Kernel,
      Network, Over

LEMMA HeadStep ==
    ASSUME TypeOK, RoleInv, HeadInv, ListInv, [Next]_vars
    PROVE HeadInv'
<1>a. /\ pc \in [Threads -> Pcs] /\ chan \in [Threads -> 0 .. NumOfSession]
      /\ reconnectIdList \in Seq(Channels)
  BY DEF TypeOK
<1>b. /\ Workers \subseteq Threads /\ Callers \subseteq Threads
      /\ Main \in Threads /\ Reconnecter \in Threads /\ Main # Reconnecter
      /\ Main \notin Workers \cup Callers /\ Reconnecter \notin Workers \cup Callers
  BY LanClientAssumption DEF Threads
<1>c. \A t : /\ Return(t) \notin {"socket", "connect", "bind", "recvpost"}
             /\ Deleted(t) \notin {"socket", "connect", "bind", "recvpost"}
  BY PcsHas
<1>1. ASSUME NEW t \in Threads, RecvPostFull(t) PROVE HeadInv'
  BY <1>1, <1>a, <1>b, <1>c
  DEF RecvPostFull, Decrement, Goto, HeadInv, threads, locals, others, client, kernel
<1>2. ASSUME NEW t \in Threads, RecvPost(t) PROVE HeadInv'
  BY <1>2, <1>a, <1>b, <1>c
  DEF RecvPost, Goto, HeadInv, threads, locals, others, client, kernel
<1>3. ASSUME NEW t \in Threads, WSARecv(t) PROVE HeadInv'
  BY <1>3, <1>a, <1>b, <1>c DEF WSARecv, Goto, HeadInv, threads, locals, others, client, kernel
<1>4. ASSUME NEW t \in Threads, WSARecvFails(t) PROVE HeadInv'
  BY <1>4, <1>a, <1>b, <1>c
  DEF WSARecvFails, Decrement, Goto, HeadInv, threads, locals, others, client, kernel
<1>5. ASSUME NEW t \in Threads, ClaimIOMode(t) PROVE HeadInv'
  BY <1>5, <1>a, <1>b, <1>c
  DEF ClaimIOMode, Goto, HeadInv, threads, locals, others, client, kernel
<1>6. ASSUME NEW t \in Threads, GetUseSize(t) PROVE HeadInv'
  BY <1>6, <1>a, <1>b, <1>c
  DEF GetUseSize, Goto, HeadInv, threads, locals, others, client, kernel
<1>7. ASSUME NEW t \in Threads, GiveIOModeBack(t) PROVE HeadInv'
  BY <1>7, <1>a, <1>b, <1>c
  DEF GiveIOModeBack, Goto, HeadInv, threads, locals, others, client, kernel
<1>8. ASSUME NEW t \in Threads, Recheck(t) PROVE HeadInv'
  BY <1>8, <1>a, <1>b, <1>c DEF Recheck, Goto, HeadInv, threads, locals, others, client, kernel
<1>9. ASSUME NEW t \in Threads, FillStore(t) PROVE HeadInv'
  BY <1>9, <1>a, <1>b, <1>c
  DEF FillStore, Goto, HeadInv, threads, locals, others, client, kernel
<1>10. ASSUME NEW t \in Threads, CountSend(t) PROVE HeadInv'
  BY <1>10, <1>a, <1>b, <1>c
  DEF CountSend, Goto, HeadInv, threads, locals, others, client, kernel
<1>11. ASSUME NEW t \in Threads, WSASend(t) PROVE HeadInv'
  BY <1>11, <1>a, <1>b, <1>c DEF WSASend, Goto, HeadInv, threads, locals, others, client, kernel
<1>12. ASSUME NEW t \in Threads, WSASendFails(t) PROVE HeadInv'
  BY <1>12, <1>a, <1>b, <1>c
  DEF WSASendFails, Decrement, Goto, HeadInv, threads, locals, others, client, kernel
<1>13. ASSUME NEW t \in Threads, WSASendCrashes(t) PROVE HeadInv'
  BY <1>13, <1>a, <1>b, <1>c
  DEF WSASendCrashes, HeadInv, threads, locals, others, client, kernel
<1>14. ASSUME NEW t \in Threads, ReleaseSession(t) PROVE HeadInv'
  BY <1>14, <1>a, <1>b, <1>c
  DEF ReleaseSession, Goto, HeadInv, threads, locals, others, client, kernel
<1>15. ASSUME NEW t \in Threads, DrainSendQ(t) PROVE HeadInv'
  BY <1>15, <1>a, <1>b, <1>c
  DEF DrainSendQ, Goto, HeadInv, threads, locals, others, client, kernel
<1>16. ASSUME NEW t \in Threads, CloseSocket(t) PROVE HeadInv'
  BY <1>16, <1>a, <1>b, <1>c
  DEF CloseSocket, Goto, HeadInv, threads, locals, others, client, kernel
<1>17. ASSUME NEW t \in Threads, InvalidateSocket(t) PROVE HeadInv'
  BY <1>17, <1>a, <1>b, <1>c
  DEF InvalidateSocket, Goto, HeadInv, threads, locals, others, client, kernel
<1>18. ASSUME NEW t \in Threads, AppendToList(t) PROVE HeadInv'
  <2>1. pc'[Reconnecter] \in {"socket", "connect", "bind", "recvpost"} =>
            /\ pc[Reconnecter] \in {"socket", "connect", "bind", "recvpost"}
            /\ chan'[Reconnecter] = chan[Reconnecter]
    BY <1>18, <1>a, <1>b, <1>c DEF AppendToList, Goto, locals
  <2>2. reconnectIdList # <<>> => reconnectIdList'[1] = reconnectIdList[1]
    BY <1>18, <1>a DEF AppendToList
  <2> QED
    BY <2>1, <2>2 DEF HeadInv, ListInv
<1>19. ASSUME NEW t \in Threads, AppendToListRaces(t) PROVE HeadInv'
  BY <1>19, <1>a, <1>b, <1>c
  DEF AppendToListRaces, Goto, HeadInv, threads, locals, others, client, kernel
<1>20. ASSUME NEW t \in Workers, RecvZero(t) PROVE HeadInv'
  BY <1>20, <1>a, <1>b, <1>c
  DEF RecvZero, Dequeued, HeadInv, threads, locals, others, client, kernel
<1>21. ASSUME NEW t \in Workers, RecvData(t) PROVE HeadInv'
  BY <1>21, <1>a, <1>b, <1>c
  DEF RecvData, Dequeued, HeadInv, threads, locals, others, client, kernel
<1>22. ASSUME NEW t \in Workers, SendDone(t) PROVE HeadInv'
  BY <1>22, <1>a, <1>b, <1>c
  DEF SendDone, Dequeued, HeadInv, threads, locals, others, client, kernel
<1>23. ASSUME NEW t \in Workers, SendNext(t) PROVE HeadInv'
  BY <1>23, <1>a, <1>b, <1>c
  DEF SendNext, Goto, HeadInv, threads, locals, others, client, kernel
<1>24. ASSUME NEW t \in Workers, IODone(t) PROVE HeadInv'
  BY <1>24, <1>a, <1>b, <1>c
  DEF IODone, Decrement, Goto, HeadInv, threads, locals, others, client, kernel
<1>25. ASSUME NEW t \in Workers, WorkerStops(t) PROVE HeadInv'
  BY <1>25, <1>a, <1>b, <1>c DEF WorkerStops, HeadInv, threads, locals, others, client, kernel
<1>26. ASSUME NEW t \in Workers, OverlappedNull(t) PROVE HeadInv'
  BY <1>26, <1>a, <1>b, <1>c
  DEF OverlappedNull, Dequeued, HeadInv, threads, locals, others, client, kernel
<1>27. CASE PeekList
  <2>1. Head(reconnectIdList) = reconnectIdList[1]
    BY <1>27, <1>a, HeadTailProperties DEF PeekList
  <2> QED
    BY <1>27, <1>a, <1>b, <2>1 DEF PeekList, Goto, HeadInv, others, client
<1>28. CASE SeeStopClient
  BY <1>28, <1>a, <1>b, <1>c
  DEF SeeStopClient, ReconnecterEnds, HeadInv, threads, locals, others, client, kernel
<1>29. CASE NewSocket
  BY <1>29, <1>a, <1>b, <1>c
  DEF NewSocket, Goto, HeadInv, threads, locals, others, client, kernel
<1>30. CASE NewSocketFails
  BY <1>30, <1>a, <1>b, <1>c
  DEF NewSocketFails, ReconnecterEnds, HeadInv, threads, locals, others, client, kernel
<1>31. CASE Connect
  BY <1>31, <1>a, <1>b, <1>c DEF Connect, Goto, HeadInv, threads, locals, others, client, kernel
<1>32. CASE SetsockoptFails
  BY <1>32, <1>a, <1>b, <1>c
  DEF SetsockoptFails, ReconnecterEnds, HeadInv, threads, locals, others, client, kernel
<1>33. CASE BindToIOCP
  BY <1>33, <1>a, <1>b, <1>c
  DEF BindToIOCP, Goto, HeadInv, threads, locals, others, client, kernel
<1>34. CASE PopList
  BY <1>34, <1>a, <1>b, <1>c DEF PopList, Goto, HeadInv, threads, locals, others, client, kernel
<1>35. CASE StartChannel
  BY <1>35, <1>a, <1>b, <1>c
  DEF StartChannel, Goto, HeadInv, threads, locals, others, client, kernel
<1>36. CASE StartFails
  BY <1>36, <1>a, <1>b, <1>c DEF StartFails, HeadInv, threads, locals, others, client, kernel
<1>37. CASE NextChannel
  BY <1>37, <1>a, <1>b, <1>c
  DEF NextChannel, Goto, HeadInv, threads, locals, others, client, kernel
<1>38. CASE ShutdownChannel
  BY <1>38, <1>a, <1>b, <1>c
  DEF ShutdownChannel, HeadInv, threads, locals, others, client, kernel
<1>39. CASE PostStop
  BY <1>39, <1>a, <1>b, <1>c
  DEF PostStop, Goto, HeadInv, threads, locals, others, client, kernel
<1>40. CASE JoinWorkers
  BY <1>40, <1>a, <1>b, <1>c DEF JoinWorkers, HeadInv, threads, locals, others, client, kernel
<1>41. CASE Stop
  BY <1>41, <1>a, <1>b, <1>c DEF Stop, Goto, HeadInv, threads, locals, others, client, kernel
<1>42. ASSUME NEW t \in Callers, SendPacket(t) PROVE HeadInv'
  BY <1>42, <1>a, <1>b, <1>c
  DEF SendPacket, SendPacketImpl, HeadInv, threads, locals, others, client, kernel
<1>43. ASSUME NEW t \in Callers, SendPacketFixed(t) PROVE HeadInv'
  BY <1>43, <1>a, <1>b, <1>c
  DEF SendPacketFixed, SendPacketImpl, HeadInv, threads, locals, others, client, kernel
<1>44. ASSUME NEW c \in Channels, SendCompletes(c) PROVE HeadInv'
  BY <1>44, <1>a, <1>b, <1>c
  DEF SendCompletes, Completed, HeadInv, threads, locals, others, client, kernel
<1>45. ASSUME NEW c \in Channels, NEW s \in Sockets, RecvAborts(c, s) PROVE HeadInv'
  BY <1>45, <1>a, <1>b, <1>c
  DEF RecvAborts, Completed, HeadInv, threads, locals, others, client, kernel
<1>46. ASSUME NEW c \in Channels, NEW s \in Sockets, RecvCompletes(c, s) PROVE HeadInv'
  BY <1>46, <1>a, <1>b, <1>c
  DEF RecvCompletes, Completed, HeadInv, threads, locals, others, client, kernel
<1>47. ASSUME NEW s \in Sockets, ServerDisconnects(s) PROVE HeadInv'
  BY <1>47, <1>a, <1>b, <1>c
  DEF ServerDisconnects, HeadInv, threads, locals, others, client, kernel
<1>48. CASE UNCHANGED vars
  BY <1>48, <1>a, <1>b, <1>c DEF vars, HeadInv, threads, locals, others, client, kernel
<1> QED
  BY <1>1, <1>2, <1>3, <1>4, <1>5, <1>6, <1>7, <1>8, <1>9, <1>10, <1>11, <1>12, <1>13,
     <1>14, <1>15, <1>16, <1>17, <1>18, <1>19, <1>20, <1>21, <1>22, <1>23, <1>24, <1>25,
     <1>26, <1>27, <1>28, <1>29, <1>30, <1>31, <1>32, <1>33, <1>34, <1>35, <1>36, <1>37,
     <1>38, <1>39, <1>40, <1>41, <1>42, <1>43, <1>44, <1>45, <1>46, <1>47, <1>48
  DEF Next, Thread, Post, SendPost, Release, Worker, Reconnect, StartAndStop, Kernel,
      Network, Over

LEMMA DisturbedGrows ==
    ASSUME [Next]_vars
    PROVE disturbed \subseteq disturbed'
<1>1. ASSUME NEW t \in Threads, RecvPostFull(t) PROVE disturbed \subseteq disturbed'
  BY <1>1 DEF RecvPostFull, history, others
<1>2. ASSUME NEW t \in Threads, RecvPost(t) PROVE disturbed \subseteq disturbed'
  BY <1>2 DEF RecvPost, history, others
<1>3. ASSUME NEW t \in Threads, WSARecv(t) PROVE disturbed \subseteq disturbed'
  BY <1>3 DEF WSARecv, history, others
<1>4. ASSUME NEW t \in Threads, WSARecvFails(t) PROVE disturbed \subseteq disturbed'
  BY <1>4 DEF WSARecvFails, history, others
<1>5. ASSUME NEW t \in Threads, ClaimIOMode(t) PROVE disturbed \subseteq disturbed'
  BY <1>5 DEF ClaimIOMode, history, others
<1>6. ASSUME NEW t \in Threads, GetUseSize(t) PROVE disturbed \subseteq disturbed'
  BY <1>6 DEF GetUseSize, history, others
<1>7. ASSUME NEW t \in Threads, GiveIOModeBack(t) PROVE disturbed \subseteq disturbed'
  BY <1>7 DEF GiveIOModeBack, history, others
<1>8. ASSUME NEW t \in Threads, Recheck(t) PROVE disturbed \subseteq disturbed'
  BY <1>8 DEF Recheck, history, others
<1>9. ASSUME NEW t \in Threads, FillStore(t) PROVE disturbed \subseteq disturbed'
  BY <1>9 DEF FillStore, Overlap, history, others
<1>10. ASSUME NEW t \in Threads, CountSend(t) PROVE disturbed \subseteq disturbed'
  BY <1>10 DEF CountSend, Overlap, history, others
<1>11. ASSUME NEW t \in Threads, WSASend(t) PROVE disturbed \subseteq disturbed'
  BY <1>11 DEF WSASend, history, others
<1>12. ASSUME NEW t \in Threads, WSASendFails(t) PROVE disturbed \subseteq disturbed'
  BY <1>12 DEF WSASendFails, history, others
<1>13. ASSUME NEW t \in Threads, WSASendCrashes(t) PROVE disturbed \subseteq disturbed'
  BY <1>13 DEF WSASendCrashes, history, others
<1>14. ASSUME NEW t \in Threads, ReleaseSession(t) PROVE disturbed \subseteq disturbed'
  BY <1>14 DEF ReleaseSession, Overlap, history, others
<1>15. ASSUME NEW t \in Threads, DrainSendQ(t) PROVE disturbed \subseteq disturbed'
  BY <1>15 DEF DrainSendQ, history, others
<1>16. ASSUME NEW t \in Threads, CloseSocket(t) PROVE disturbed \subseteq disturbed'
  BY <1>16 DEF CloseSocket, history, others
<1>17. ASSUME NEW t \in Threads, InvalidateSocket(t) PROVE disturbed \subseteq disturbed'
  BY <1>17 DEF InvalidateSocket, history, others
<1>18. ASSUME NEW t \in Threads, AppendToList(t) PROVE disturbed \subseteq disturbed'
  BY <1>18 DEF AppendToList, history, others
<1>19. ASSUME NEW t \in Threads, AppendToListRaces(t) PROVE disturbed \subseteq disturbed'
  BY <1>19 DEF AppendToListRaces, history, others
<1>20. ASSUME NEW t \in Workers, RecvZero(t) PROVE disturbed \subseteq disturbed'
  BY <1>20 DEF RecvZero, history, others
<1>21. ASSUME NEW t \in Workers, RecvData(t) PROVE disturbed \subseteq disturbed'
  BY <1>21 DEF RecvData, history, others
<1>22. ASSUME NEW t \in Workers, SendDone(t) PROVE disturbed \subseteq disturbed'
  BY <1>22 DEF SendDone, history, others
<1>23. ASSUME NEW t \in Workers, SendNext(t) PROVE disturbed \subseteq disturbed'
  BY <1>23 DEF SendNext, history, others
<1>24. ASSUME NEW t \in Workers, IODone(t) PROVE disturbed \subseteq disturbed'
  BY <1>24 DEF IODone, history, others
<1>25. ASSUME NEW t \in Workers, WorkerStops(t) PROVE disturbed \subseteq disturbed'
  BY <1>25 DEF WorkerStops, history, others
<1>26. ASSUME NEW t \in Workers, OverlappedNull(t) PROVE disturbed \subseteq disturbed'
  BY <1>26 DEF OverlappedNull, history, others
<1>27. CASE PeekList
  BY <1>27 DEF PeekList, history, others
<1>28. CASE SeeStopClient
  BY <1>28 DEF SeeStopClient, ReconnecterEnds, history, others
<1>29. CASE NewSocket
  BY <1>29 DEF NewSocket, history, others
<1>30. CASE NewSocketFails
  BY <1>30 DEF NewSocketFails, ReconnecterEnds, history, others
<1>31. CASE Connect
  BY <1>31 DEF Connect, history, others
<1>32. CASE SetsockoptFails
  BY <1>32 DEF SetsockoptFails, ReconnecterEnds, history, others
<1>33. CASE BindToIOCP
  BY <1>33 DEF BindToIOCP, history, others
<1>34. CASE PopList
  BY <1>34 DEF PopList, history, others
<1>35. CASE StartChannel
  BY <1>35 DEF StartChannel, history, others
<1>36. CASE StartFails
  BY <1>36 DEF StartFails, history, others
<1>37. CASE NextChannel
  BY <1>37 DEF NextChannel, history, others
<1>38. CASE ShutdownChannel
  BY <1>38 DEF ShutdownChannel, history, others
<1>39. CASE PostStop
  BY <1>39 DEF PostStop, history, others
<1>40. CASE JoinWorkers
  BY <1>40 DEF JoinWorkers, history, others
<1>41. CASE Stop
  BY <1>41 DEF Stop, history, others
<1>42. ASSUME NEW t \in Callers, SendPacket(t) PROVE disturbed \subseteq disturbed'
  BY <1>42 DEF SendPacket, SendPacketImpl, history, others
<1>43. ASSUME NEW t \in Callers, SendPacketFixed(t) PROVE disturbed \subseteq disturbed'
  BY <1>43 DEF SendPacketFixed, SendPacketImpl, history, others
<1>44. ASSUME NEW c \in Channels, SendCompletes(c) PROVE disturbed \subseteq disturbed'
  BY <1>44 DEF SendCompletes, Completed, history, others
<1>45. ASSUME NEW c \in Channels, NEW s \in Sockets, RecvAborts(c, s)
       PROVE  disturbed \subseteq disturbed'
  BY <1>45 DEF RecvAborts, Completed, history, others
<1>46. ASSUME NEW c \in Channels, NEW s \in Sockets, RecvCompletes(c, s)
       PROVE  disturbed \subseteq disturbed'
  BY <1>46 DEF RecvCompletes, Completed, history, others
<1>47. ASSUME NEW s \in Sockets, ServerDisconnects(s) PROVE disturbed \subseteq disturbed'
  BY <1>47 DEF ServerDisconnects, history, others
<1>48. CASE UNCHANGED vars
  BY <1>48 DEF vars, history, others
<1> QED
  BY <1>1, <1>2, <1>3, <1>4, <1>5, <1>6, <1>7, <1>8, <1>9, <1>10, <1>11, <1>12, <1>13,
     <1>14, <1>15, <1>16, <1>17, <1>18, <1>19, <1>20, <1>21, <1>22, <1>23, <1>24, <1>25,
     <1>26, <1>27, <1>28, <1>29, <1>30, <1>31, <1>32, <1>33, <1>34, <1>35, <1>36, <1>37,
     <1>38, <1>39, <1>40, <1>41, <1>42, <1>43, <1>44, <1>45, <1>46, <1>47, <1>48
  DEF Next, Thread, Post, SendPost, Release, Worker, Reconnect, StartAndStop, Kernel,
      Network, Over

(* The list after a step that leaves it, appends to it, or pops it.          *)
LEMMA ListStays ==
    ASSUME NEW c, reconnectIdList' = reconnectIdList,
           pc'[Reconnecter] \in Waiting => pc[Reconnecter] \in Waiting
    PROVE (Listed(c)' => Listed(c)) /\ (OneEntry(c) => OneEntry(c)')
<1>1. \A i : Entry(i, c)' => Entry(i, c)
  BY DEF Entry
<1> QED
  BY <1>1 DEF Listed, OneEntry

LEMMA ListGrows ==
    ASSUME NEW c, NEW x \in Channels, reconnectIdList \in Seq(Channels),
           reconnectIdList' = Append(reconnectIdList, x),
           pc'[Reconnecter] \in Waiting => pc[Reconnecter] \in Waiting
    PROVE /\ x # c => (Listed(c)' => Listed(c)) /\ (OneEntry(c) => OneEntry(c)')
          /\ ~Listed(c) => OneEntry(c)'
<1>1. /\ DOMAIN reconnectIdList = 1 .. Len(reconnectIdList) /\ Len(reconnectIdList) \in Nat
      /\ DOMAIN reconnectIdList' = 1 .. Len(reconnectIdList) + 1
      /\ \A i \in 1 .. Len(reconnectIdList) : reconnectIdList'[i] = reconnectIdList[i]
      /\ reconnectIdList'[Len(reconnectIdList) + 1] = x
  <2>1. /\ reconnectIdList' \in Seq(Channels)
        /\ Len(reconnectIdList') = Len(reconnectIdList) + 1
    BY AppendProperties
  <2> QED
    BY <2>1, AppendProperties, LenProperties
<1>2. \A i \in DOMAIN reconnectIdList' : i \in DOMAIN reconnectIdList \/ i = Len(reconnectIdList) + 1
  BY <1>1
<1>3. \A i \in DOMAIN reconnectIdList : Entry(i, c)' => Entry(i, c)
  BY <1>1 DEF Entry
<1>4. ASSUME x # c, NEW n, n = Len(reconnectIdList) + 1 PROVE ~Entry(n, c)'
  BY <1>1, <1>4 DEF Entry
<1>5. ASSUME x # c PROVE (Listed(c)' => Listed(c)) /\ (OneEntry(c) => OneEntry(c)')
  BY <1>2, <1>3, <1>4, <1>5 DEF Listed, OneEntry
<1>6. ASSUME ~Listed(c) PROVE OneEntry(c)'
  BY <1>2, <1>3, <1>6 DEF Listed, OneEntry
<1> QED
  BY <1>5, <1>6

LEMMA ListPops ==
    ASSUME NEW c, reconnectIdList \in Seq(Channels), reconnectIdList # <<>>,
           reconnectIdList' = Tail(reconnectIdList)
    PROVE (Listed(c)' => Listed(c)) /\ (OneEntry(c) => OneEntry(c)')
<1>1. /\ DOMAIN reconnectIdList = 1 .. Len(reconnectIdList) /\ Len(reconnectIdList) \in Nat \ {0}
      /\ DOMAIN reconnectIdList' = 1 .. Len(reconnectIdList) - 1
      /\ \A i \in 1 .. Len(reconnectIdList) - 1 : reconnectIdList'[i] = reconnectIdList[i + 1]
  <2>1. /\ reconnectIdList' \in Seq(Channels)
        /\ Len(reconnectIdList') = Len(reconnectIdList) - 1
    BY HeadTailProperties
  <2> QED
    BY <2>1, HeadTailProperties, LenProperties, EmptySeq
<1>2. \A i \in DOMAIN reconnectIdList' :
          i \in Nat /\ i + 1 \in DOMAIN reconnectIdList /\ (Entry(i, c)' => Entry(i + 1, c))
  BY <1>1 DEF Entry
<1>3. Listed(c)' => Listed(c)
  BY <1>2 DEF Listed
<1>4. ASSUME OneEntry(c) PROVE OneEntry(c)'
  <2> SUFFICES ASSUME NEW i \in DOMAIN reconnectIdList', NEW j \in DOMAIN reconnectIdList',
                      Entry(i, c)', Entry(j, c)'
               PROVE i = j
    BY DEF OneEntry
  <2>1. i + 1 = j + 1
    BY <1>2, <1>4 DEF OneEntry
  <2> QED
    BY <1>2, <2>1
<1> QED
  BY <1>3, <1>4

LEMMA LifeStep ==
    ASSUME IInv, CountInv, RoleInv, HeadInv, LifeInv, [Next]_vars
    PROVE LifeInv'
<1> SUFFICES ASSUME NEW k \in Channels, k \notin disturbed', k \notin filled' PROVE LifeOf(k)'
  BY DEF LifeInv
<1>a. /\ pc \in [Threads -> Pcs] /\ chan \in [Threads -> 0 .. NumOfSession]
      /\ m_IOCount \in [Channels -> Int] /\ reconnectIdList \in Seq(Channels)
  BY DEF IInv, TypeOK
<1>b. /\ Workers \subseteq Threads /\ Callers \subseteq Threads
      /\ Main \in Threads /\ Reconnecter \in Threads /\ Main # Reconnecter
      /\ Main \notin Workers \cup Callers /\ Reconnecter \notin Workers \cup Callers
      /\ \A t \in Threads : t \in Workers \/ t \in Callers \/ t = Main \/ t = Reconnecter
  BY LanClientAssumption DEF Threads
<1>c. \A t : /\ Return(t) \in {"dec", "pop", "next", "idle"}
             /\ Deleted(t) \in {"gqcs", "dec", "pop", "next", "idle"}
  BY PcsHas
<1>d. LifeOf(k) /\ Balanced(k)
  BY FilledGrows, DisturbedGrows DEF LifeInv, CountInv
<1>e. Pending(k) \in Nat /\ Holders(k) \in Nat /\ m_IOCount[k] = Pending(k) + Holders(k)
  BY <1>b, <1>d, PendingType, WeightBound DEF IInv, Balanced
<1>f. \A t \in Threads : pc[t] \notin {"shutdown", "join"} => chan[t] \in Channels
  BY DEF IInv, ChanInv
<1>g. k \in Int /\ chan[Main] \in Int
  BY <1>a, <1>b DEF Channels
<1>h. ASSUME NEW t \in Threads, Weight(t, k) > 0 PROVE m_IOCount[k] # 0
  <2>1. Weight(t, k) \in 0 .. 2 /\ Weight(t, k) <= Holders(k)
    BY WeightBound
  <2> QED
    BY <1>e, <1>h, <2>1
<1>i. m_IOCount[k] # 0 => ~Releasing(k) /\ ~Listed(k) /\ ~Untouched(k)
  BY <1>d DEF LifeOf
<1>n. ASSUME \A u \in Threads : InRelease(u, k)' => InRelease(u, k),
             Listed(k)' => Listed(k), OneEntry(k)', Untouched(k)' => Untouched(k),
             m_IOCount'[k] = m_IOCount[k]
      PROVE LifeOf(k)'
  <2>1. Releasing(k)' => Releasing(k)
    BY <1>n DEF Releasing
  <2> QED
    BY <1>d, <1>n, <2>1 DEF LifeOf
<1>o. ASSUME \A u \in Threads : InRelease(u, k)' => InRelease(u, k),
             reconnectIdList' = reconnectIdList,
             pc'[Reconnecter] \in Waiting => pc[Reconnecter] \in Waiting,
             Untouched(k)' => Untouched(k), m_IOCount'[k] = m_IOCount[k]
      PROVE LifeOf(k)'
  BY <1>d, <1>n, <1>o, ListStays DEF LifeOf
<1>p. ASSUME ~Releasing(k)', ~Listed(k)', OneEntry(k)', ~Untouched(k)'
      PROVE LifeOf(k)'
  BY <1>p DEF LifeOf, Releasing
<1>q. ASSUME m_IOCount[k] # 0, reconnectIdList' = reconnectIdList,
             pc'[Reconnecter] \in Waiting => pc[Reconnecter] \in Waiting,
             Untouched(k)' => Untouched(k)
      PROVE ~Listed(k)' /\ OneEntry(k)' /\ ~Untouched(k)'
  BY <1>d, <1>i, <1>q, ListStays DEF LifeOf
<1>r. ASSUME NEW t \in Threads, m_IOCount[k] # 0, reconnectIdList' = reconnectIdList,
             pc'[Reconnecter] \in Waiting => pc[Reconnecter] \in Waiting,
             Untouched(k)' => Untouched(k),
             \A u \in Threads : u # t => (InRelease(u, k)' => InRelease(u, k)),
             InRelease(t, k)' => m_IOCount'[k] = 0
      PROVE LifeOf(k)'
  <2>1. ~Releasing(k)
    BY <1>i, <1>r
  <2>2. \A u \in Threads : InRelease(u, k)' => u = t
    BY <1>r, <2>1 DEF Releasing
  <2>3. Releasing(k)' => m_IOCount'[k] = 0
    BY <1>r, <2>2 DEF Releasing
  <2>4. ~Listed(k)' /\ OneEntry(k)' /\ ~Untouched(k)'
    BY <1>q, <1>r
  <2> QED
    BY <2>2, <2>3, <2>4 DEF LifeOf
<1>1. ASSUME NEW t \in Threads, RecvPostFull(t) PROVE LifeOf(k)'
  <2>1. chan[t] # k
    BY <1>1 DEF RecvPostFull
  <2>2. \A u \in Threads : InRelease(u, k)' => InRelease(u, k)
    BY <1>1, <1>a, <1>b, <1>c, <2>1
    DEF RecvPostFull, Decrement, Goto, InRelease, ReleasePcs, threads, locals
  <2>3. Untouched(k)' => Untouched(k)
    BY <1>1, <1>a, <1>b, <1>c, <1>g, <2>1
    DEF RecvPostFull, Decrement, Goto, Untouched, threads, locals
  <2>4. /\ reconnectIdList' = reconnectIdList
        /\ pc'[Reconnecter] \in Waiting => pc[Reconnecter] \in Waiting
    BY <1>1, <1>a, <1>b, <1>c
    DEF RecvPostFull, Decrement, Goto, Waiting, threads, others, client
  <2>5. m_IOCount'[k] = m_IOCount[k]
    BY <1>1, <1>a, <1>b, <1>f, <2>1 DEF RecvPostFull, Decrement, Goto, session
  <2> QED
    BY <1>o, <2>2, <2>3, <2>4, <2>5
<1>2. ASSUME NEW t \in Threads, RecvPost(t) PROVE LifeOf(k)'
  <2>1. CASE chan[t] # k
    <3>2. \A u \in Threads : InRelease(u, k)' => InRelease(u, k)
      BY <1>2, <1>a, <1>b, <1>c, <2>1
      DEF RecvPost, Goto, InRelease, ReleasePcs, threads, locals
    <3>3. Untouched(k)' => Untouched(k)
      BY <1>2, <1>a, <1>b, <1>c, <1>g, <2>1 DEF RecvPost, Goto, Untouched, threads, locals
    <3>4. /\ reconnectIdList' = reconnectIdList
          /\ pc'[Reconnecter] \in Waiting => pc[Reconnecter] \in Waiting
      BY <1>2, <1>a, <1>b, <1>c DEF RecvPost, Goto, Waiting, threads, others, client
    <3>5. m_IOCount'[k] = m_IOCount[k]
      BY <1>2, <1>a, <1>b, <1>f, <2>1 DEF RecvPost, Goto, Increment, session
    <3> QED
      BY <1>o, <3>2, <3>3, <3>4, <3>5
  <2>2. CASE chan[t] = k
    <3>2. \A u \in Threads : u # t => (InRelease(u, k)' => InRelease(u, k))
      BY <1>2, <1>a, <1>b DEF RecvPost, Goto, InRelease, locals
    <3>3. Untouched(k)' => Untouched(k)
      BY <1>2, <1>a, <1>b, <1>c, <1>g DEF RecvPost, Goto, Untouched, threads, locals
    <3>4. /\ reconnectIdList' = reconnectIdList
          /\ pc'[Reconnecter] \in Waiting => pc[Reconnecter] \in Waiting
      BY <1>2, <1>a, <1>b, <1>c DEF RecvPost, Goto, Waiting, threads, others, client
    <3>5. pc[t] = "recvpost" /\ pc'[t] = "wsarecv" /\ chan' = chan
      BY <1>2, <1>a DEF RecvPost, Goto, locals
    <3>6. ~InRelease(t, k)' /\ ~InRelease(t, k)
      BY <3>5 DEF InRelease, ReleasePcs
    <3>7. ~Releasing(k) => ~Releasing(k)'
      BY <3>2, <3>6 DEF Releasing
    <3>8. CASE t \in Workers
      <4>1. Weight(t, k) > 0
        BY <2>2, <3>5, <3>8 DEF Weight, Serving, Posting, RecvPostPcs
      <4>2. m_IOCount[k] # 0
        BY <1>h, <4>1
      <4> QED
        BY <1>r, <3>2, <3>3, <3>4, <3>6, <4>2
    <3>9. CASE t \in Callers
      BY <3>5, <3>9 DEF RoleInv, SendPostPcs, ReleasePcs
    <3>10. CASE t = Main
      <4>1. Untouched(k)
        BY <1>g, <2>2, <3>5, <3>10 DEF Untouched
      <4>2. ~Releasing(k) /\ ~Listed(k)
        BY <1>d, <4>1 DEF LifeOf
      <4>3. ~Untouched(k)'
        BY <1>g, <2>2, <3>5, <3>10 DEF Untouched
      <4>4. ~Listed(k)' /\ OneEntry(k)'
        BY <1>d, <3>4, <4>2, ListStays DEF LifeOf
      <4> QED
        BY <1>p, <3>7, <4>2, <4>3, <4>4
    <3>11. CASE t = Reconnecter
      <4>1. reconnectIdList # <<>> /\ reconnectIdList[1] = k
        BY <2>2, <3>5, <3>11 DEF HeadInv, IInv, ListInv
      <4>2. 1 \in DOMAIN reconnectIdList /\ Entry(1, k) /\ DOMAIN reconnectIdList \subseteq Nat \ {0}
        <5>1. DOMAIN reconnectIdList = 1 .. Len(reconnectIdList) /\ Len(reconnectIdList) \in Nat \ {0}
          BY <1>a, <4>1, LenProperties, EmptySeq
        <5> QED
          BY <3>5, <3>11, <4>1, <5>1 DEF Entry, Waiting
      <4>3. Listed(k) /\ OneEntry(k)
        BY <1>d, <4>2 DEF Listed, LifeOf
      <4>4. ~Releasing(k) /\ ~Untouched(k)
        BY <1>d, <4>3 DEF LifeOf
      <4>5. ~Listed(k)'
        <5> SUFFICES ASSUME NEW i \in DOMAIN reconnectIdList, Entry(i, k)' PROVE FALSE
          BY <3>4 DEF Listed
        <5>1. i > 1 /\ Entry(i, k)
          BY <3>4, <3>5, <3>11 DEF Entry, Waiting
        <5>2. i = 1
          BY <4>2, <4>3, <5>1 DEF OneEntry
        <5> QED
          BY <5>1, <5>2
      <4>6. OneEntry(k)' /\ ~Untouched(k)'
        BY <3>3, <3>4, <4>3, <4>4, ListStays
      <4> QED
        BY <1>p, <3>7, <4>4, <4>5, <4>6
    <3> QED
      BY <1>b, <3>8, <3>9, <3>10, <3>11
  <2> QED
    BY <2>1, <2>2
<1>3. ASSUME NEW t \in Threads, WSARecv(t) PROVE LifeOf(k)'
  <2>2. \A u \in Threads : InRelease(u, k)' => InRelease(u, k)
    BY <1>3, <1>a, <1>b, <1>c DEF WSARecv, Goto, InRelease, ReleasePcs, threads, locals
  <2>3. Untouched(k)' => Untouched(k)
    BY <1>3, <1>a, <1>b, <1>c, <1>g DEF WSARecv, Goto, Untouched, threads, locals
  <2>4. /\ reconnectIdList' = reconnectIdList
        /\ pc'[Reconnecter] \in Waiting => pc[Reconnecter] \in Waiting
    BY <1>3, <1>a, <1>b, <1>c DEF WSARecv, Goto, Waiting, threads, others, client
  <2>5. m_IOCount'[k] = m_IOCount[k]
    BY <1>3 DEF WSARecv, Goto, session
  <2> QED
    BY <1>o, <2>2, <2>3, <2>4, <2>5
<1>4. ASSUME NEW t \in Threads, WSARecvFails(t) PROVE LifeOf(k)'
  <2>1. CASE chan[t] # k
    <3>2. \A u \in Threads : InRelease(u, k)' => InRelease(u, k)
      BY <1>4, <1>a, <1>b, <1>c, <2>1
      DEF WSARecvFails, Decrement, Goto, InRelease, ReleasePcs, threads, locals
    <3>3. Untouched(k)' => Untouched(k)
      BY <1>4, <1>a, <1>b, <1>c, <1>g, <2>1
      DEF WSARecvFails, Decrement, Goto, Untouched, threads, locals
    <3>4. /\ reconnectIdList' = reconnectIdList
          /\ pc'[Reconnecter] \in Waiting => pc[Reconnecter] \in Waiting
      BY <1>4, <1>a, <1>b, <1>c
      DEF WSARecvFails, Decrement, Goto, Waiting, threads, others, client
    <3>5. m_IOCount'[k] = m_IOCount[k]
      BY <1>4, <1>a, <1>b, <1>f, <2>1 DEF WSARecvFails, Decrement, Goto, session
    <3> QED
      BY <1>o, <3>2, <3>3, <3>4, <3>5
  <2>2. CASE chan[t] = k
    <3>1. m_IOCount[k] # 0
      <4>1. Weight(t, k) > 0
        BY <1>4, <1>b, <2>2
        DEF WSARecvFails, Decrement, Goto, Weight, Serving, Posting, SendPostPcs,
            RecvPostPcs
      <4> QED
        BY <1>b, <1>h, <4>1
    <3>2. \A u \in Threads : u # t => (InRelease(u, k)' => InRelease(u, k))
      BY <1>4, <1>a, <1>b DEF WSARecvFails, Decrement, Goto, InRelease, locals
    <3>3. Untouched(k)' => Untouched(k)
      BY <1>4, <1>a, <1>b, <1>c, <1>g
      DEF WSARecvFails, Decrement, Goto, Untouched, threads, locals
    <3>4. /\ reconnectIdList' = reconnectIdList
          /\ pc'[Reconnecter] \in Waiting => pc[Reconnecter] \in Waiting
      BY <1>4, <1>a, <1>b, <1>c
      DEF WSARecvFails, Decrement, Goto, Waiting, threads, others, client
    <3>5. InRelease(t, k)' => m_IOCount'[k] = 0
      <4>1. m_IOCount'[k] = m_IOCount[k] - 1
        BY <1>4, <1>a, <2>2 DEF WSARecvFails, Decrement
      <4>2. pc'[t] \in ReleasePcs => m_IOCount[k] = 1
        BY <1>4, <1>a, <1>b, <1>c, <2>2 DEF WSARecvFails, Decrement, Goto, ReleasePcs
      <4> QED
        BY <4>1, <4>2 DEF InRelease
    <3> QED
      BY <1>b, <1>r, <3>1, <3>2, <3>3, <3>4, <3>5
  <2> QED
    BY <2>1, <2>2
<1>5. ASSUME NEW t \in Threads, ClaimIOMode(t) PROVE LifeOf(k)'
  <2>2. \A u \in Threads : InRelease(u, k)' => InRelease(u, k)
    BY <1>5, <1>a, <1>b, <1>c DEF ClaimIOMode, Goto, InRelease, ReleasePcs, threads, locals
  <2>3. Untouched(k)' => Untouched(k)
    BY <1>5, <1>a, <1>b, <1>c, <1>g DEF ClaimIOMode, Goto, Untouched, threads, locals
  <2>4. /\ reconnectIdList' = reconnectIdList
        /\ pc'[Reconnecter] \in Waiting => pc[Reconnecter] \in Waiting
    BY <1>5, <1>a, <1>b, <1>c DEF ClaimIOMode, Goto, Waiting, threads, others, client
  <2>5. m_IOCount'[k] = m_IOCount[k]
    BY <1>5 DEF ClaimIOMode, Goto, session
  <2> QED
    BY <1>o, <2>2, <2>3, <2>4, <2>5
<1>6. ASSUME NEW t \in Threads, GetUseSize(t) PROVE LifeOf(k)'
  <2>2. \A u \in Threads : InRelease(u, k)' => InRelease(u, k)
    BY <1>6, <1>a, <1>b, <1>c DEF GetUseSize, Goto, InRelease, ReleasePcs, threads, locals
  <2>3. Untouched(k)' => Untouched(k)
    BY <1>6, <1>a, <1>b, <1>c, <1>g DEF GetUseSize, Goto, Untouched, threads, locals
  <2>4. /\ reconnectIdList' = reconnectIdList
        /\ pc'[Reconnecter] \in Waiting => pc[Reconnecter] \in Waiting
    BY <1>6, <1>a, <1>b, <1>c DEF GetUseSize, Goto, Waiting, threads, others, client
  <2>5. m_IOCount'[k] = m_IOCount[k]
    BY <1>6 DEF GetUseSize, Goto, session
  <2> QED
    BY <1>o, <2>2, <2>3, <2>4, <2>5
<1>7. ASSUME NEW t \in Threads, GiveIOModeBack(t) PROVE LifeOf(k)'
  <2>2. \A u \in Threads : InRelease(u, k)' => InRelease(u, k)
    BY <1>7, <1>a, <1>b, <1>c DEF GiveIOModeBack, Goto, InRelease, ReleasePcs, threads, locals
  <2>3. Untouched(k)' => Untouched(k)
    BY <1>7, <1>a, <1>b, <1>c, <1>g DEF GiveIOModeBack, Goto, Untouched, threads, locals
  <2>4. /\ reconnectIdList' = reconnectIdList
        /\ pc'[Reconnecter] \in Waiting => pc[Reconnecter] \in Waiting
    BY <1>7, <1>a, <1>b, <1>c DEF GiveIOModeBack, Goto, Waiting, threads, others, client
  <2>5. m_IOCount'[k] = m_IOCount[k]
    BY <1>7 DEF GiveIOModeBack, Goto, session
  <2> QED
    BY <1>o, <2>2, <2>3, <2>4, <2>5
<1>8. ASSUME NEW t \in Threads, Recheck(t) PROVE LifeOf(k)'
  <2>2. \A u \in Threads : InRelease(u, k)' => InRelease(u, k)
    BY <1>8, <1>a, <1>b, <1>c DEF Recheck, Goto, InRelease, ReleasePcs, threads, locals
  <2>3. Untouched(k)' => Untouched(k)
    BY <1>8, <1>a, <1>b, <1>c, <1>g DEF Recheck, Goto, Untouched, threads, locals
  <2>4. /\ reconnectIdList' = reconnectIdList
        /\ pc'[Reconnecter] \in Waiting => pc[Reconnecter] \in Waiting
    BY <1>8, <1>a, <1>b, <1>c DEF Recheck, Goto, Waiting, threads, others, client
  <2>5. m_IOCount'[k] = m_IOCount[k]
    BY <1>8 DEF Recheck, Goto, session
  <2> QED
    BY <1>o, <2>2, <2>3, <2>4, <2>5
<1>9. ASSUME NEW t \in Threads, FillStore(t) PROVE LifeOf(k)'
  <2>2. \A u \in Threads : InRelease(u, k)' => InRelease(u, k)
    BY <1>9, <1>a, <1>b, <1>c DEF FillStore, Goto, InRelease, ReleasePcs, threads, locals
  <2>3. Untouched(k)' => Untouched(k)
    BY <1>9, <1>a, <1>b, <1>c, <1>g DEF FillStore, Goto, Untouched, threads, locals
  <2>4. /\ reconnectIdList' = reconnectIdList
        /\ pc'[Reconnecter] \in Waiting => pc[Reconnecter] \in Waiting
    BY <1>9, <1>a, <1>b, <1>c DEF FillStore, Goto, Waiting, threads, others, client
  <2>5. m_IOCount'[k] = m_IOCount[k]
    BY <1>9 DEF FillStore, Goto, session
  <2> QED
    BY <1>o, <2>2, <2>3, <2>4, <2>5
<1>10. ASSUME NEW t \in Threads, CountSend(t) PROVE LifeOf(k)'
  <2>1. CASE chan[t] # k
    <3>2. \A u \in Threads : InRelease(u, k)' => InRelease(u, k)
      BY <1>10, <1>a, <1>b, <1>c, <2>1
      DEF CountSend, Goto, InRelease, ReleasePcs, threads, locals
    <3>3. Untouched(k)' => Untouched(k)
      BY <1>10, <1>a, <1>b, <1>c, <1>g, <2>1 DEF CountSend, Goto, Untouched, threads, locals
    <3>4. /\ reconnectIdList' = reconnectIdList
          /\ pc'[Reconnecter] \in Waiting => pc[Reconnecter] \in Waiting
      BY <1>10, <1>a, <1>b, <1>c DEF CountSend, Goto, Waiting, threads, others, client
    <3>5. m_IOCount'[k] = m_IOCount[k]
      BY <1>10, <1>a, <1>b, <1>f, <2>1 DEF CountSend, Goto, Increment, session
    <3> QED
      BY <1>o, <3>2, <3>3, <3>4, <3>5
  <2>2. CASE chan[t] = k
    <3>1. m_IOCount[k] # 0
      BY <1>10, <2>2 DEF CountSend, Overlap
    <3>2. \A u \in Threads : u # t => (InRelease(u, k)' => InRelease(u, k))
      BY <1>10, <1>a, <1>b DEF CountSend, Goto, InRelease, locals
    <3>3. Untouched(k)' => Untouched(k)
      BY <1>10, <1>a, <1>b, <1>c, <1>g DEF CountSend, Goto, Untouched, threads, locals
    <3>4. /\ reconnectIdList' = reconnectIdList
          /\ pc'[Reconnecter] \in Waiting => pc[Reconnecter] \in Waiting
      BY <1>10, <1>a, <1>b, <1>c DEF CountSend, Goto, Waiting, threads, others, client
    <3>5. ~InRelease(t, k)'
      BY <1>10, <1>a DEF CountSend, Goto, InRelease, ReleasePcs
    <3> QED
      BY <1>r, <3>1, <3>2, <3>3, <3>4, <3>5
  <2> QED
    BY <2>1, <2>2
<1>11. ASSUME NEW t \in Threads, WSASend(t) PROVE LifeOf(k)'
  <2>2. \A u \in Threads : InRelease(u, k)' => InRelease(u, k)
    BY <1>11, <1>a, <1>b, <1>c DEF WSASend, Goto, InRelease, ReleasePcs, threads, locals
  <2>3. Untouched(k)' => Untouched(k)
    BY <1>11, <1>a, <1>b, <1>c, <1>g DEF WSASend, Goto, Untouched, threads, locals
  <2>4. /\ reconnectIdList' = reconnectIdList
        /\ pc'[Reconnecter] \in Waiting => pc[Reconnecter] \in Waiting
    BY <1>11, <1>a, <1>b, <1>c DEF WSASend, Goto, Waiting, threads, others, client
  <2>5. m_IOCount'[k] = m_IOCount[k]
    BY <1>11 DEF WSASend, Goto, session
  <2> QED
    BY <1>o, <2>2, <2>3, <2>4, <2>5
<1>12. ASSUME NEW t \in Threads, WSASendFails(t) PROVE LifeOf(k)'
  <2>1. CASE chan[t] # k
    <3>2. \A u \in Threads : InRelease(u, k)' => InRelease(u, k)
      BY <1>12, <1>a, <1>b, <1>c, <2>1
      DEF WSASendFails, Decrement, Goto, InRelease, ReleasePcs, threads, locals
    <3>3. Untouched(k)' => Untouched(k)
      BY <1>12, <1>a, <1>b, <1>c, <1>g, <2>1
      DEF WSASendFails, Decrement, Goto, Untouched, threads, locals
    <3>4. /\ reconnectIdList' = reconnectIdList
          /\ pc'[Reconnecter] \in Waiting => pc[Reconnecter] \in Waiting
      BY <1>12, <1>a, <1>b, <1>c
      DEF WSASendFails, Decrement, Goto, Waiting, threads, others, client
    <3>5. m_IOCount'[k] = m_IOCount[k]
      BY <1>12, <1>a, <1>b, <1>f, <2>1 DEF WSASendFails, Decrement, Goto, session
    <3> QED
      BY <1>o, <3>2, <3>3, <3>4, <3>5
  <2>2. CASE chan[t] = k
    <3>1. m_IOCount[k] # 0
      <4>1. Weight(t, k) > 0
        BY <1>12, <1>b, <2>2
        DEF WSASendFails, Decrement, Goto, Weight, Serving, Posting, SendPostPcs,
            RecvPostPcs
      <4> QED
        BY <1>b, <1>h, <4>1
    <3>2. \A u \in Threads : u # t => (InRelease(u, k)' => InRelease(u, k))
      BY <1>12, <1>a, <1>b DEF WSASendFails, Decrement, Goto, InRelease, locals
    <3>3. Untouched(k)' => Untouched(k)
      BY <1>12, <1>a, <1>b, <1>c, <1>g
      DEF WSASendFails, Decrement, Goto, Untouched, threads, locals
    <3>4. /\ reconnectIdList' = reconnectIdList
          /\ pc'[Reconnecter] \in Waiting => pc[Reconnecter] \in Waiting
      BY <1>12, <1>a, <1>b, <1>c
      DEF WSASendFails, Decrement, Goto, Waiting, threads, others, client
    <3>5. InRelease(t, k)' => m_IOCount'[k] = 0
      <4>1. m_IOCount'[k] = m_IOCount[k] - 1
        BY <1>12, <1>a, <2>2 DEF WSASendFails, Decrement
      <4>2. pc'[t] \in ReleasePcs => m_IOCount[k] = 1
        BY <1>12, <1>a, <1>b, <1>c, <2>2 DEF WSASendFails, Decrement, Goto, ReleasePcs
      <4> QED
        BY <4>1, <4>2 DEF InRelease
    <3> QED
      BY <1>b, <1>r, <3>1, <3>2, <3>3, <3>4, <3>5
  <2> QED
    BY <2>1, <2>2
<1>13. ASSUME NEW t \in Threads, WSASendCrashes(t) PROVE LifeOf(k)'
  <2>2. \A u \in Threads : InRelease(u, k)' => InRelease(u, k)
    BY <1>13, <1>a, <1>b, <1>c DEF WSASendCrashes, InRelease, ReleasePcs, threads, locals
  <2>3. Untouched(k)' => Untouched(k)
    BY <1>13, <1>a, <1>b, <1>c, <1>g DEF WSASendCrashes, Untouched, threads, locals
  <2>4. /\ reconnectIdList' = reconnectIdList
        /\ pc'[Reconnecter] \in Waiting => pc[Reconnecter] \in Waiting
    BY <1>13, <1>a, <1>b, <1>c DEF WSASendCrashes, Waiting, threads, others, client
  <2>5. m_IOCount'[k] = m_IOCount[k]
    BY <1>13 DEF WSASendCrashes, session
  <2> QED
    BY <1>o, <2>2, <2>3, <2>4, <2>5
<1>14. ASSUME NEW t \in Threads, ReleaseSession(t) PROVE LifeOf(k)'
  <2>2. \A u \in Threads : InRelease(u, k)' => InRelease(u, k)
    BY <1>14, <1>a, <1>b, <1>c DEF ReleaseSession, Goto, InRelease, ReleasePcs, threads, locals
  <2>3. Untouched(k)' => Untouched(k)
    BY <1>14, <1>a, <1>b, <1>c, <1>g DEF ReleaseSession, Goto, Untouched, threads, locals
  <2>4. /\ reconnectIdList' = reconnectIdList
        /\ pc'[Reconnecter] \in Waiting => pc[Reconnecter] \in Waiting
    BY <1>14, <1>a, <1>b, <1>c DEF ReleaseSession, Goto, Waiting, threads, others, client
  <2>5. m_IOCount'[k] = m_IOCount[k]
    BY <1>14 DEF ReleaseSession, Goto, session
  <2> QED
    BY <1>o, <2>2, <2>3, <2>4, <2>5
<1>15. ASSUME NEW t \in Threads, DrainSendQ(t) PROVE LifeOf(k)'
  <2>2. \A u \in Threads : InRelease(u, k)' => InRelease(u, k)
    BY <1>15, <1>a, <1>b, <1>c DEF DrainSendQ, Goto, InRelease, ReleasePcs, threads, locals
  <2>3. Untouched(k)' => Untouched(k)
    BY <1>15, <1>a, <1>b, <1>c, <1>g DEF DrainSendQ, Goto, Untouched, threads, locals
  <2>4. /\ reconnectIdList' = reconnectIdList
        /\ pc'[Reconnecter] \in Waiting => pc[Reconnecter] \in Waiting
    BY <1>15, <1>a, <1>b, <1>c DEF DrainSendQ, Goto, Waiting, threads, others, client
  <2>5. m_IOCount'[k] = m_IOCount[k]
    BY <1>15 DEF DrainSendQ, Goto, session
  <2> QED
    BY <1>o, <2>2, <2>3, <2>4, <2>5
<1>16. ASSUME NEW t \in Threads, CloseSocket(t) PROVE LifeOf(k)'
  <2>2. \A u \in Threads : InRelease(u, k)' => InRelease(u, k)
    BY <1>16, <1>a, <1>b, <1>c DEF CloseSocket, Goto, InRelease, ReleasePcs, threads, locals
  <2>3. Untouched(k)' => Untouched(k)
    BY <1>16, <1>a, <1>b, <1>c, <1>g DEF CloseSocket, Goto, Untouched, threads, locals
  <2>4. /\ reconnectIdList' = reconnectIdList
        /\ pc'[Reconnecter] \in Waiting => pc[Reconnecter] \in Waiting
    BY <1>16, <1>a, <1>b, <1>c DEF CloseSocket, Goto, Waiting, threads, others, client
  <2>5. m_IOCount'[k] = m_IOCount[k]
    BY <1>16 DEF CloseSocket, Goto, session
  <2> QED
    BY <1>o, <2>2, <2>3, <2>4, <2>5
<1>17. ASSUME NEW t \in Threads, InvalidateSocket(t) PROVE LifeOf(k)'
  <2>2. \A u \in Threads : InRelease(u, k)' => InRelease(u, k)
    BY <1>17, <1>a, <1>b, <1>c
    DEF InvalidateSocket, Goto, InRelease, ReleasePcs, threads, locals
  <2>3. Untouched(k)' => Untouched(k)
    BY <1>17, <1>a, <1>b, <1>c, <1>g DEF InvalidateSocket, Goto, Untouched, threads, locals
  <2>4. /\ reconnectIdList' = reconnectIdList
        /\ pc'[Reconnecter] \in Waiting => pc[Reconnecter] \in Waiting
    BY <1>17, <1>a, <1>b, <1>c DEF InvalidateSocket, Goto, Waiting, threads, others, client
  <2>5. m_IOCount'[k] = m_IOCount[k]
    BY <1>17 DEF InvalidateSocket, Goto, session
  <2> QED
    BY <1>o, <2>2, <2>3, <2>4, <2>5
<1>18. ASSUME NEW t \in Threads, AppendToList(t) PROVE LifeOf(k)'
  <2>1. chan[t] \in Channels /\ reconnectIdList' = Append(reconnectIdList, chan[t])
    BY <1>18, <1>f DEF AppendToList, Goto
  <2>2. pc'[Reconnecter] \in Waiting => pc[Reconnecter] \in Waiting
    BY <1>18, <1>a, <1>b, <1>c DEF AppendToList, Goto, Waiting
  <2>3. Untouched(k)' => Untouched(k)
    BY <1>18, <1>a, <1>b, <1>c DEF AppendToList, Goto, Untouched, locals
  <2>4. m_IOCount'[k] = m_IOCount[k]
    BY <1>18 DEF AppendToList, session
  <2>5. \A u \in Threads : InRelease(u, k)' => InRelease(u, k) /\ u # t
    BY <1>18, <1>a, <1>c DEF AppendToList, Goto, InRelease, ReleasePcs, locals
  <2>6. CASE chan[t] # k
    <3>1. (Listed(k)' => Listed(k)) /\ OneEntry(k)'
      BY <1>a, <1>d, <2>1, <2>2, <2>6, ListGrows DEF LifeOf
    <3> QED
      BY <1>n, <2>3, <2>4, <2>5, <3>1
  <2>7. CASE chan[t] = k
    <3>1. InRelease(t, k)
      BY <1>18, <2>7 DEF AppendToList, Goto, InRelease, ReleasePcs
    <3>2. m_IOCount[k] = 0 /\ ~Listed(k) /\ ~Untouched(k)
      BY <1>d, <3>1 DEF LifeOf, Releasing
    <3>3. OneEntry(k)'
      BY <1>a, <2>1, <2>2, <3>2, ListGrows
    <3>4. ~Releasing(k)'
      BY <1>d, <2>5, <3>1 DEF LifeOf, Releasing
    <3>5. \A u \in Threads : ~InRelease(u, k)'
      BY <3>4 DEF Releasing
    <3> QED
      BY <2>3, <2>4, <3>2, <3>3, <3>4, <3>5 DEF LifeOf
  <2> QED
    BY <2>6, <2>7
<1>19. ASSUME NEW t \in Threads, AppendToListRaces(t) PROVE LifeOf(k)'
  <2>2. \A u \in Threads : InRelease(u, k)' => InRelease(u, k)
    BY <1>19, <1>a, <1>b, <1>c
    DEF AppendToListRaces, Goto, InRelease, ReleasePcs, threads, locals
  <2>3. Untouched(k)' => Untouched(k)
    BY <1>19, <1>a, <1>b, <1>c, <1>g DEF AppendToListRaces, Goto, Untouched, threads, locals
  <2>4. /\ reconnectIdList' = reconnectIdList
        /\ pc'[Reconnecter] \in Waiting => pc[Reconnecter] \in Waiting
    BY <1>19, <1>a, <1>b, <1>c DEF AppendToListRaces, Goto, Waiting, threads, others, client
  <2>5. m_IOCount'[k] = m_IOCount[k]
    BY <1>19 DEF AppendToListRaces, Goto, session
  <2> QED
    BY <1>o, <2>2, <2>3, <2>4, <2>5
<1>20. ASSUME NEW t \in Workers, RecvZero(t) PROVE LifeOf(k)'
  <2> DEFINE c == Head(iocp).chan
  <2>0. /\ pc[t] = "gqcs" /\ iocp # <<>> /\ chan' = [chan EXCEPT ![t] = c]
        /\ pc' = [pc EXCEPT ![t] = IF m_IOCount[c] = 1 THEN "release" ELSE "gqcs"]
        /\ m_IOCount' = [m_IOCount EXCEPT ![c] = m_IOCount[c] - 1]
        /\ reconnectIdList' = reconnectIdList
    BY <1>20 DEF RecvZero, Dequeued, client
  <2> HIDE DEF c
  <2>1. Untouched(k)' => Untouched(k)
    BY <1>a, <1>b, <2>0 DEF Untouched
  <2>2. pc'[Reconnecter] \in Waiting => pc[Reconnecter] \in Waiting
    BY <1>a, <1>b, <2>0 DEF Waiting
  <2>3. \A u \in Threads : u # t => (InRelease(u, k)' => InRelease(u, k))
    BY <1>a, <1>b, <2>0 DEF InRelease
  <2>4. CASE c # k
    <3>1. ~InRelease(t, k)'
      BY <1>a, <1>b, <2>0, <2>4 DEF InRelease
    <3>2. m_IOCount'[k] = m_IOCount[k]
      BY <1>a, <2>0, <2>4
    <3> QED
      BY <1>b, <1>o, <2>0, <2>1, <2>2, <2>3, <3>1, <3>2
  <2>5. CASE c = k
    <3>1. m_IOCount[k] # 0
      <4>1. 1 \in In(iocp, k)
        <5>1. iocp \in Seq(Entries)
          BY DEF IInv, TypeOK
        <5>2. Head(iocp) = iocp[1] /\ 1 \in DOMAIN iocp
          BY <2>0, <5>1, HeadTailProperties, LenProperties, EmptySeq
        <5> QED
          BY <2>5, <5>2 DEF In, c
      <4>2. Cardinality(Arrived(k)) \in Nat \ {0}
        <5>1. IsFiniteSet(In(iocp, k))
          BY InFinite DEF IInv, TypeOK
        <5>2. Arrived(k) = In(iocp, k)
          BY DEF Arrived, In
        <5> QED
          BY <4>1, <5>1, <5>2, FS_CardinalityType, FS_EmptySet
      <4>3. Cardinality(Receives(k)) \in Nat /\ lost[k] \in Nat
        BY PendingType DEF IInv, TypeOK
      <4>4. Pending(k) > 0
        BY <4>2, <4>3 DEF Pending
      <4> QED
        BY <1>e, <4>4
    <3>2. InRelease(t, k)' => m_IOCount'[k] = 0
      BY <1>a, <1>b, <2>0, <2>5 DEF InRelease, ReleasePcs
    <3> QED
      BY <1>b, <1>r, <2>0, <2>1, <2>2, <2>3, <3>1, <3>2
  <2> QED
    BY <2>4, <2>5
<1>21. ASSUME NEW t \in Workers, RecvData(t) PROVE LifeOf(k)'
  <2>2. \A u \in Threads : InRelease(u, k)' => InRelease(u, k)
    BY <1>21, <1>a, <1>b, <1>c DEF RecvData, Dequeued, InRelease, ReleasePcs, threads, locals
  <2>3. Untouched(k)' => Untouched(k)
    BY <1>21, <1>a, <1>b, <1>c, <1>g DEF RecvData, Dequeued, Untouched, threads, locals
  <2>4. /\ reconnectIdList' = reconnectIdList
        /\ pc'[Reconnecter] \in Waiting => pc[Reconnecter] \in Waiting
    BY <1>21, <1>a, <1>b, <1>c DEF RecvData, Dequeued, Waiting, threads, others, client
  <2>5. m_IOCount'[k] = m_IOCount[k]
    BY <1>21 DEF RecvData, Dequeued, session
  <2> QED
    BY <1>o, <2>2, <2>3, <2>4, <2>5
<1>22. ASSUME NEW t \in Workers, SendDone(t) PROVE LifeOf(k)'
  <2>2. \A u \in Threads : InRelease(u, k)' => InRelease(u, k)
    BY <1>22, <1>a, <1>b, <1>c DEF SendDone, Dequeued, InRelease, ReleasePcs, threads, locals
  <2>3. Untouched(k)' => Untouched(k)
    BY <1>22, <1>a, <1>b, <1>c, <1>g DEF SendDone, Dequeued, Untouched, threads, locals
  <2>4. /\ reconnectIdList' = reconnectIdList
        /\ pc'[Reconnecter] \in Waiting => pc[Reconnecter] \in Waiting
    BY <1>22, <1>a, <1>b, <1>c DEF SendDone, Dequeued, Waiting, threads, others, client
  <2>5. m_IOCount'[k] = m_IOCount[k]
    BY <1>22 DEF SendDone, Dequeued, session
  <2> QED
    BY <1>o, <2>2, <2>3, <2>4, <2>5
<1>23. ASSUME NEW t \in Workers, SendNext(t) PROVE LifeOf(k)'
  <2>2. \A u \in Threads : InRelease(u, k)' => InRelease(u, k)
    BY <1>23, <1>a, <1>b, <1>c DEF SendNext, Goto, InRelease, ReleasePcs, threads, locals
  <2>3. Untouched(k)' => Untouched(k)
    BY <1>23, <1>a, <1>b, <1>c, <1>g DEF SendNext, Goto, Untouched, threads, locals
  <2>4. /\ reconnectIdList' = reconnectIdList
        /\ pc'[Reconnecter] \in Waiting => pc[Reconnecter] \in Waiting
    BY <1>23, <1>a, <1>b, <1>c DEF SendNext, Goto, Waiting, threads, others, client
  <2>5. m_IOCount'[k] = m_IOCount[k]
    BY <1>23 DEF SendNext, Goto, session
  <2> QED
    BY <1>o, <2>2, <2>3, <2>4, <2>5
<1>24. ASSUME NEW t \in Workers, IODone(t) PROVE LifeOf(k)'
  <2>1. CASE chan[t] # k
    <3>2. \A u \in Threads : InRelease(u, k)' => InRelease(u, k)
      BY <1>24, <1>a, <1>b, <1>c, <2>1
      DEF IODone, Decrement, Goto, InRelease, ReleasePcs, threads, locals
    <3>3. Untouched(k)' => Untouched(k)
      BY <1>24, <1>a, <1>b, <1>c, <1>g, <2>1
      DEF IODone, Decrement, Goto, Untouched, threads, locals
    <3>4. /\ reconnectIdList' = reconnectIdList
          /\ pc'[Reconnecter] \in Waiting => pc[Reconnecter] \in Waiting
      BY <1>24, <1>a, <1>b, <1>c DEF IODone, Decrement, Goto, Waiting, threads, others, client
    <3>5. m_IOCount'[k] = m_IOCount[k]
      BY <1>24, <1>a, <1>b, <1>f, <2>1 DEF IODone, Decrement, Goto, session
    <3> QED
      BY <1>o, <3>2, <3>3, <3>4, <3>5
  <2>2. CASE chan[t] = k
    <3>1. m_IOCount[k] # 0
      <4>1. Weight(t, k) > 0
        BY <1>24, <1>b, <2>2
        DEF IODone, Decrement, Goto, Weight, Serving, Posting, SendPostPcs, RecvPostPcs
      <4> QED
        BY <1>b, <1>h, <4>1
    <3>2. \A u \in Threads : u # t => (InRelease(u, k)' => InRelease(u, k))
      BY <1>24, <1>a, <1>b DEF IODone, Decrement, Goto, InRelease, locals
    <3>3. Untouched(k)' => Untouched(k)
      BY <1>24, <1>a, <1>b, <1>c, <1>g DEF IODone, Decrement, Goto, Untouched, threads, locals
    <3>4. /\ reconnectIdList' = reconnectIdList
          /\ pc'[Reconnecter] \in Waiting => pc[Reconnecter] \in Waiting
      BY <1>24, <1>a, <1>b, <1>c DEF IODone, Decrement, Goto, Waiting, threads, others, client
    <3>5. InRelease(t, k)' => m_IOCount'[k] = 0
      <4>1. m_IOCount'[k] = m_IOCount[k] - 1
        BY <1>24, <1>a, <2>2 DEF IODone, Decrement
      <4>2. pc'[t] \in ReleasePcs => m_IOCount[k] = 1
        BY <1>24, <1>a, <1>b, <1>c, <2>2 DEF IODone, Decrement, Goto, ReleasePcs
      <4> QED
        BY <4>1, <4>2 DEF InRelease
    <3> QED
      BY <1>b, <1>r, <3>1, <3>2, <3>3, <3>4, <3>5
  <2> QED
    BY <2>1, <2>2
<1>25. ASSUME NEW t \in Workers, WorkerStops(t) PROVE LifeOf(k)'
  <2>2. \A u \in Threads : InRelease(u, k)' => InRelease(u, k)
    BY <1>25, <1>a, <1>b, <1>c DEF WorkerStops, InRelease, ReleasePcs, threads, locals
  <2>3. Untouched(k)' => Untouched(k)
    BY <1>25, <1>a, <1>b, <1>c, <1>g DEF WorkerStops, Untouched, threads, locals
  <2>4. /\ reconnectIdList' = reconnectIdList
        /\ pc'[Reconnecter] \in Waiting => pc[Reconnecter] \in Waiting
    BY <1>25, <1>a, <1>b, <1>c DEF WorkerStops, Waiting, threads, others, client
  <2>5. m_IOCount'[k] = m_IOCount[k]
    BY <1>25 DEF WorkerStops, session
  <2> QED
    BY <1>o, <2>2, <2>3, <2>4, <2>5
<1>26. ASSUME NEW t \in Workers, OverlappedNull(t) PROVE LifeOf(k)'
  <2>2. \A u \in Threads : InRelease(u, k)' => InRelease(u, k)
    BY <1>26, <1>a, <1>b, <1>c
    DEF OverlappedNull, Dequeued, InRelease, ReleasePcs, threads, locals
  <2>3. Untouched(k)' => Untouched(k)
    BY <1>26, <1>a, <1>b, <1>c, <1>g DEF OverlappedNull, Dequeued, Untouched, threads, locals
  <2>4. /\ reconnectIdList' = reconnectIdList
        /\ pc'[Reconnecter] \in Waiting => pc[Reconnecter] \in Waiting
    BY <1>26, <1>a, <1>b, <1>c DEF OverlappedNull, Dequeued, Waiting, threads, others, client
  <2>5. m_IOCount'[k] = m_IOCount[k]
    BY <1>26 DEF OverlappedNull, Dequeued, session
  <2> QED
    BY <1>o, <2>2, <2>3, <2>4, <2>5
<1>27. CASE PeekList
  <2>2. \A u \in Threads : InRelease(u, k)' => InRelease(u, k)
    BY <1>27, <1>a, <1>b, <1>c DEF PeekList, Goto, InRelease, ReleasePcs, threads, locals
  <2>3. Untouched(k)' => Untouched(k)
    BY <1>27, <1>a, <1>b, <1>c, <1>g DEF PeekList, Goto, Untouched, threads, locals
  <2>4. /\ reconnectIdList' = reconnectIdList
        /\ pc'[Reconnecter] \in Waiting => pc[Reconnecter] \in Waiting
    BY <1>27, <1>a, <1>b, <1>c DEF PeekList, Goto, Waiting, threads, others, client
  <2>5. m_IOCount'[k] = m_IOCount[k]
    BY <1>27 DEF PeekList, Goto, session
  <2> QED
    BY <1>o, <2>2, <2>3, <2>4, <2>5
<1>28. CASE SeeStopClient
  <2>2. \A u \in Threads : InRelease(u, k)' => InRelease(u, k)
    BY <1>28, <1>a, <1>b, <1>c
    DEF SeeStopClient, ReconnecterEnds, InRelease, ReleasePcs, threads, locals
  <2>3. Untouched(k)' => Untouched(k)
    BY <1>28, <1>a, <1>b, <1>c, <1>g
    DEF SeeStopClient, ReconnecterEnds, Untouched, threads, locals
  <2>4. /\ reconnectIdList' = reconnectIdList
        /\ pc'[Reconnecter] \in Waiting => pc[Reconnecter] \in Waiting
    BY <1>28, <1>a, <1>b, <1>c
    DEF SeeStopClient, ReconnecterEnds, Waiting, threads, others, client
  <2>5. m_IOCount'[k] = m_IOCount[k]
    BY <1>28 DEF SeeStopClient, ReconnecterEnds, session
  <2> QED
    BY <1>o, <2>2, <2>3, <2>4, <2>5
<1>29. CASE NewSocket
  <2>2. \A u \in Threads : InRelease(u, k)' => InRelease(u, k)
    BY <1>29, <1>a, <1>b, <1>c DEF NewSocket, Goto, InRelease, ReleasePcs, threads, locals
  <2>3. Untouched(k)' => Untouched(k)
    BY <1>29, <1>a, <1>b, <1>c, <1>g DEF NewSocket, Goto, Untouched, threads, locals
  <2>4. /\ reconnectIdList' = reconnectIdList
        /\ pc'[Reconnecter] \in Waiting => pc[Reconnecter] \in Waiting
    BY <1>29, <1>a, <1>b, <1>c DEF NewSocket, Goto, Waiting, threads, others, client
  <2>5. m_IOCount'[k] = m_IOCount[k]
    BY <1>29 DEF NewSocket, Goto, session
  <2> QED
    BY <1>o, <2>2, <2>3, <2>4, <2>5
<1>30. CASE NewSocketFails
  <2>2. \A u \in Threads : InRelease(u, k)' => InRelease(u, k)
    BY <1>30, <1>a, <1>b, <1>c
    DEF NewSocketFails, ReconnecterEnds, InRelease, ReleasePcs, threads, locals
  <2>3. Untouched(k)' => Untouched(k)
    BY <1>30, <1>a, <1>b, <1>c, <1>g
    DEF NewSocketFails, ReconnecterEnds, Untouched, threads, locals
  <2>4. /\ reconnectIdList' = reconnectIdList
        /\ pc'[Reconnecter] \in Waiting => pc[Reconnecter] \in Waiting
    BY <1>30, <1>a, <1>b, <1>c
    DEF NewSocketFails, ReconnecterEnds, Waiting, threads, others, client
  <2>5. m_IOCount'[k] = m_IOCount[k]
    BY <1>30 DEF NewSocketFails, ReconnecterEnds, session
  <2> QED
    BY <1>o, <2>2, <2>3, <2>4, <2>5
<1>31. CASE Connect
  <2>2. \A u \in Threads : InRelease(u, k)' => InRelease(u, k)
    BY <1>31, <1>a, <1>b, <1>c DEF Connect, Goto, InRelease, ReleasePcs, threads, locals
  <2>3. Untouched(k)' => Untouched(k)
    BY <1>31, <1>a, <1>b, <1>c, <1>g DEF Connect, Goto, Untouched, threads, locals
  <2>4. /\ reconnectIdList' = reconnectIdList
        /\ pc'[Reconnecter] \in Waiting => pc[Reconnecter] \in Waiting
    BY <1>31, <1>a, <1>b, <1>c DEF Connect, Goto, Waiting, threads, others, client
  <2>5. m_IOCount'[k] = m_IOCount[k]
    BY <1>31 DEF Connect, Goto, session
  <2> QED
    BY <1>o, <2>2, <2>3, <2>4, <2>5
<1>32. CASE SetsockoptFails
  <2>2. \A u \in Threads : InRelease(u, k)' => InRelease(u, k)
    BY <1>32, <1>a, <1>b, <1>c
    DEF SetsockoptFails, ReconnecterEnds, InRelease, ReleasePcs, threads, locals
  <2>3. Untouched(k)' => Untouched(k)
    BY <1>32, <1>a, <1>b, <1>c, <1>g
    DEF SetsockoptFails, ReconnecterEnds, Untouched, threads, locals
  <2>4. /\ reconnectIdList' = reconnectIdList
        /\ pc'[Reconnecter] \in Waiting => pc[Reconnecter] \in Waiting
    BY <1>32, <1>a, <1>b, <1>c
    DEF SetsockoptFails, ReconnecterEnds, Waiting, threads, others, client
  <2>5. m_IOCount'[k] = m_IOCount[k]
    BY <1>32 DEF SetsockoptFails, ReconnecterEnds, session
  <2> QED
    BY <1>o, <2>2, <2>3, <2>4, <2>5
<1>33. CASE BindToIOCP
  <2>2. \A u \in Threads : InRelease(u, k)' => InRelease(u, k)
    BY <1>33, <1>a, <1>b, <1>c DEF BindToIOCP, Goto, InRelease, ReleasePcs, threads, locals
  <2>3. Untouched(k)' => Untouched(k)
    BY <1>33, <1>a, <1>b, <1>c, <1>g DEF BindToIOCP, Goto, Untouched, threads, locals
  <2>4. /\ reconnectIdList' = reconnectIdList
        /\ pc'[Reconnecter] \in Waiting => pc[Reconnecter] \in Waiting
    BY <1>33, <1>a, <1>b, <1>c DEF BindToIOCP, Goto, Waiting, threads, others, client
  <2>5. m_IOCount'[k] = m_IOCount[k]
    BY <1>33 DEF BindToIOCP, Goto, session
  <2> QED
    BY <1>o, <2>2, <2>3, <2>4, <2>5
<1>34. CASE PopList
  <2>1. reconnectIdList # <<>> /\ reconnectIdList' = Tail(reconnectIdList)
    BY <1>34 DEF PopList, Goto, IInv, ListInv
  <2>2. (Listed(k)' => Listed(k)) /\ OneEntry(k)'
    BY <1>a, <1>d, <2>1, ListPops DEF LifeOf
  <2>3. Untouched(k)' => Untouched(k)
    BY <1>34, <1>a, <1>b DEF PopList, Goto, Untouched, locals
  <2>4. \A u \in Threads : InRelease(u, k)' => InRelease(u, k)
    BY <1>34, <1>a, <1>b DEF PopList, Goto, InRelease, ReleasePcs, locals
  <2>5. m_IOCount'[k] = m_IOCount[k]
    BY <1>34 DEF PopList, session
  <2> QED
    BY <1>n, <2>2, <2>3, <2>4, <2>5
<1>35. CASE StartChannel
  <2>2. \A u \in Threads : InRelease(u, k)' => InRelease(u, k)
    BY <1>35, <1>a, <1>b, <1>c DEF StartChannel, Goto, InRelease, ReleasePcs, threads, locals
  <2>3. Untouched(k)' => Untouched(k)
    BY <1>35, <1>a, <1>b, <1>c, <1>g DEF StartChannel, Goto, Untouched, threads, locals
  <2>4. /\ reconnectIdList' = reconnectIdList
        /\ pc'[Reconnecter] \in Waiting => pc[Reconnecter] \in Waiting
    BY <1>35, <1>a, <1>b, <1>c DEF StartChannel, Goto, Waiting, threads, others, client
  <2>5. m_IOCount'[k] = m_IOCount[k]
    BY <1>35 DEF StartChannel, Goto, session
  <2> QED
    BY <1>o, <2>2, <2>3, <2>4, <2>5
<1>36. CASE StartFails
  <2>2. \A u \in Threads : InRelease(u, k)' => InRelease(u, k)
    BY <1>36, <1>a, <1>b, <1>c DEF StartFails, InRelease, ReleasePcs, threads, locals
  <2>3. Untouched(k)' => Untouched(k)
    BY <1>36, <1>a, <1>b, <1>c, <1>g DEF StartFails, Untouched, threads, locals
  <2>4. /\ reconnectIdList' = reconnectIdList
        /\ pc'[Reconnecter] \in Waiting => pc[Reconnecter] \in Waiting
    BY <1>36, <1>a, <1>b, <1>c DEF StartFails, Waiting, threads, others, client
  <2>5. m_IOCount'[k] = m_IOCount[k]
    BY <1>36 DEF StartFails, session
  <2> QED
    BY <1>o, <2>2, <2>3, <2>4, <2>5
<1>37. CASE NextChannel
  <2>2. \A u \in Threads : InRelease(u, k)' => InRelease(u, k)
    BY <1>37, <1>a, <1>b, <1>c DEF NextChannel, Goto, InRelease, ReleasePcs, threads, locals
  <2>3. Untouched(k)' => Untouched(k)
    BY <1>37, <1>a, <1>b, <1>c, <1>g DEF NextChannel, Goto, Untouched, threads, locals
  <2>4. /\ reconnectIdList' = reconnectIdList
        /\ pc'[Reconnecter] \in Waiting => pc[Reconnecter] \in Waiting
    BY <1>37, <1>a, <1>b, <1>c DEF NextChannel, Goto, Waiting, threads, others, client
  <2>5. m_IOCount'[k] = m_IOCount[k]
    BY <1>37 DEF NextChannel, Goto, session
  <2> QED
    BY <1>o, <2>2, <2>3, <2>4, <2>5
<1>38. CASE ShutdownChannel
  <2>2. \A u \in Threads : InRelease(u, k)' => InRelease(u, k)
    BY <1>38, <1>a, <1>b, <1>c DEF ShutdownChannel, InRelease, ReleasePcs, threads, locals
  <2>3. Untouched(k)' => Untouched(k)
    BY <1>38, <1>a, <1>b, <1>c, <1>g DEF ShutdownChannel, Untouched, threads, locals
  <2>4. /\ reconnectIdList' = reconnectIdList
        /\ pc'[Reconnecter] \in Waiting => pc[Reconnecter] \in Waiting
    BY <1>38, <1>a, <1>b, <1>c DEF ShutdownChannel, Waiting, threads, others, client
  <2>5. m_IOCount'[k] = m_IOCount[k]
    BY <1>38 DEF ShutdownChannel, session
  <2> QED
    BY <1>o, <2>2, <2>3, <2>4, <2>5
<1>39. CASE PostStop
  <2>2. \A u \in Threads : InRelease(u, k)' => InRelease(u, k)
    BY <1>39, <1>a, <1>b, <1>c DEF PostStop, Goto, InRelease, ReleasePcs, threads, locals
  <2>3. Untouched(k)' => Untouched(k)
    BY <1>39, <1>a, <1>b, <1>c, <1>g DEF PostStop, Goto, Untouched, threads, locals
  <2>4. /\ reconnectIdList' = reconnectIdList
        /\ pc'[Reconnecter] \in Waiting => pc[Reconnecter] \in Waiting
    BY <1>39, <1>a, <1>b, <1>c DEF PostStop, Goto, Waiting, threads, others, client
  <2>5. m_IOCount'[k] = m_IOCount[k]
    BY <1>39 DEF PostStop, Goto, session
  <2> QED
    BY <1>o, <2>2, <2>3, <2>4, <2>5
<1>40. CASE JoinWorkers
  <2>2. \A u \in Threads : InRelease(u, k)' => InRelease(u, k)
    BY <1>40, <1>a, <1>b, <1>c DEF JoinWorkers, InRelease, ReleasePcs, threads, locals
  <2>3. Untouched(k)' => Untouched(k)
    BY <1>40, <1>a, <1>b, <1>c, <1>g DEF JoinWorkers, Untouched, threads, locals
  <2>4. /\ reconnectIdList' = reconnectIdList
        /\ pc'[Reconnecter] \in Waiting => pc[Reconnecter] \in Waiting
    BY <1>40, <1>a, <1>b, <1>c DEF JoinWorkers, Waiting, threads, others, client
  <2>5. m_IOCount'[k] = m_IOCount[k]
    BY <1>40 DEF JoinWorkers, session
  <2> QED
    BY <1>o, <2>2, <2>3, <2>4, <2>5
<1>41. CASE Stop
  <2>2. \A u \in Threads : InRelease(u, k)' => InRelease(u, k)
    BY <1>41, <1>a, <1>b, <1>c DEF Stop, Goto, InRelease, ReleasePcs, threads, locals
  <2>3. Untouched(k)' => Untouched(k)
    BY <1>41, <1>a, <1>b, <1>c, <1>g DEF Stop, Goto, Untouched, threads, locals
  <2>4. /\ reconnectIdList' = reconnectIdList
        /\ pc'[Reconnecter] \in Waiting => pc[Reconnecter] \in Waiting
    BY <1>41, <1>a, <1>b, <1>c DEF Stop, Goto, Waiting, threads, others, client
  <2>5. m_IOCount'[k] = m_IOCount[k]
    BY <1>41 DEF Stop, Goto, session
  <2> QED
    BY <1>o, <2>2, <2>3, <2>4, <2>5
<1>42. ASSUME NEW t \in Callers, SendPacket(t) PROVE LifeOf(k)'
  <2>2. \A u \in Threads : InRelease(u, k)' => InRelease(u, k)
    BY <1>42, <1>a, <1>b, <1>c
    DEF SendPacket, SendPacketImpl, InRelease, ReleasePcs, threads, locals
  <2>3. Untouched(k)' => Untouched(k)
    BY <1>42, <1>a, <1>b, <1>c, <1>g DEF SendPacket, SendPacketImpl, Untouched, threads, locals
  <2>4. /\ reconnectIdList' = reconnectIdList
        /\ pc'[Reconnecter] \in Waiting => pc[Reconnecter] \in Waiting
    BY <1>42, <1>a, <1>b, <1>c DEF SendPacket, SendPacketImpl, Waiting, threads, others, client
  <2>5. m_IOCount'[k] = m_IOCount[k]
    BY <1>42 DEF SendPacket, SendPacketImpl, session
  <2> QED
    BY <1>o, <2>2, <2>3, <2>4, <2>5
<1>43. ASSUME NEW t \in Callers, SendPacketFixed(t) PROVE LifeOf(k)'
  <2>2. \A u \in Threads : InRelease(u, k)' => InRelease(u, k)
    BY <1>43, <1>a, <1>b, <1>c
    DEF SendPacketFixed, SendPacketImpl, InRelease, ReleasePcs, threads, locals
  <2>3. Untouched(k)' => Untouched(k)
    BY <1>43, <1>a, <1>b, <1>c, <1>g
    DEF SendPacketFixed, SendPacketImpl, Untouched, threads, locals
  <2>4. /\ reconnectIdList' = reconnectIdList
        /\ pc'[Reconnecter] \in Waiting => pc[Reconnecter] \in Waiting
    BY <1>43, <1>a, <1>b, <1>c
    DEF SendPacketFixed, SendPacketImpl, Waiting, threads, others, client
  <2>5. m_IOCount'[k] = m_IOCount[k]
    BY <1>43 DEF SendPacketFixed, SendPacketImpl, session
  <2> QED
    BY <1>o, <2>2, <2>3, <2>4, <2>5
<1>44. ASSUME NEW c \in Channels, SendCompletes(c) PROVE LifeOf(k)'
  <2>2. \A u \in Threads : InRelease(u, k)' => InRelease(u, k)
    BY <1>44, <1>a, <1>b, <1>c
    DEF SendCompletes, Completed, InRelease, ReleasePcs, threads, locals
  <2>3. Untouched(k)' => Untouched(k)
    BY <1>44, <1>a, <1>b, <1>c, <1>g DEF SendCompletes, Completed, Untouched, threads, locals
  <2>4. /\ reconnectIdList' = reconnectIdList
        /\ pc'[Reconnecter] \in Waiting => pc[Reconnecter] \in Waiting
    BY <1>44, <1>a, <1>b, <1>c DEF SendCompletes, Completed, Waiting, threads, others, client
  <2>5. m_IOCount'[k] = m_IOCount[k]
    BY <1>44 DEF SendCompletes, Completed, session
  <2> QED
    BY <1>o, <2>2, <2>3, <2>4, <2>5
<1>45. ASSUME NEW c \in Channels, NEW s \in Sockets, RecvAborts(c, s) PROVE LifeOf(k)'
  <2>2. \A u \in Threads : InRelease(u, k)' => InRelease(u, k)
    BY <1>45, <1>a, <1>b, <1>c DEF RecvAborts, Completed, InRelease, ReleasePcs, threads, locals
  <2>3. Untouched(k)' => Untouched(k)
    BY <1>45, <1>a, <1>b, <1>c, <1>g DEF RecvAborts, Completed, Untouched, threads, locals
  <2>4. /\ reconnectIdList' = reconnectIdList
        /\ pc'[Reconnecter] \in Waiting => pc[Reconnecter] \in Waiting
    BY <1>45, <1>a, <1>b, <1>c DEF RecvAborts, Completed, Waiting, threads, others, client
  <2>5. m_IOCount'[k] = m_IOCount[k]
    BY <1>45 DEF RecvAborts, Completed, session
  <2> QED
    BY <1>o, <2>2, <2>3, <2>4, <2>5
<1>46. ASSUME NEW c \in Channels, NEW s \in Sockets, RecvCompletes(c, s) PROVE LifeOf(k)'
  <2>2. \A u \in Threads : InRelease(u, k)' => InRelease(u, k)
    BY <1>46, <1>a, <1>b, <1>c
    DEF RecvCompletes, Completed, InRelease, ReleasePcs, threads, locals
  <2>3. Untouched(k)' => Untouched(k)
    BY <1>46, <1>a, <1>b, <1>c, <1>g DEF RecvCompletes, Completed, Untouched, threads, locals
  <2>4. /\ reconnectIdList' = reconnectIdList
        /\ pc'[Reconnecter] \in Waiting => pc[Reconnecter] \in Waiting
    BY <1>46, <1>a, <1>b, <1>c DEF RecvCompletes, Completed, Waiting, threads, others, client
  <2>5. m_IOCount'[k] = m_IOCount[k]
    BY <1>46 DEF RecvCompletes, Completed, session
  <2> QED
    BY <1>o, <2>2, <2>3, <2>4, <2>5
<1>47. ASSUME NEW s \in Sockets, ServerDisconnects(s) PROVE LifeOf(k)'
  <2>2. \A u \in Threads : InRelease(u, k)' => InRelease(u, k)
    BY <1>47, <1>a, <1>b, <1>c DEF ServerDisconnects, InRelease, ReleasePcs, threads, locals
  <2>3. Untouched(k)' => Untouched(k)
    BY <1>47, <1>a, <1>b, <1>c, <1>g DEF ServerDisconnects, Untouched, threads, locals
  <2>4. /\ reconnectIdList' = reconnectIdList
        /\ pc'[Reconnecter] \in Waiting => pc[Reconnecter] \in Waiting
    BY <1>47, <1>a, <1>b, <1>c DEF ServerDisconnects, Waiting, threads, others, client
  <2>5. m_IOCount'[k] = m_IOCount[k]
    BY <1>47 DEF ServerDisconnects, session
  <2> QED
    BY <1>o, <2>2, <2>3, <2>4, <2>5
<1>48. CASE UNCHANGED vars
  <2>2. \A u \in Threads : InRelease(u, k)' => InRelease(u, k)
    BY <1>48, <1>a, <1>b, <1>c DEF vars, InRelease, ReleasePcs, threads, locals
  <2>3. Untouched(k)' => Untouched(k)
    BY <1>48, <1>a, <1>b, <1>c, <1>g DEF vars, Untouched, threads, locals
  <2>4. /\ reconnectIdList' = reconnectIdList
        /\ pc'[Reconnecter] \in Waiting => pc[Reconnecter] \in Waiting
    BY <1>48, <1>a, <1>b, <1>c DEF vars, Waiting, threads, others, client
  <2>5. m_IOCount'[k] = m_IOCount[k]
    BY <1>48 DEF vars, session
  <2> QED
    BY <1>o, <2>2, <2>3, <2>4, <2>5
<1> QED
  BY <1>1, <1>2, <1>3, <1>4, <1>5, <1>6, <1>7, <1>8, <1>9, <1>10, <1>11, <1>12, <1>13,
     <1>14, <1>15, <1>16, <1>17, <1>18, <1>19, <1>20, <1>21, <1>22, <1>23, <1>24, <1>25,
     <1>26, <1>27, <1>28, <1>29, <1>30, <1>31, <1>32, <1>33, <1>34, <1>35, <1>36, <1>37,
     <1>38, <1>39, <1>40, <1>41, <1>42, <1>43, <1>44, <1>45, <1>46, <1>47, <1>48
  DEF Next, Thread, Post, SendPost, Release, Worker, Reconnect, StartAndStop, Kernel,
      Network, Over

-----------------------------------------------------------------------------
(* The inductive invariant, with the counts and the lives of the channels.   *)
FullInv == IInv /\ CountInv /\ RoleInv /\ HeadInv /\ LifeInv

LEMMA InitFull == Init => FullInv
<1> SUFFICES ASSUME Init PROVE FullInv
  OBVIOUS
<1>1. IInv /\ CountInv
  BY InitInv, InitCount
<1>a. /\ Main \in Threads /\ Reconnecter \in Threads /\ Main # Reconnecter
      /\ Workers \subseteq Threads /\ Callers \subseteq Threads
      /\ Main \notin Workers \cup Callers /\ Reconnecter \notin Workers \cup Callers
      /\ Callers \cap Workers = {}
  BY LanClientAssumption DEF Threads
<1>b. /\ pc[Main] = "start" /\ pc[Reconnecter] = "peek" /\ chan[Main] = 0
      /\ \A t \in Workers : pc[t] = "gqcs"
      /\ \A t \in Callers : pc[t] = "idle"
      /\ \A t \in Threads : pc[t] \in {"start", "gqcs", "peek", "idle"}
  <2>1. pc[Main] = "start" /\ pc[Reconnecter] = "peek" /\ chan[Main] = 0
    BY <1>a DEF Init
  <2>2. \A t \in Workers : pc[t] = "gqcs"
    BY <1>a DEF Init
  <2>3. \A t \in Callers : pc[t] = "idle"
    BY <1>a DEF Init
  <2>4. \A t \in Threads : pc[t] \in {"start", "gqcs", "peek", "idle"}
    BY DEF Init
  <2> QED
    BY <2>1, <2>2, <2>3, <2>4
<1>2. RoleInv
  BY <1>b DEF RoleInv
<1>3. HeadInv
  BY <1>b DEF HeadInv
<1>4. LifeInv
  <2> SUFFICES ASSUME NEW c \in Channels PROVE LifeOf(c)
    BY DEF LifeInv
  <2>1. \A t \in Threads : ~InRelease(t, c)
    BY <1>b DEF InRelease, ReleasePcs
  <2>2. DOMAIN reconnectIdList = {} /\ m_IOCount[c] = 0
    BY DEF Init
  <2> QED
    BY <2>1, <2>2 DEF LifeOf, Releasing, Listed, OneEntry
<1> QED
  BY <1>1, <1>2, <1>3, <1>4 DEF FullInv

LEMMA NextFull == FullInv /\ [Next]_vars => FullInv'
<1> SUFFICES ASSUME FullInv, [Next]_vars PROVE FullInv'
  OBVIOUS
<1>1. /\ IInv /\ CountInv /\ RoleInv /\ HeadInv /\ LifeInv
      /\ TypeOK /\ ListInv
  BY DEF FullInv, IInv
<1>2. IInv' /\ CountInv'
  BY <1>1, NextInv, CountStep
<1>3. RoleInv' /\ HeadInv'
  BY <1>1, RoleStep, HeadStep
<1>4. LifeInv'
  BY <1>1, LifeStep
<1> QED
  BY <1>2, <1>3, <1>4 DEF FullInv

LEMMA AlwaysFull == Spec => []FullInv
  BY InitFull, NextFull, PTL DEF Spec

(* At zero nothing of a channel is left.                                     *)
LEMMA ZeroIsEmpty ==
    ASSUME IInv, CountInv, NEW c \in Channels, c \notin filled, m_IOCount[c] = 0
    PROVE /\ Receives(c) = {} /\ sends[c] = INVALID_SOCKET /\ Arrived(c) = {}
          /\ Serving(c) = {} /\ Posting(c) = {}
<1>1. m_IOCount[c] = Pending(c) + Holders(c)
  BY DEF CountInv, Balanced
<1>2. Cardinality(Receives(c)) \in Nat /\ Cardinality(Arrived(c)) \in Nat /\ lost[c] \in Nat
  BY PendingType DEF IInv, TypeOK
<1>3. Serving(c) \in SUBSET Threads /\ Posting(c) \in SUBSET Threads
  BY DEF Serving, Posting, Threads
<1>4. IsFiniteSet(Serving(c)) /\ IsFiniteSet(Posting(c))
  BY <1>3, ThreadsFinite, FS_Subset
<1>5. Cardinality(Serving(c)) \in Nat /\ Cardinality(Posting(c)) \in Nat
  BY <1>4, FS_CardinalityType
<1>6. /\ Cardinality(Receives(c)) = 0 /\ Cardinality(Arrived(c)) = 0
      /\ Cardinality(Serving(c)) = 0 /\ Cardinality(Posting(c)) = 0
      /\ sends[c] = INVALID_SOCKET
  BY <1>1, <1>2, <1>5 DEF Pending, Holders
<1>7. IsFiniteSet(Receives(c)) /\ IsFiniteSet(Arrived(c))
  <2>1. recvs[c] \in [Sockets -> Nat] /\ Receives(c) = Held(recvs[c])
    BY DEF IInv, TypeOK, Receives, Held
  <2>2. iocp \in Seq(Entries) /\ Arrived(c) = In(iocp, c)
    BY DEF IInv, TypeOK, Arrived, In
  <2> QED
    BY <2>1, <2>2, HeldFinite, InFinite
<1> QED
  BY <1>4, <1>6, <1>7, FS_EmptySet

(* Of all threads that may see the last I/O of a channel end, one runs its   *)
(* ReleaseSession, with no request, no completion packet and no other thread *)
(* left that uses the channel; as long as no SendPost overlapped a release   *)
(* before it counted its send, and no full ring made the count wrong.        *)
THEOREM OneReleases == Spec => []ReleaseIsAlone
<1>1. FullInv => ReleaseIsAlone
  <2> SUFFICES ASSUME FullInv, NEW c \in Channels, c \notin disturbed, c \notin filled,
                      NEW t \in Threads, chan[t] = c, pc[t] \in ReleasePcs
               PROVE /\ Receives(c) = {} /\ sends[c] = INVALID_SOCKET /\ Arrived(c) = {}
                     /\ \A u \in Threads \ {t} : chan[u] = c => pc[u] \notin Using
    BY DEF ReleaseIsAlone
  <2>1. IInv /\ CountInv /\ RoleInv /\ HeadInv /\ ListInv /\ ListType /\ LifeOf(c)
    BY DEF FullInv, IInv, TypeOK, ListType, LifeInv
  <2>2. InRelease(t, c) /\ Releasing(c)
    BY DEF InRelease, Releasing
  <2>3. m_IOCount[c] = 0 /\ ~Listed(c) /\ ~Untouched(c)
    BY <2>1, <2>2 DEF LifeOf
  <2>4. /\ Receives(c) = {} /\ sends[c] = INVALID_SOCKET /\ Arrived(c) = {}
        /\ Serving(c) = {} /\ Posting(c) = {}
    BY <2>1, <2>3, ZeroIsEmpty
  <2>5. ASSUME NEW u \in Threads, u # t, chan[u] = c, pc[u] \in Using PROVE FALSE
    <3>1. pc[u] \notin ReleasePcs
      BY <2>1, <2>2, <2>5 DEF LifeOf, InRelease
    <3>2. pc[u] \notin {"wsasend", "wsarecv"}
      BY <2>4, <2>5 DEF Posting
    <3>3. pc[u] \in {"recvpost", "sent", "dec", "socket", "connect", "bind"}
      BY <2>5, <3>1, <3>2 DEF Using, RecvPostPcs
    <3>4. u \notin Workers
      BY <2>1, <2>4, <2>5, <3>3 DEF Serving, RecvPostPcs, RoleInv, SendPostPcs, ReleasePcs
    <3>5. u \notin Callers
      BY <2>1, <3>3 DEF RoleInv, SendPostPcs, ReleasePcs
    <3>6. u # Main
      BY <2>1, <2>3, <2>5, <3>3 DEF RoleInv, RecvPostPcs, ReleasePcs, Untouched, Channels
    <3>7. u = Reconnecter
      BY <3>4, <3>5, <3>6 DEF Threads
    <3>8. pc[Reconnecter] \in {"recvpost", "socket", "connect", "bind"}
      BY <2>1, <3>3, <3>7 DEF RoleInv, RecvPostPcs, ReleasePcs
    <3>9. reconnectIdList # <<>> /\ reconnectIdList[1] = c
      BY <2>1, <2>5, <3>7, <3>8 DEF HeadInv, ListInv
    <3>10. 1 \in DOMAIN reconnectIdList
      BY <2>1, <3>9 DEF ListType
    <3> QED
      BY <2>3, <3>8, <3>9, <3>10 DEF Listed, Entry, Waiting
  <2> QED
    BY <2>4, <2>5
<1> QED
  BY <1>1, AlwaysFull, PTL
=============================================================================
