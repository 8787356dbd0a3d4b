--------------------------- MODULE RelayHubProofs ---------------------------
(* Proofs about RelayHub, for any number of connections, devices, rooms and   *)
(* frames, any channel capacity and any buffer size: first types, closed      *)
(* channels and joining, then rooms, senders, the order of one sender's       *)
(* frames and the room a replay has.                                          *)
EXTENDS RelayHub, SequenceTheorems, TLAPS

-----------------------------------------------------------------------------
(* Cutting the front off a sequence leaves a sequence of the same elements:   *)
(* what an eviction of the room's buffer keeps.                               *)
LEMMA SuffixType ==
    ASSUME NEW S, NEW s \in Seq(S), NEW k \in 0..Len(s)
    PROVE  SubSeq(s, k + 1, Len(s)) \in Seq(S)
<1>1. Len(s) \in Nat
    OBVIOUS
<1>2. \A i \in (k + 1)..Len(s) : i \in 1..Len(s)
    BY <1>1
<1>3. CASE k + 1 <= Len(s) + 1
    BY <1>1, <1>2, SubSeqProperties
<1> QED
    BY <1>1, <1>3

(* A reloaded buffer: its frames are of the room's past, in their order.      *)
LEMMA RestoredFields ==
    ASSUME NEW r \in Rooms, NEW m \in Nat
    PROVE  /\ Restored(r, m) \in Seq(Frame) /\ Len(Restored(r, m)) = m
           /\ \A i \in 1..m : /\ Restored(r, m)[i] \in Frame
                             /\ Restored(r, m)[i].from = r
                             /\ Restored(r, m)[i].n = i
<1>1. \A i \in 1..m : [from |-> r, n |-> i] \in Frame
    BY DEF Frame
<1> QED
    BY <1>1 DEF Restored

LEMMA InitBuffer ==
    ASSUME RelayHubAssumption, Init, NEW r \in Rooms
    PROVE  /\ buffer[r] \in Seq(Frame) /\ pushed[r] = buffer[r]
           /\ \A i \in 1..Len(buffer[r]) : /\ buffer[r][i] \in Frame
                                         /\ buffer[r][i].from = r
                                         /\ buffer[r][i].n = i
<1>1. PICK m \in [Rooms -> Reloaded] :
          buffer = [q \in Rooms |-> Restored(q, m[q])]
    BY DEF Init
<1>2. m[r] \in Nat
    BY <1>1 DEF RelayHubAssumption
<1>3. buffer[r] = Restored(r, m[r]) /\ pushed = buffer
    BY <1>1 DEF Init
<1> DEFINE k == m[r]
<1> HIDE DEF k
<1>4. /\ Restored(r, k) \in Seq(Frame) /\ Len(Restored(r, k)) = k
      /\ \A i \in 1..k : /\ Restored(r, k)[i] \in Frame
                        /\ Restored(r, k)[i].from = r
                        /\ Restored(r, k)[i].n = i
    BY ZenonT(60), <1>2, RestoredFields DEF k
<1>5. buffer[r] = Restored(r, k) /\ pushed[r] = buffer[r]
    BY <1>3 DEF k
<1> QED
    BY <1>4, <1>5

LEMMA InitType == ASSUME RelayHubAssumption, Init PROVE TypeOK
<1>1. buffer \in [Rooms -> Seq(Frame)] /\ pushed = buffer
    <2>1. \A r \in Rooms : buffer[r] \in Seq(Frame)
        BY InitBuffer
    <2> QED
        BY <2>1 DEF Init
<1> QED
    BY <1>1 DEF RelayHubAssumption, Init, TypeOK

(* What a sender has in hand is a frame, and its room is a room.              *)
LEMMA CurrentType ==
    ASSUME RelayHubAssumption, TypeOK, SendersCounted, NEW c \in Conns,
           pc[c] \in {"buffer", "fanout", "deliver"}
    PROVE  /\ Current(c) \in Frame /\ Current(c).from = c /\ Current(c).n = sent[c]
           /\ RoomOf[c] \in Rooms
BY DEF RelayHubAssumption, TypeOK, SendersCounted, Current, Frame

(* The push of a frame, as the proofs use it.                                 *)
LEMMA PushFields ==
    ASSUME RelayHubAssumption, TypeOK, SendersCounted, NEW c \in Conns, BufferFrame(c)
    PROVE  LET r == RoomOf[c]
               s == Append(buffer[r], Current(c))
           IN /\ pc[c] = "buffer" /\ r \in Rooms /\ Current(c) \in Frame
              /\ \A x \in Conns : pc[x] # "deliver"
              /\ s \in Seq(Frame)
              /\ \E k \in 0..Len(s) :
                    /\ Len(s) - k <= MaxFrames
                    /\ buffer' = [buffer EXCEPT ![r] = SubSeq(s, k + 1, Len(s))]
              /\ pushed' = [pushed EXCEPT ![r] = Append(@, Current(c))]
              /\ pc' = [pc EXCEPT ![c] = "fanout"]
              /\ UNCHANGED <<clients, alive, replay, todo, sent, send, closed, writer,
                             taken, dropped, joined>>
<1>1. Current(c) \in Frame /\ RoomOf[c] \in Rooms
    BY CurrentType DEF BufferFrame
<1>2. buffer[RoomOf[c]] \in Seq(Frame)
    BY <1>1 DEF TypeOK
<1>3. pc[c] = "buffer" /\ \A x \in Conns : pc[x] # "deliver"
    BY DEF BufferFrame, LockFree, ReadLocked
<1>4. LET r == RoomOf[c]
          s == Append(buffer[r], Current(c))
      IN /\ \E k \in 0..Len(s) :
               /\ Len(s) - k <= MaxFrames
               /\ buffer' = [buffer EXCEPT ![r] = SubSeq(s, k + 1, Len(s))]
         /\ pushed' = [pushed EXCEPT ![r] = Append(@, Current(c))]
         /\ pc' = [pc EXCEPT ![c] = "fanout"]
    BY DEF BufferFrame
<1>5. UNCHANGED <<clients, alive, replay, todo, sent, send, closed, writer,
                  taken, dropped, joined>>
    BY DEF BufferFrame, channel
<1>6. Append(buffer[RoomOf[c]], Current(c)) \in Seq(Frame)
    BY <1>1, <1>2
<1> QED
    BY <1>1, <1>3, <1>4, <1>5, <1>6

(* A non-blocking send keeps channels and loss records well typed.            *)
LEMMA TrySendType ==
    ASSUME RelayHubAssumption, TypeOK,
           NEW x \in Conns, NEW e \in Entry, TrySend(x, e)
    PROVE  /\ send' \in [Conns -> Seq(Entry)]
           /\ dropped' \in [Conns -> SUBSET Entry]
<1>1. CASE Len(send[x]) < SendCap
    <2>1. Append(send[x], e) \in Seq(Entry)
        BY DEF TypeOK
    <2>2. send' = [send EXCEPT ![x] = Append(@, e)] /\ dropped' = dropped
        BY <1>1 DEF TrySend
    <2> QED
        BY <2>1, <2>2 DEF TypeOK
<1>2. CASE ~(Len(send[x]) < SendCap)
    <2>1. dropped[x] \union {e} \in SUBSET Entry
        BY DEF TypeOK
    <2>2. dropped' = [dropped EXCEPT ![x] = @ \union {e}] /\ send' = send
        BY <1>2 DEF TrySend
    <2> QED
        BY <2>1, <2>2 DEF TypeOK
<1> QED
    BY <1>1, <1>2

(* Every step of the relay keeps the state well typed.                        *)
LEMMA NextType ==
    ASSUME RelayHubAssumption, TypeOK, SendersCounted, [Next]_vars
    PROVE  TypeOK'
<1> USE RelayHubAssumption DEF TypeOK
<1>1. ASSUME NEW c \in Conns, Register(c) PROVE TypeOK'
    BY SMTT(30), <1>1 DEF RelayHubAssumption, Register, channel
<1>2. ASSUME NEW c \in Conns, BufferFrame(c) PROVE TypeOK'
    <2> DEFINE r == RoomOf[c]
               f == Current(c)
               s == Append(buffer[r], f)
    <2>1. /\ r \in Rooms /\ f \in Frame /\ s \in Seq(Frame)
          /\ pushed' = [pushed EXCEPT ![r] = Append(@, f)]
          /\ pc' = [pc EXCEPT ![c] = "fanout"]
          /\ UNCHANGED <<clients, alive, replay, todo, sent, send, closed, writer,
                         taken, dropped, joined>>
        BY <1>2, PushFields
    <2>2. \A k \in 0..Len(s) : SubSeq(s, k + 1, Len(s)) \in Seq(Frame)
        BY <2>1, SuffixType
    <2>3. PICK k \in 0..Len(s) :
              buffer' = [buffer EXCEPT ![r] = SubSeq(s, k + 1, Len(s))]
        BY <1>2, PushFields
    <2> HIDE DEF f, s
    <2>4. buffer' \in [Rooms -> Seq(Frame)]
        BY <2>1, <2>2, <2>3
    <2>5. pushed' \in [Rooms -> Seq(Frame)]
        BY <2>1
    <2> QED
        BY <2>1, <2>4, <2>5
<1>14. ASSUME NEW c \in Conns, Read(c) PROVE TypeOK'
    <2>1. sent' \in [Conns -> Nat]
        BY SMTT(30), <1>14 DEF Read
    <2>2. pc' = [pc EXCEPT ![c] = "buffer"] /\ UNCHANGED <<hub, alive, replay, todo, channel, aux>>
        BY <1>14 DEF Read
    <2> QED
        BY <2>1, <2>2 DEF hub, channel, aux
<1>3. ASSUME NEW c \in Conns, ReplayOne(c) PROVE TypeOK'
    <2>1. Head(replay[c]) \in Frame /\ Tail(replay[c]) \in Seq(Frame)
        BY <1>3 DEF ReplayOne
    <2>2. [frame |-> Head(replay[c]), via |-> "replay"] \in Entry
        BY <2>1 DEF Entry
    <2>3. send' \in [Conns -> Seq(Entry)] /\ dropped' \in [Conns -> SUBSET Entry]
        BY <1>3, <2>2, TrySendType DEF ReplayOne
    <2> QED
        BY <1>3, <2>1, <2>3 DEF ReplayOne, hub
<1>4. ASSUME NEW c \in Conns, Serve(c) PROVE TypeOK'
    BY <1>4 DEF Serve, hub, aux
<1>5. ASSUME NEW c \in Conns, StartDeliver(c) PROVE TypeOK'
    BY <1>5 DEF StartDeliver, Recipients, hub, channel, aux
<1>6. ASSUME NEW c \in Conns, NEW x \in Conns, DeliverOne(c, x) PROVE TypeOK'
    <2>1. [frame |-> Current(c), via |-> "live"] \in Entry
        BY <1>6, CurrentType DEF DeliverOne, Entry
    <2>2. send' \in [Conns -> Seq(Entry)] /\ dropped' \in [Conns -> SUBSET Entry]
        BY <1>6, <2>1, TrySendType DEF DeliverOne
    <2> QED
        BY <1>6, <2>2 DEF DeliverOne, hub
<1>7. ASSUME NEW c \in Conns, EndDeliver(c) PROVE TypeOK'
    BY <1>7 DEF EndDeliver, hub, channel, aux
<1>8. ASSUME NEW c \in Conns, ConnLost(c) PROVE TypeOK'
    BY <1>8 DEF ConnLost, hub, channel, aux
<1>9. ASSUME NEW c \in Conns, ReadFails(c) PROVE TypeOK'
    BY <1>9 DEF ReadFails, hub, channel, aux
<1>10. ASSUME NEW c \in Conns, Unregister(c) PROVE TypeOK'
    BY ZenonT(60), <1>10 DEF RelayHubAssumption, Unregister, aux
<1>11. ASSUME NEW c \in Conns, WriteFrame(c) \/ WriteFails(c) PROVE TypeOK'
    <2>1. Head(send[c]) \in Entry /\ Tail(send[c]) \in Seq(Entry)
        BY <1>11 DEF WriteFrame, WriteFails
    <2>2. /\ taken' = [taken EXCEPT ![c] = Append(@, Head(send[c]))]
          /\ send' = [send EXCEPT ![c] = Tail(@)]
        BY <1>11 DEF WriteFrame, WriteFails
    <2>3. taken' \in [Conns -> Seq(Entry)] /\ send' \in [Conns -> Seq(Entry)]
        BY <2>1, <2>2
    <2>4. writer' \in [Conns -> {"none", "running", "stopped"}]
        BY ZenonT(60), <1>11 DEF WriteFrame, WriteFails
    <2>5. UNCHANGED <<hub, handler, closed, dropped, pushed, joined>>
        BY <1>11 DEF WriteFrame, WriteFails
    <2> QED
        BY <2>3, <2>4, <2>5 DEF hub, handler
<1>12. ASSUME NEW c \in Conns, WriterStops(c) PROVE TypeOK'
    BY <1>12 DEF WriterStops, hub, handler, aux
<1>13. CASE UNCHANGED vars
    BY <1>13 DEF vars, hub, handler, channel, aux
<1> QED
    BY <1>1, <1>2, <1>3, <1>4, <1>5, <1>6, <1>7, <1>8, <1>9, <1>10, <1>11, <1>12,
       <1>13, <1>14 DEF Next, Proceed, Idle

-----------------------------------------------------------------------------
(* A handler that fans a frame out has counted it.                            *)
LEMMA NextSendersCounted ==
    ASSUME TypeOK, SendersCounted, [Next]_vars
    PROVE  SendersCounted'
<1> USE DEF TypeOK, SendersCounted
<1>1. ASSUME NEW c \in Conns, Read(c) PROVE SendersCounted'
    <2>1. sent' = [sent EXCEPT ![c] = @ + 1] /\ pc' = [pc EXCEPT ![c] = "buffer"]
        BY <1>1 DEF Read
    <2> QED
        BY <2>1
<1>2. ASSUME NEW c \in Conns,
             Register(c) \/ Proceed(c) \/ ConnLost(c) \/ WriteFrame(c)
                \/ WriteFails(c) \/ WriterStops(c)
      PROVE  SendersCounted'
    <2>1. sent' = sent
        BY <1>2 DEF Register, Proceed, ReplayOne, Serve, BufferFrame, StartDeliver,
           DeliverOne, EndDeliver, ReadFails, Unregister, ConnLost, WriteFrame, WriteFails,
           WriterStops, handler
    <2>2. \A x \in Conns : pc'[x] \in {"buffer", "fanout", "deliver"}
                                => pc[x] \in {"buffer", "fanout", "deliver"}
        BY <1>2 DEF Register, Proceed, ReplayOne, Serve, BufferFrame, StartDeliver,
           DeliverOne, EndDeliver, ReadFails, Unregister, ConnLost, WriteFrame, WriteFails,
           WriterStops, handler
    <2> QED
        BY <2>1, <2>2
<1>3. CASE UNCHANGED vars
    BY <1>3 DEF vars, handler
<1> QED
    BY <1>1, <1>2, <1>3 DEF Next, Idle

(* While a delivery is in progress nobody enters or leaves the map.           *)
LEMMA NextRecipientsPinned ==
    ASSUME RelayHubAssumption, TypeOK, RecipientsPinned, [Next]_vars
    PROVE  RecipientsPinned'
<1> USE DEF TypeOK, RecipientsPinned, Registered
<1>1. ASSUME NEW c \in Conns, Register(c) \/ Unregister(c) PROVE RecipientsPinned'
    <2>1. \A s \in Conns : todo[s] = {}
        BY <1>1 DEF Register, Unregister, LockFree, ReadLocked
    <2>2. todo' = todo
        BY <1>1 DEF Register, Unregister
    <2> QED
        BY <2>1, <2>2
<1>2. ASSUME NEW c \in Conns, StartDeliver(c) PROVE RecipientsPinned'
    <2>1. /\ todo' = [todo EXCEPT ![c] = Recipients(c)]
          /\ pc' = [pc EXCEPT ![c] = "deliver"]
          /\ clients' = clients
        BY <1>2 DEF StartDeliver, hub
    <2>2. \A x \in Recipients(c) : Registered(x)
        BY DEF Recipients
    <2> QED
        BY ZenonT(60), <2>1, <2>2
<1>3. ASSUME NEW c \in Conns, NEW x \in Conns, DeliverOne(c, x)
      PROVE  RecipientsPinned'
    BY ZenonT(60), <1>3 DEF DeliverOne, hub
<1>4. ASSUME NEW c \in Conns, EndDeliver(c) PROVE RecipientsPinned'
    <2>1. /\ todo[c] = {} /\ todo' = todo /\ clients' = clients
          /\ pc' = [pc EXCEPT ![c] = "reading"]
        BY <1>4 DEF EndDeliver, hub
    <2> QED
        BY <2>1
<1>5. ASSUME NEW c \in Conns,
             ReplayOne(c) \/ Serve(c) \/ Read(c) \/ BufferFrame(c) \/ ReadFails(c)
                \/ ConnLost(c) \/ WriteFrame(c) \/ WriteFails(c) \/ WriterStops(c)
      PROVE  RecipientsPinned'
    <2>1. todo' = todo /\ clients' = clients
        BY <1>5 DEF ReplayOne, Serve, Read, BufferFrame, ReadFails, ConnLost,
           WriteFrame, WriteFails, WriterStops, hub, handler
    <2>2. \A s \in Conns : pc[s] = "deliver" => pc'[s] = "deliver"
        BY ZenonT(60), <1>5 DEF ReplayOne, Serve, Read, BufferFrame, ReadFails, ConnLost,
           WriteFrame, WriteFails, WriterStops, handler
    <2> QED
        BY <2>1, <2>2
<1>6. CASE UNCHANGED vars
    BY <1>6 DEF vars, hub, handler
<1> QED
    BY <1>1, <1>2, <1>3, <1>4, <1>5, <1>6 DEF Next, Proceed, Idle

(* A closed channel belongs to a handler that is over and out of the map.     *)
LEMMA NextClosedIsGone ==
    ASSUME RelayHubAssumption, TypeOK, ClosedIsGone, [Next]_vars
    PROVE  ClosedIsGone'
<1> USE DEF TypeOK, ClosedIsGone, Registered
<1>1. ASSUME NEW c \in Conns, Register(c) PROVE ClosedIsGone'
    <2>1. /\ pc[c] = "idle" /\ pc' = [pc EXCEPT ![c] = "replay"]
          /\ clients' = [clients EXCEPT ![DeviceOf[c]] = c]
          /\ closed' = closed
        BY <1>1 DEF Register, channel
    <2> QED
        BY <2>1 DEF RelayHubAssumption
<1>2. ASSUME NEW c \in Conns, Unregister(c) PROVE ClosedIsGone'
    <2>1. pc' = [pc EXCEPT ![c] = "gone"]
        BY <1>2 DEF Unregister
    <2>2. CASE clients[DeviceOf[c]] = NoConn
        BY <1>2, <2>1, <2>2 DEF Unregister
    <2>3. CASE clients[DeviceOf[c]] # NoConn
        <3>1. /\ clients' = [clients EXCEPT ![DeviceOf[c]] = NoConn]
              /\ closed' = [closed EXCEPT ![c] = TRUE]
            BY <1>2, <2>3 DEF Unregister
        <3> QED
            BY <2>1, <3>1 DEF RelayHubAssumption
    <2> QED
        BY <2>2, <2>3
<1>3. ASSUME NEW c \in Conns,
             ReplayOne(c) \/ Serve(c) \/ Read(c) \/ BufferFrame(c) \/ StartDeliver(c)
                \/ (\E x \in Conns : DeliverOne(c, x)) \/ EndDeliver(c)
                \/ ReadFails(c) \/ ConnLost(c) \/ WriteFrame(c) \/ WriteFails(c)
                \/ WriterStops(c)
      PROVE  ClosedIsGone'
    <2>1. closed' = closed /\ clients' = clients
        BY <1>3 DEF ReplayOne, Serve, Read, BufferFrame, StartDeliver, DeliverOne,
           EndDeliver, ReadFails, ConnLost, WriteFrame, WriteFails, WriterStops, hub, channel
    <2>2. \A x \in Conns : pc[x] = "gone" => pc'[x] = "gone"
        BY ZenonT(60), <1>3 DEF ReplayOne, Serve, Read, BufferFrame, StartDeliver, DeliverOne,
           EndDeliver, ReadFails, ConnLost, WriteFrame, WriteFails, WriterStops, handler
    <2> QED
        BY <2>1, <2>2
<1>4. CASE UNCHANGED vars
    BY <1>4 DEF vars, hub, handler, channel
<1> QED
    BY <1>1, <1>2, <1>3, <1>4 DEF Next, Proceed, Idle

(* A frame goes into the room of the connection that sent it.                 *)
LEMMA NextPushedInRoom ==
    ASSUME RelayHubAssumption, TypeOK, SendersCounted, PushedInRoom, [Next]_vars
    PROVE  PushedInRoom'
<1> USE DEF PushedInRoom
<1>1. ASSUME NEW c \in Conns, BufferFrame(c) PROVE PushedInRoom'
    <2> DEFINE r == RoomOf[c]
               f == Current(c)
    <2>1. r \in Rooms /\ f \in Frame /\ pushed' = [pushed EXCEPT ![r] = Append(@, f)]
        BY <1>1, PushFields
    <2>2. HomeOf(f) = r
        BY DEF HomeOf, Current
    <2> HIDE DEF f
    <2>3. pushed \in [Rooms -> Seq(Frame)]
        BY DEF TypeOK
    <2>4. \A i \in 1..Len(Append(pushed[r], f)) : HomeOf(Append(pushed[r], f)[i]) = r
        <3>1. \A i \in 1..Len(Append(pushed[r], f)) :
                  \/ Append(pushed[r], f)[i] = f
                  \/ i \in 1..Len(pushed[r]) /\ Append(pushed[r], f)[i] = pushed[r][i]
            BY <2>1, <2>3
        <3> QED
            BY <2>1, <2>2, <3>1
    <2> QED
        BY <2>1, <2>3, <2>4
<1>2. ASSUME NEW c \in Conns,
             \/ Register(c) \/ ReplayOne(c) \/ Serve(c) \/ Read(c) \/ StartDeliver(c)
             \/ (\E x \in Conns : DeliverOne(c, x)) \/ EndDeliver(c) \/ ReadFails(c)
             \/ Unregister(c) \/ ConnLost(c) \/ WriteFrame(c) \/ WriteFails(c)
             \/ WriterStops(c)
      PROVE  pushed' = pushed
    BY <1>2 DEF Register, ReplayOne, Serve, Read, StartDeliver, DeliverOne,
       EndDeliver, ReadFails, Unregister, ConnLost, WriteFrame, WriteFails,
       WriterStops, aux
<1>3. CASE UNCHANGED vars
    BY <1>3 DEF vars, aux
<1> QED
    BY <1>1, <1>2, <1>3 DEF Next, Proceed, Idle

-----------------------------------------------------------------------------
(* The elements of a sequence, as it grows at its end and shrinks at its head.*)
LEMMA ToSetAppend ==
    ASSUME NEW S, NEW s \in Seq(S), NEW e \in S
    PROVE  ToSet(Append(s, e)) = ToSet(s) \union {e}
<1> DEFINE t == Append(s, e)
<1>1. t \in Seq(S) /\ Len(t) = Len(s) + 1 /\ t[Len(s) + 1] = e
    OBVIOUS
<1>2. \A i \in 1..Len(s) : t[i] = s[i]
    OBVIOUS
<1>3. DOMAIN s = 1..Len(s) /\ DOMAIN t = 1..(Len(s) + 1) /\ Len(s) \in Nat
    BY <1>1
<1> HIDE DEF t
<1>4. ToSet(t) = ToSet(s) \union {e}
    BY <1>1, <1>2, <1>3 DEF ToSet
<1> QED
    BY <1>4 DEF t

LEMMA HeadOrTail ==
    ASSUME NEW S, NEW s \in Seq(S), s # <<>>, NEW f \in ToSet(s)
    PROVE  f = Head(s) \/ f \in ToSet(Tail(s))
<1>1. PICK i \in 1..Len(s) : f = s[i]
    BY DEF ToSet
<1>2. CASE i = 1
    BY <1>1, <1>2
<1>3. CASE i # 1
    <2>1. i - 1 \in 1..Len(Tail(s)) /\ Tail(s)[i - 1] = s[i]
        BY <1>3
    <2>2. i - 1 \in DOMAIN Tail(s)
        BY <2>1
    <2> QED
        BY <1>1, <2>1, <2>2 DEF ToSet
<1> QED
    BY <1>2, <1>3

(* Moving the head of b to the end of a does not change a \o b, and appending *)
(* to b appends to a \o b: what a channel's reader and its senders do.        *)
LEMMA MoveHead ==
    ASSUME NEW S, NEW a \in Seq(S), NEW b \in Seq(S), b # <<>>
    PROVE  Append(a, Head(b)) \o Tail(b) = a \o b
<1> DEFINE u == Append(a, Head(b)) \o Tail(b)
           v == a \o b
<1>1. u \in Seq(S) /\ v \in Seq(S) /\ Len(u) = Len(v)
    OBVIOUS
<1>2. \A i \in 1..Len(u) : u[i] = v[i]
    OBVIOUS
<1> QED
    BY <1>1, <1>2, SeqEqual

LEMMA AppendConcat ==
    ASSUME NEW S, NEW a \in Seq(S), NEW b \in Seq(S), NEW e \in S
    PROVE  a \o Append(b, e) = Append(a \o b, e)
<1> DEFINE u == a \o Append(b, e)
           v == Append(a \o b, e)
<1>1. u \in Seq(S) /\ v \in Seq(S) /\ Len(u) = Len(v)
    OBVIOUS
<1>2. \A i \in 1..Len(u) : u[i] = v[i]
    OBVIOUS
<1> QED
    BY <1>1, <1>2, SeqEqual

(* A non-blocking send appends the entry to the client's stream or records it *)
(* as dropped, and touches no other client.                                   *)
LEMMA TrySendEffect ==
    ASSUME TypeOK, NEW x \in Conns, NEW e \in Entry, TrySend(x, e), taken' = taken
    PROVE  /\ \/ Stream(x)' = Append(Stream(x), e) /\ dropped'[x] = dropped[x]
              \/ Stream(x)' = Stream(x) /\ dropped'[x] = dropped[x] \union {e}
           /\ \A c \in Conns \ {x} : Stream(c)' = Stream(c) /\ dropped'[c] = dropped[c]
<1> USE DEF TypeOK, Stream
<1>1. CASE Len(send[x]) < SendCap
    <2>1. send' = [send EXCEPT ![x] = Append(@, e)] /\ dropped' = dropped
        BY <1>1 DEF TrySend
    <2>2. taken[x] \o Append(send[x], e) = Append(taken[x] \o send[x], e)
        BY AppendConcat
    <2> QED
        BY <2>1, <2>2
<1>2. CASE ~(Len(send[x]) < SendCap)
    <2>1. dropped' = [dropped EXCEPT ![x] = @ \union {e}] /\ send' = send
        BY <1>2 DEF TrySend
    <2> QED
        BY <2>1
<1> QED
    BY <1>1, <1>2

(* A frame that has passed a client stays so.                                 *)
LEMMA SendPasses ==
    ASSUME TypeOK, NEW x \in Conns, NEW f \in Frame, NEW via \in {"replay", "live"},
           TrySend(x, [frame |-> f, via |-> via]), taken' = taken
    PROVE  /\ Passed(x, f, via)'
           /\ \A c \in Conns : \A g, v : Passed(c, g, v) => Passed(c, g, v)'
<1> DEFINE e == [frame |-> f, via |-> via]
<1>1. e \in Entry
    BY DEF Entry
<1>2. \A c \in Conns : Stream(c) \in Seq(Entry)
    BY DEF TypeOK, Stream
<1>3. ToSet(Append(Stream(x), e)) = ToSet(Stream(x)) \union {e}
    BY <1>1, <1>2, ToSetAppend
<1>4. /\ \/ Stream(x)' = Append(Stream(x), e) /\ dropped'[x] = dropped[x]
         \/ Stream(x)' = Stream(x) /\ dropped'[x] = dropped[x] \union {e}
      /\ \A c \in Conns \ {x} : Stream(c)' = Stream(c) /\ dropped'[c] = dropped[c]
    BY <1>1, TrySendEffect
<1>5. Passed(x, f, via)'
    BY <1>3, <1>4 DEF Passed
<1>6. ASSUME NEW c \in Conns, NEW g, NEW v, Passed(c, g, v) PROVE Passed(c, g, v)'
    BY <1>3, <1>4, <1>6 DEF Passed
<1> QED
    BY <1>5, <1>6

(* The writer moves entries along a client's stream and changes none.         *)
LEMMA WriterKeepsStream ==
    ASSUME TypeOK, NEW c \in Conns, WriteFrame(c) \/ WriteFails(c)
    PROVE  \A x \in Conns : Stream(x)' = Stream(x)
<1> USE DEF TypeOK, Stream
<1>1. /\ send[c] # <<>>
      /\ taken' = [taken EXCEPT ![c] = Append(@, Head(send[c]))]
      /\ send' = [send EXCEPT ![c] = Tail(@)]
    BY DEF WriteFrame, WriteFails
<1>2. Append(taken[c], Head(send[c])) \o Tail(send[c]) = taken[c] \o send[c]
    BY SMTT(30), <1>1, MoveHead
<1> QED
    BY <1>1, <1>2

(* The frames owed to a client are frames of its room.                        *)
LEMMA OwedType ==
    ASSUME RelayHubAssumption, TypeOK, PushedInRoom, NEW c \in Conns
    PROVE  \A f \in Owed(c) : f \in Frame /\ HomeOf(f) = RoomOf[c]
<1>1. RoomOf[c] \in Rooms
    BY DEF RelayHubAssumption
<1>2. pushed[RoomOf[c]] \in Seq(Frame) /\ joined[c].before \in Nat
    BY <1>1 DEF TypeOK
<1>3. \A i \in (joined[c].before + 1)..Len(pushed[RoomOf[c]]) :
         i \in 1..Len(pushed[RoomOf[c]])
    BY <1>2
<1>4. \A i \in 1..Len(pushed[RoomOf[c]]) :
         /\ pushed[RoomOf[c]][i] \in Frame
         /\ HomeOf(pushed[RoomOf[c]][i]) = RoomOf[c]
    BY <1>1, <1>2 DEF PushedInRoom
<1> QED
    BY <1>3, <1>4 DEF Owed

(* Steps that register nobody and push nothing keep Accounted if they keep    *)
(* each frame of it covered.                                                  *)
LEMMA CoverageKept ==
    ASSUME RelayHubAssumption, TypeOK, PushedInRoom, Accounted,
           \A c \in Conns : Registered(c)' => Registered(c),
           UNCHANGED <<pushed, joined>>,
           \A c \in Conns, f \in Frame :
              HomeOf(f) = RoomOf[c] /\ Registered(c) /\ LiveCovered(c, f)
                 => LiveCovered(c, f)',
           \A c \in Conns : \A f : ReplayCovered(c, f) => ReplayCovered(c, f)'
    PROVE  Accounted'
<1> SUFFICES ASSUME NEW c \in Conns, Registered(c)'
             PROVE  /\ \A f \in Owed(c)' : LiveCovered(c, f)'
                    /\ \A f \in ToSet(joined'[c].window) : ReplayCovered(c, f)'
    BY DEF Accounted
<1>1. Registered(c)
    OBVIOUS
<1>2. \A f \in Owed(c) : f \in Frame /\ HomeOf(f) = RoomOf[c]
    BY OwedType
<1>3. Owed(c)' = Owed(c) /\ joined'[c] = joined[c]
    BY DEF Owed
<1> QED
    BY <1>1, <1>2, <1>3 DEF Accounted

(* So do steps that leave deliveries and streams alone.                       *)
LEMMA CoverageUntouched ==
    ASSUME RelayHubAssumption, TypeOK, PushedInRoom, Accounted,
           \A c \in Conns : Registered(c)' => Registered(c),
           UNCHANGED <<pushed, joined, replay, sent, todo, dropped>>,
           \A c \in Conns : pc[c] = "fanout" => pc'[c] = "fanout",
           \A c \in Conns : Stream(c)' = Stream(c)
    PROVE  Accounted'
<1>1. \A c \in Conns : \A f, v : Passed(c, f, v) => Passed(c, f, v)'
    BY DEF Passed
<1>2. \A c \in Conns, f \in Frame : InFlight(c, f) => InFlight(c, f)'
    BY DEF InFlight, Frame
<1>3. \A c \in Conns, f \in Frame : LiveCovered(c, f) => LiveCovered(c, f)'
    BY <1>1, <1>2 DEF LiveCovered
<1>4. \A c \in Conns : \A f : ReplayCovered(c, f) => ReplayCovered(c, f)'
    BY <1>1 DEF ReplayCovered
<1> QED
    BY <1>3, <1>4, CoverageKept

(* No step opens a gap between what a registered client was promised and what *)
(* has passed it.                                                             *)
LEMMA NextAccounted ==
    ASSUME RelayHubAssumption, HubInv, [Next]_vars
    PROVE  Accounted'
<1>1. TypeOK /\ SendersCounted /\ RecipientsPinned /\ PushedInRoom /\ Accounted
    BY DEF HubInv
<1> USE RelayHubAssumption, <1>1
<1>3. CASE UNCHANGED vars
    <2>1. \A c \in Conns : Registered(c)' => Registered(c)
        BY <1>3 DEF vars, hub, Registered
    <2>2. \A c \in Conns : Stream(c)' = Stream(c)
        BY <1>3 DEF vars, channel, aux, Stream
    <2>3. UNCHANGED <<pc, pushed, joined, replay, sent, todo, dropped>>
        BY <1>3 DEF vars, handler, aux
    <2> QED
        BY <2>1, <2>2, <2>3, CoverageUntouched
<1>4. ASSUME NEW c \in Conns,
             Serve(c) \/ ReadFails(c) \/ ConnLost(c) \/ WriterStops(c) \/ EndDeliver(c)
      PROVE  Accounted'
    <2>1. \A x \in Conns : Registered(x)' => Registered(x)
        BY <1>4 DEF Serve, ReadFails, ConnLost, WriterStops, EndDeliver, hub, Registered
    <2>2. \A x \in Conns : Stream(x)' = Stream(x)
        BY <1>4 DEF Serve, ReadFails, ConnLost, WriterStops, EndDeliver, channel, aux,
           Stream
    <2>3. \A x \in Conns : pc[x] = "fanout" => pc'[x] = "fanout"
        BY <1>4 DEF Serve, ReadFails, ConnLost, WriterStops, EndDeliver, handler, TypeOK
    <2>4. UNCHANGED <<pushed, joined, replay, sent, todo, dropped>>
        BY <1>4 DEF Serve, ReadFails, ConnLost, WriterStops, EndDeliver, handler, aux
    <2> QED
        BY <2>1, <2>2, <2>3, <2>4, CoverageUntouched
<1>5. ASSUME NEW c \in Conns, WriteFrame(c) \/ WriteFails(c) PROVE Accounted'
    <2>1. \A x \in Conns : Registered(x)' => Registered(x)
        BY <1>5 DEF WriteFrame, WriteFails, hub, Registered
    <2>2. \A x \in Conns : Stream(x)' = Stream(x)
        BY <1>5, WriterKeepsStream
    <2>3. UNCHANGED <<pc, pushed, joined, replay, sent, todo, dropped>>
        BY <1>5 DEF WriteFrame, WriteFails, handler
    <2> QED
        BY <2>1, <2>2, <2>3, CoverageUntouched
<1>6. ASSUME NEW c \in Conns, Unregister(c) PROVE Accounted'
    <2>1. clients' = clients \/ clients' = [clients EXCEPT ![DeviceOf[c]] = NoConn]
        BY <1>6 DEF Unregister
    <2>2. \A x \in Conns : Registered(x)' => Registered(x)
        BY ZenonT(30), <2>1 DEF Registered, RelayHubAssumption, TypeOK
    <2>3. \A x \in Conns : Stream(x)' = Stream(x)
        BY <1>6 DEF Unregister, aux, Stream
    <2>4. \A x \in Conns : pc[x] = "fanout" => pc'[x] = "fanout"
        BY <1>6 DEF Unregister, TypeOK
    <2>5. UNCHANGED <<pushed, joined, replay, sent, todo, dropped>>
        BY <1>6 DEF Unregister, aux
    <2> QED
        BY <2>2, <2>3, <2>4, <2>5, CoverageUntouched
(* The recipients of a frame about to be fanned out are the registered        *)
(* clients of its room, the sender's own aside.                               *)
<1>7. ASSUME NEW c \in Conns, StartDeliver(c) PROVE Accounted'
    <2>1. /\ pc[c] = "fanout"
          /\ todo' = [todo EXCEPT ![c] = Recipients(c)]
          /\ pc' = [pc EXCEPT ![c] = "deliver"]
          /\ UNCHANGED <<clients, replay, sent, send, taken, dropped, pushed, joined>>
        BY <1>7 DEF StartDeliver, hub, channel, aux
    <2>2. \A x \in Conns : \A f, v : Passed(x, f, v) => Passed(x, f, v)'
        BY <2>1 DEF Passed, Stream
    <2>3. ASSUME NEW x \in Conns, NEW f \in Frame, HomeOf(f) = RoomOf[x],
                 Registered(x), LiveCovered(x, f)
          PROVE  LiveCovered(x, f)'
        <3>1. CASE f.from = c /\ InFlight(x, f) /\ SenderIdOf[c] # DeviceOf[x]
            <4>1. x \in Recipients(c)
                BY <2>3, <3>1 DEF Recipients, HomeOf
            <4>2. x \in todo'[c] /\ f.n = sent'[c]
                BY <2>1, <3>1, <4>1 DEF InFlight, TypeOK
            <4> QED
                BY <3>1, <4>2 DEF InFlight, LiveCovered
        <3>2. CASE f.from # c /\ InFlight(x, f)
            <4>1. InFlight(x, f)'
                BY <2>1, <3>2 DEF InFlight, Frame, TypeOK
            <4> QED
                BY <4>1 DEF LiveCovered
        <3> QED
            BY <2>2, <2>3, <3>1, <3>2 DEF LiveCovered
    <2>4. \A x \in Conns : \A f : ReplayCovered(x, f) => ReplayCovered(x, f)'
        BY <2>1, <2>2 DEF ReplayCovered
    <2>5. \A x \in Conns : Registered(x)' => Registered(x)
        BY <2>1 DEF Registered
    <2> QED
        BY <2>1, <2>3, <2>4, <2>5, CoverageKept
<1>8. ASSUME NEW c \in Conns, NEW x \in Conns, DeliverOne(c, x) PROVE Accounted'
    <2>1. /\ x \in todo[c]
          /\ TrySend(x, [frame |-> Current(c), via |-> "live"])
          /\ todo' = [todo EXCEPT ![c] = @ \ {x}]
          /\ UNCHANGED <<clients, pc, replay, sent, taken, pushed, joined>>
        BY <1>8 DEF DeliverOne, hub
    <2>2. PICK g \in Frame : g = Current(c)
        BY <1>8, CurrentType DEF DeliverOne
    <2>3. /\ Passed(x, g, "live")'
          /\ \A y \in Conns : \A f, v : Passed(y, f, v) => Passed(y, f, v)'
        BY <2>1, <2>2, SendPasses
    <2>4. ASSUME NEW y \in Conns, NEW f \in Frame, LiveCovered(y, f)
          PROVE  LiveCovered(y, f)'
        <3>1. CASE InFlight(y, f) /\ f.from = c /\ y = x
            <4>1. f = g
                BY <2>2, <3>1 DEF InFlight, Current, Frame
            <4> QED
                BY <2>3, <3>1, <4>1 DEF LiveCovered
        <3>2. CASE InFlight(y, f) /\ ~(f.from = c /\ y = x)
            <4>1. InFlight(y, f)'
                BY <2>1, <3>2 DEF InFlight, Frame, TypeOK
            <4> QED
                BY <4>1 DEF LiveCovered
        <3> QED
            BY <2>3, <2>4, <3>1, <3>2 DEF LiveCovered
    <2>5. \A y \in Conns : \A f : ReplayCovered(y, f) => ReplayCovered(y, f)'
        BY <2>1, <2>3 DEF ReplayCovered
    <2>6. \A y \in Conns : Registered(y)' => Registered(y)
        BY <2>1 DEF Registered
    <2> QED
        BY <2>1, <2>4, <2>5, <2>6, CoverageKept
<1>9. ASSUME NEW c \in Conns, ReplayOne(c) PROVE Accounted'
    <2>1. /\ replay[c] # <<>>
          /\ TrySend(c, [frame |-> Head(replay[c]), via |-> "replay"])
          /\ replay' = [replay EXCEPT ![c] = Tail(@)]
          /\ UNCHANGED <<clients, pc, todo, sent, taken, pushed, joined>>
        BY <1>9 DEF ReplayOne, hub
    <2>2. replay[c] \in Seq(Frame)
        BY DEF TypeOK
    <2>3. PICK h \in Frame : h = Head(replay[c])
        BY <2>1, <2>2
    <2>4. /\ Passed(c, h, "replay")'
          /\ \A y \in Conns : \A f, v : Passed(y, f, v) => Passed(y, f, v)'
        BY <2>1, <2>3, SendPasses
    <2>5. \A f \in ToSet(replay[c]) : f = h \/ f \in ToSet(replay'[c])
        BY <2>1, <2>2, <2>3, HeadOrTail DEF TypeOK
    <2>6. \A y \in Conns \ {c} : replay'[y] = replay[y]
        BY <2>1 DEF TypeOK
    <2>7. ASSUME NEW y \in Conns, NEW f, ReplayCovered(y, f)
          PROVE  ReplayCovered(y, f)'
        <3>1. CASE y = c
            BY <2>4, <2>5, <2>7, <3>1 DEF ReplayCovered
        <3>2. CASE y # c
            BY <2>4, <2>6, <2>7, <3>2 DEF ReplayCovered
        <3> QED
            BY <3>1, <3>2
    <2>8. \A y \in Conns, f \in Frame : LiveCovered(y, f) => LiveCovered(y, f)'
        BY <2>1, <2>4 DEF LiveCovered, InFlight
    <2>9. \A y \in Conns : Registered(y)' => Registered(y)
        BY <2>1 DEF Registered
    <2> QED
        BY <2>1, <2>7, <2>8, <2>9, CoverageKept
(* A pushed frame is in flight to everybody, and disturbs no frame in flight: *)
(* its sender delivered the one before.                                       *)
<1>10. ASSUME NEW c \in Conns, BufferFrame(c) PROVE Accounted'
    <2> DEFINE r == RoomOf[c]
    <2>1. PICK f \in Frame : f = Current(c)
        BY <1>10, PushFields
    <2>2. /\ pc[c] = "buffer"
          /\ pushed' = [pushed EXCEPT ![r] = Append(@, f)]
          /\ pc' = [pc EXCEPT ![c] = "fanout"]
          /\ UNCHANGED <<clients, replay, todo, sent, send, taken, dropped, joined>>
        BY <1>10, <2>1, PushFields
    <2>3. \A y \in Conns : \A g, v : Passed(y, g, v) => Passed(y, g, v)'
        BY <2>2 DEF Passed, Stream
    <2>4. \A y \in Conns : y \notin todo[c]
        BY <2>2 DEF RecipientsPinned
    <2>5. \A y \in Conns, g \in Frame : InFlight(y, g) => InFlight(y, g)'
        BY <2>2, <2>4 DEF InFlight, Frame, TypeOK
    <2>6. \A y \in Conns : InFlight(y, f)'
        BY <2>1, <2>2 DEF InFlight, Current, TypeOK
    <2>7. SUFFICES ASSUME NEW y \in Conns, Registered(y)'
                   PROVE  /\ \A g \in Owed(y)' : LiveCovered(y, g)'
                          /\ \A g \in ToSet(joined'[y].window) : ReplayCovered(y, g)'
        BY DEF Accounted
    <2>8. Registered(y)
        BY <2>2, <2>7 DEF Registered
    <2>9. \A g \in ToSet(joined'[y].window) : ReplayCovered(y, g)'
        BY <2>2, <2>3, <2>8 DEF Accounted, ReplayCovered
    <2>10. \A g \in Owed(y)' : g \in Owed(y) \/ g = f
        <3> DEFINE p == pushed[RoomOf[y]]
        <3>1. RoomOf[y] \in Rooms
            BY DEF RelayHubAssumption
        <3>2. p \in Seq(Frame) /\ joined[y].before \in Nat
            BY <3>1 DEF TypeOK
        <3>3. pushed'[RoomOf[y]] = p \/ pushed'[RoomOf[y]] = Append(p, f)
            BY <2>2, <3>1 DEF TypeOK
        <3>4. \A i \in 1..Len(p) : Append(p, f)[i] = p[i]
            BY <3>2
        <3>5. Len(Append(p, f)) = Len(p) + 1 /\ Append(p, f)[Len(p) + 1] = f
            BY <3>2
        <3> QED
            BY <2>2, <3>2, <3>3, <3>4, <3>5 DEF Owed
    <2>11. \A g \in Owed(y) : g \in Frame /\ LiveCovered(y, g)
        BY <2>8, OwedType DEF Accounted
    <2> QED
        BY <2>3, <2>5, <2>6, <2>9, <2>10, <2>11 DEF LiveCovered
(* A new frame of a sender that was reading leaves what is in flight alone.   *)
<1>12. ASSUME NEW c \in Conns, Read(c) PROVE Accounted'
    <2>1. /\ pc[c] = "reading"
          /\ sent' = [sent EXCEPT ![c] = @ + 1]
          /\ pc' = [pc EXCEPT ![c] = "buffer"]
          /\ UNCHANGED <<clients, replay, todo, send, taken, dropped, pushed, joined>>
        BY <1>12 DEF Read, hub, channel, aux
    <2>2. \A x \in Conns : \A f, v : Passed(x, f, v) => Passed(x, f, v)'
        BY <2>1 DEF Passed, Stream
    <2>3. \A x \in Conns : x \notin todo[c]
        BY <2>1 DEF RecipientsPinned
    <2>4. \A x \in Conns, f \in Frame : InFlight(x, f) => InFlight(x, f)'
        BY <2>1, <2>3 DEF InFlight, Frame, TypeOK
    <2>5. \A x \in Conns, f \in Frame : LiveCovered(x, f) => LiveCovered(x, f)'
        BY <2>2, <2>4 DEF LiveCovered
    <2>6. \A x \in Conns : \A f : ReplayCovered(x, f) => ReplayCovered(x, f)'
        BY <2>1, <2>2 DEF ReplayCovered
    <2>7. \A x \in Conns : Registered(x)' => Registered(x)
        BY <2>1 DEF Registered
    <2> QED
        BY <2>1, <2>5, <2>6, <2>7, CoverageKept
(* A client that registers is owed nothing yet but the window it was given.   *)
<1>11. ASSUME NEW c \in Conns, Register(c) PROVE Accounted'
    <2>1. /\ clients' = [clients EXCEPT ![DeviceOf[c]] = c]
          /\ replay' = [replay EXCEPT ![c] = buffer[RoomOf[c]]]
          /\ joined' = [joined EXCEPT ![c] =
                 [before |-> Len(pushed[RoomOf[c]]), window |-> buffer[RoomOf[c]]]]
          /\ pc' = [pc EXCEPT ![c] = "replay"]
          /\ pc[c] = "idle"
          /\ UNCHANGED <<todo, sent, send, taken, dropped, pushed>>
        BY <1>11 DEF Register, channel
    <2>2. \A y \in Conns : \A g, v : Passed(y, g, v) => Passed(y, g, v)'
        BY <2>1 DEF Passed, Stream
    <2>3. \A y \in Conns, g \in Frame : InFlight(y, g) => InFlight(y, g)'
        BY <2>1 DEF InFlight, Frame, TypeOK
    <2>4. SUFFICES ASSUME NEW y \in Conns, Registered(y)'
                   PROVE  /\ \A g \in Owed(y)' : LiveCovered(y, g)'
                          /\ \A g \in ToSet(joined'[y].window) : ReplayCovered(y, g)'
        BY DEF Accounted
    <2>5. CASE y = c
        <3>1. RoomOf[c] \in Rooms
            BY DEF RelayHubAssumption
        <3>2. Len(pushed[RoomOf[c]]) \in Nat
            BY <3>1 DEF TypeOK
        <3>3. joined'[c].before = Len(pushed'[RoomOf[c]])
            BY <2>1 DEF TypeOK
        <3>4. Owed(c)' = {}
            BY <2>1, <3>2, <3>3 DEF Owed
        <3>5. joined'[c].window = replay'[c]
            BY <2>1 DEF TypeOK
        <3> QED
            BY <2>5, <3>4, <3>5 DEF ReplayCovered
    <2>6. CASE y # c
        <3>1. joined'[y] = joined[y] /\ replay'[y] = replay[y] /\ Registered(y)
            BY <2>1, <2>4, <2>6 DEF Registered, TypeOK, RelayHubAssumption
        <3>2. Owed(y)' = Owed(y)
            BY <2>1, <3>1 DEF Owed
        <3>3. \A g \in Owed(y) : g \in Frame /\ LiveCovered(y, g)
            BY <3>1, OwedType DEF Accounted
        <3>4. \A g \in ToSet(joined[y].window) : ReplayCovered(y, g)
            BY <3>1 DEF Accounted
        <3> QED
            BY <2>2, <2>3, <3>1, <3>2, <3>3, <3>4 DEF LiveCovered, ReplayCovered
    <2> QED
        BY <2>5, <2>6
<1> QED
    BY <1>3, <1>4, <1>5, <1>6, <1>7, <1>8, <1>9, <1>10, <1>11, <1>12
       DEF Next, Proceed, Idle

-----------------------------------------------------------------------------
LEMMA InitInv == ASSUME RelayHubAssumption, Init PROVE HubInv
<1>1. TypeOK
    BY InitType
<1>2. SendersCounted /\ RecipientsPinned /\ ClosedIsGone
    BY DEF Init, SendersCounted, RecipientsPinned, ClosedIsGone
<1>3. PushedInRoom
    BY InitBuffer DEF PushedInRoom, HomeOf, RelayHubAssumption
<1>4. Accounted
    BY DEF Init, Accounted, Registered, RelayHubAssumption
<1> QED
    BY <1>1, <1>2, <1>3, <1>4 DEF HubInv

(* HubInv is an invariant of the hub. *)
THEOREM HubInvariant == Spec => []HubInv
<1>1. Init => HubInv
    BY RelayHubAssumption, InitInv
<1>2. HubInv /\ [Next]_vars => HubInv'
    <2> SUFFICES ASSUME HubInv, [Next]_vars PROVE HubInv'
        OBVIOUS
    <2>1. TypeOK /\ SendersCounted /\ RecipientsPinned /\ ClosedIsGone /\ PushedInRoom
        BY DEF HubInv
    <2> QED
        BY <2>1, RelayHubAssumption, NextType, NextSendersCounted, NextRecipientsPinned,
           NextClosedIsGone, NextPushedInRoom, NextAccounted DEF HubInv
<1> QED
    BY <1>1, <1>2, PTL DEF Spec

(* Every variable of the hub and its handlers keeps its type.                 *)
THEOREM TypeCorrect == Spec => []TypeOK
<1>1. HubInv => TypeOK
    BY DEF HubInv
<1> QED
    BY <1>1, HubInvariant, PTL

(* No goroutine ever sends on a channel that Unregister has closed.           *)
THEOREM SendsAreSafe == Spec => []NoSendOnClosed
<1>1. HubInv => NoSendOnClosed
    BY DEF HubInv, TypeOK, NoSendOnClosed, RecipientsPinned, ClosedIsGone
<1> QED
    BY <1>1, HubInvariant, PTL

(* Joining leaves no gap: every frame of the window a client joined with, and *)
(* every frame pushed since, is accounted for as long as the hub knows it.    *)
THEOREM JoiningLeavesNoGap == Spec => []Accounted
<1>1. HubInv => Accounted
    BY DEF HubInv
<1> QED
    BY <1>1, HubInvariant, PTL

-----------------------------------------------------------------------------
(* What an eviction leaves was there before it.                               *)
LEMMA SuffixFields ==
    ASSUME NEW S, NEW s \in Seq(S), NEW k \in 0..Len(s)
    PROVE  /\ Len(SubSeq(s, k + 1, Len(s))) = Len(s) - k
           /\ \A i \in 1..(Len(s) - k) :
                 SubSeq(s, k + 1, Len(s))[i] = s[i + k] /\ i + k \in 1..Len(s)
<1> DEFINE t == SubSeq(s, k + 1, Len(s))
<1>1. Len(s) \in Nat
    OBVIOUS
<1>2. \A i \in (k + 1)..Len(s) : s[i] \in S
    BY <1>1
<1>3. k + 1 \in Int /\ Len(s) \in Int
    BY <1>1
<1>4. Len(t) = IF k + 1 <= Len(s) THEN Len(s) - (k + 1) + 1 ELSE 0
    BY <1>2, <1>3, SubSeqProperties
<1>5. \A i \in 1..(Len(s) - k) : t[i] = s[i + k] /\ i + k \in 1..Len(s)
    BY <1>1
<1> HIDE DEF t
<1>6. Len(t) = Len(s) - k
    BY <1>1, <1>4
<1> QED
    BY <1>5, <1>6 DEF t

LEMMA SuffixElements ==
    ASSUME NEW S, NEW s \in Seq(S), NEW k \in 0..Len(s)
    PROVE  ToSet(SubSeq(s, k + 1, Len(s))) \subseteq ToSet(s)
<1> DEFINE t == SubSeq(s, k + 1, Len(s))
<1>1. t \in Seq(S) /\ Len(t) = Len(s) - k
    BY SuffixType, SuffixFields
<1>2. \A i \in 1..(Len(s) - k) : t[i] = s[i + k] /\ i + k \in 1..Len(s)
    BY SuffixFields
<1> HIDE DEF t
<1>3. DOMAIN s = 1..Len(s) /\ DOMAIN t = 1..(Len(s) - k)
    BY <1>1
<1>4. ToSet(t) \subseteq ToSet(s)
    BY <1>2, <1>3 DEF ToSet
<1> QED
    BY <1>4 DEF t

LEMMA ToSetType ==
    ASSUME NEW S, NEW s \in Seq(S) PROVE ToSet(s) \subseteq S
<1>1. \A i \in DOMAIN s : s[i] \in S
    OBVIOUS
<1> QED
    BY <1>1 DEF ToSet

LEMMA HeadAndTail ==
    ASSUME NEW S, NEW s \in Seq(S), s # <<>>
    PROVE  Head(s) \in ToSet(s) /\ ToSet(Tail(s)) \subseteq ToSet(s)
<1>1. Len(s) \in Nat \ {0} /\ DOMAIN s = 1..Len(s)
    OBVIOUS
<1>2. Head(s) = s[1] /\ 1 \in DOMAIN s
    BY <1>1
<1>3. DOMAIN Tail(s) = 1..(Len(s) - 1)
    BY <1>1
<1>4. \A i \in 1..(Len(s) - 1) : Tail(s)[i] = s[i + 1] /\ i + 1 \in DOMAIN s
    BY <1>1
<1> QED
    BY <1>2, <1>3, <1>4 DEF ToSet

(* What a client got, or lost to a full channel.                              *)
Got(c) == ToSet(Stream(c)) \union dropped[c]

(* A send adds its entry to its client's, at most.                            *)
LEMMA GotAfterSend ==
    ASSUME TypeOK, NEW x \in Conns, NEW e \in Entry, TrySend(x, e), taken' = taken,
           NEW c \in Conns
    PROVE  /\ \A g \in Got(c)' : g \in Got(c) \/ (c = x /\ g = e)
           /\ \A g \in ToSet(Stream(c))' : g \in ToSet(Stream(c)) \/ (c = x /\ g = e)
<1>1. Stream(x) \in Seq(Entry)
    BY DEF TypeOK, Stream
<1>2. ToSet(Append(Stream(x), e)) = ToSet(Stream(x)) \union {e}
    BY <1>1, ToSetAppend
<1>3. /\ \/ Stream(x)' = Append(Stream(x), e) /\ dropped'[x] = dropped[x]
         \/ Stream(x)' = Stream(x) /\ dropped'[x] = dropped[x] \union {e}
      /\ \A y \in Conns \ {x} : Stream(y)' = Stream(y) /\ dropped'[y] = dropped[y]
    BY TrySendEffect
<1> QED
    BY <1>2, <1>3 DEF Got

(* All other steps leave it.                                                  *)
LEMMA GotKept ==
    ASSUME TypeOK, NEW c \in Conns,
           \/ Register(c) \/ Serve(c) \/ Read(c) \/ BufferFrame(c) \/ StartDeliver(c)
           \/ EndDeliver(c) \/ ConnLost(c) \/ ReadFails(c) \/ Unregister(c) \/ WriteFrame(c)
           \/ WriteFails(c) \/ WriterStops(c)
    PROVE  \A x \in Conns : Stream(x)' = Stream(x) /\ dropped'[x] = dropped[x]
<1>1. CASE WriteFrame(c) \/ WriteFails(c)
    BY <1>1, WriterKeepsStream DEF WriteFrame, WriteFails
<1>2. CASE ~(WriteFrame(c) \/ WriteFails(c))
    <2>1. UNCHANGED <<taken, send, dropped>>
        BY <1>2 DEF Register, Serve, Read, BufferFrame, StartDeliver, EndDeliver, ConnLost,
           ReadFails, Unregister, WriterStops, channel, aux
    <2> QED
        BY <2>1 DEF Stream
<1> QED
    BY <1>1, <1>2

(* A frame pushed into a room stays pushed.                                   *)
LEMMA PushedGrows ==
    ASSUME RelayHubAssumption, TypeOK, SendersCounted, [Next]_vars
    PROVE  \A r \in Rooms : ToSet(pushed[r]) \subseteq ToSet(pushed'[r])
<1>1. ASSUME NEW c \in Conns, BufferFrame(c)
      PROVE  \A r \in Rooms : ToSet(pushed[r]) \subseteq ToSet(pushed'[r])
    <2> DEFINE f == Current(c)
    <2>1. /\ f \in Frame /\ RoomOf[c] \in Rooms
          /\ pushed' = [pushed EXCEPT ![RoomOf[c]] = Append(@, f)]
        BY <1>1, PushFields
    <2> HIDE DEF f
    <2>2. ToSet(Append(pushed[RoomOf[c]], f)) = ToSet(pushed[RoomOf[c]]) \union {f}
        BY <2>1, ToSetAppend DEF TypeOK
    <2> QED
        BY <2>1, <2>2 DEF TypeOK
<1>2. ASSUME NEW c \in Conns,
             \/ Register(c) \/ ReplayOne(c) \/ Serve(c) \/ Read(c) \/ StartDeliver(c)
             \/ (\E x \in Conns : DeliverOne(c, x)) \/ EndDeliver(c) \/ ReadFails(c)
             \/ Unregister(c) \/ ConnLost(c) \/ WriteFrame(c) \/ WriteFails(c)
             \/ WriterStops(c)
      PROVE  pushed' = pushed
    BY <1>2 DEF Register, ReplayOne, Serve, Read, StartDeliver, DeliverOne,
       EndDeliver, ReadFails, Unregister, ConnLost, WriteFrame, WriteFails,
       WriterStops, aux
<1>3. CASE UNCHANGED vars
    BY <1>3 DEF vars, aux
<1> QED
    BY <1>1, <1>2, <1>3 DEF Next, Proceed, Idle

-----------------------------------------------------------------------------
(* A sender has its frame in hand from Broadcast's push to the last delivery. *)
LEMMA NextInHandPushed ==
    ASSUME RelayHubAssumption, TypeOK, SendersCounted, InHandPushed, [Next]_vars
    PROVE  InHandPushed'
<1> USE DEF TypeOK, InHandPushed
<1>1. ASSUME NEW c \in Conns, BufferFrame(c) PROVE InHandPushed'
    <2> DEFINE f == Current(c)
    <2>1. /\ f \in Frame /\ RoomOf[c] \in Rooms
          /\ pushed' = [pushed EXCEPT ![RoomOf[c]] = Append(@, f)]
          /\ sent' = sent /\ pc' = [pc EXCEPT ![c] = "fanout"]
        BY <1>1, PushFields
    <2>2. \A x \in Conns : Current(x)' = Current(x)
        BY <2>1 DEF Current
    <2>3. f = Current(c)
        OBVIOUS
    <2> HIDE DEF f
    <2>4. ToSet(Append(pushed[RoomOf[c]], f)) = ToSet(pushed[RoomOf[c]]) \union {f}
        BY <2>1, ToSetAppend
    <2>5. Current(c)' \in ToSet(pushed'[RoomOf[c]])
        BY <2>1, <2>2, <2>3, <2>4
    <2>6. ASSUME NEW x \in Conns \ {c}, pc'[x] \in {"fanout", "deliver"}
          PROVE  Current(x)' \in ToSet(pushed'[RoomOf[x]])
        <3>1. Current(x) \in ToSet(pushed[RoomOf[x]])
            BY <2>1, <2>6
        <3>2. RoomOf[x] \in Rooms
            BY DEF RelayHubAssumption
        <3> QED
            BY ZenonT(60), <2>2, <3>1, <3>2, PushedGrows
    <2> QED
        BY <2>5, <2>6
<1>4. ASSUME NEW c \in Conns, Read(c) PROVE InHandPushed'
    <2>1. /\ pushed' = pushed /\ sent' = [sent EXCEPT ![c] = @ + 1]
          /\ pc' = [pc EXCEPT ![c] = "buffer"]
        BY <1>4 DEF Read, aux
    <2> QED
        BY <2>1 DEF Current
<1>2. ASSUME NEW c \in Conns,
             \/ Register(c) \/ ReplayOne(c) \/ Serve(c) \/ StartDeliver(c)
             \/ (\E x \in Conns : DeliverOne(c, x)) \/ EndDeliver(c) \/ ReadFails(c)
             \/ Unregister(c) \/ ConnLost(c) \/ WriteFrame(c) \/ WriteFails(c)
             \/ WriterStops(c)
      PROVE  InHandPushed'
    <2>1. sent' = sent /\ pushed' = pushed
        BY <1>2 DEF Register, ReplayOne, Serve, StartDeliver, DeliverOne,
           EndDeliver, ReadFails, Unregister, ConnLost, WriteFrame, WriteFails,
           WriterStops, handler, aux
    <2>2. \A x \in Conns : pc'[x] \in {"fanout", "deliver"}
                                => pc[x] \in {"fanout", "deliver"}
        BY <1>2 DEF Register, ReplayOne, Serve, StartDeliver, DeliverOne,
           EndDeliver, ReadFails, Unregister, ConnLost, WriteFrame, WriteFails,
           WriterStops, handler
    <2> QED
        BY <2>1, <2>2 DEF Current
<1>3. CASE UNCHANGED vars
    BY <1>3 DEF vars, handler, aux, Current
<1> QED
    BY <1>1, <1>2, <1>3, <1>4 DEF Next, Proceed, Idle

(* Whom a delivery serves was settled when it took the lock.                  *)
LEMMA NextRecipientsInRoom ==
    ASSUME TypeOK, RecipientsInRoom, [Next]_vars
    PROVE  RecipientsInRoom'
<1> USE DEF TypeOK, RecipientsInRoom
<1>1. ASSUME NEW c \in Conns, StartDeliver(c) PROVE RecipientsInRoom'
    BY <1>1 DEF StartDeliver, Recipients
<1>2. ASSUME NEW c \in Conns, NEW x \in Conns, DeliverOne(c, x) PROVE RecipientsInRoom'
    BY <1>2 DEF DeliverOne
<1>3. ASSUME NEW c \in Conns,
             \/ Register(c) \/ ReplayOne(c) \/ Serve(c) \/ Read(c) \/ BufferFrame(c)
             \/ EndDeliver(c) \/ ReadFails(c) \/ Unregister(c) \/ ConnLost(c)
             \/ WriteFrame(c) \/ WriteFails(c) \/ WriterStops(c)
      PROVE  todo' = todo
    BY <1>3 DEF Register, ReplayOne, Serve, Read, BufferFrame, EndDeliver, ReadFails, Unregister,
       ConnLost, WriteFrame, WriteFails, WriterStops, handler
<1>4. CASE UNCHANGED vars
    BY <1>4 DEF vars, handler
<1> QED
    BY <1>1, <1>2, <1>3, <1>4 DEF Next, Proceed, Idle

(* A room's buffer is a part of what was pushed into the room.                *)
LEMMA NextBufferPushed ==
    ASSUME RelayHubAssumption, TypeOK, SendersCounted, BufferPushed, [Next]_vars
    PROVE  BufferPushed'
<1> USE DEF TypeOK, BufferPushed
<1>1. ASSUME NEW c \in Conns, BufferFrame(c) PROVE BufferPushed'
    <2> DEFINE r == RoomOf[c]
               f == Current(c)
               s == Append(buffer[r], f)
    <2>1. /\ f \in Frame /\ r \in Rooms /\ s \in Seq(Frame)
          /\ pushed' = [pushed EXCEPT ![r] = Append(@, f)]
        BY <1>1, PushFields
    <2>2. PICK k \in 0..Len(s) :
              buffer' = [buffer EXCEPT ![r] = SubSeq(s, k + 1, Len(s))]
        BY <1>1, PushFields
    <2> HIDE DEF f
    <2>3. ToSet(SubSeq(s, k + 1, Len(s))) \subseteq ToSet(s)
        BY <2>1, SuffixElements
    <2>4. ToSet(s) = ToSet(buffer[r]) \union {f}
        BY <2>1, ToSetAppend
    <2>5. ToSet(Append(pushed[r], f)) = ToSet(pushed[r]) \union {f}
        BY <2>1, ToSetAppend
    <2> HIDE DEF s
    <2>6. ToSet(buffer'[r]) \subseteq ToSet(pushed'[r])
        BY <2>1, <2>2, <2>3, <2>4, <2>5
    <2>7. \A q \in Rooms \ {r} : buffer'[q] = buffer[q] /\ pushed'[q] = pushed[q]
        BY <2>1, <2>2
    <2> QED
        BY <2>6, <2>7
<1>2. ASSUME NEW c \in Conns,
             \/ Register(c) \/ ReplayOne(c) \/ Serve(c) \/ Read(c) \/ StartDeliver(c)
             \/ (\E x \in Conns : DeliverOne(c, x)) \/ EndDeliver(c) \/ ReadFails(c)
             \/ Unregister(c) \/ ConnLost(c) \/ WriteFrame(c) \/ WriteFails(c)
             \/ WriterStops(c)
      PROVE  buffer' = buffer /\ pushed' = pushed
    BY <1>2 DEF Register, ReplayOne, Serve, Read, StartDeliver, DeliverOne,
       EndDeliver, ReadFails, Unregister, ConnLost, WriteFrame, WriteFails,
       WriterStops, hub, aux
<1>3. CASE UNCHANGED vars
    BY <1>3 DEF vars, hub, aux
<1> QED
    BY <1>1, <1>2, <1>3 DEF Next, Proceed, Idle

(* So is what Register hands out to be replayed.                              *)
LEMMA NextReplayPushed ==
    ASSUME RelayHubAssumption, TypeOK, SendersCounted, BufferPushed, ReplayPushed,
           [Next]_vars
    PROVE  ReplayPushed'
<1> USE DEF TypeOK, ReplayPushed
<1>1. \A c \in Conns : RoomOf[c] \in Rooms
    BY DEF RelayHubAssumption
<1>2. \A c \in Conns : ToSet(pushed[RoomOf[c]]) \subseteq ToSet(pushed'[RoomOf[c]])
    BY <1>1, PushedGrows
<1>3. ASSUME NEW c \in Conns, Register(c) PROVE ReplayPushed'
    <2>1. /\ replay' = [replay EXCEPT ![c] = buffer[RoomOf[c]]]
          /\ ToSet(buffer[RoomOf[c]]) \subseteq ToSet(pushed[RoomOf[c]])
        BY <1>1, <1>3 DEF Register, BufferPushed
    <2> QED
        BY <1>2, <2>1
<1>4. ASSUME NEW c \in Conns, ReplayOne(c) PROVE ReplayPushed'
    <2>1. replay[c] # <<>> /\ replay' = [replay EXCEPT ![c] = Tail(@)]
        BY <1>4 DEF ReplayOne
    <2>2. ToSet(Tail(replay[c])) \subseteq ToSet(replay[c])
        BY <2>1, HeadAndTail
    <2> QED
        BY <1>2, <2>1, <2>2
<1>5. ASSUME NEW c \in Conns,
             \/ Serve(c) \/ Read(c) \/ BufferFrame(c) \/ StartDeliver(c)
             \/ (\E x \in Conns : DeliverOne(c, x)) \/ EndDeliver(c) \/ ReadFails(c)
             \/ Unregister(c) \/ ConnLost(c) \/ WriteFrame(c) \/ WriteFails(c)
             \/ WriterStops(c)
      PROVE  replay' = replay
    BY <1>5 DEF Serve, Read, BufferFrame, StartDeliver, DeliverOne, EndDeliver, ReadFails,
       Unregister, ConnLost, WriteFrame, WriteFails, WriterStops, handler
<1>6. CASE UNCHANGED vars
    BY <1>2, <1>6 DEF vars, handler
<1> QED
    BY <1>2, <1>3, <1>4, <1>5, <1>6 DEF Next, Proceed, Idle

(* What reaches a client's channel was in the hand of a sender of its room or *)
(* in its replay.                                                             *)
LEMMA NextIsolated ==
    ASSUME RelayHubAssumption, TypeOK, SendersCounted, RoomInv, [Next]_vars
    PROVE  RoomIsolation'
<1>1. \A c \in Conns : ToSet(pushed[RoomOf[c]]) \subseteq ToSet(pushed'[RoomOf[c]])
    BY PushedGrows DEF RelayHubAssumption
<1>2. \A c \in Conns : \A e \in Got(c) : e.frame \in ToSet(pushed[RoomOf[c]])
    BY DEF RoomInv, RoomIsolation, Got
<1>3. SUFFICES \A c \in Conns : \A e \in Got(c)' : e.frame \in ToSet(pushed'[RoomOf[c]])
    BY DEF RoomIsolation, Got
<1>4. ASSUME NEW c \in Conns, NEW x \in Conns, DeliverOne(c, x)
      PROVE  \A y \in Conns : \A e \in Got(y)' : e.frame \in ToSet(pushed'[RoomOf[y]])
    <2> DEFINE d == [frame |-> Current(c), via |-> "live"]
    <2>1. d \in Entry
        BY <1>4, CurrentType DEF DeliverOne, Entry
    <2>2. /\ x \in todo[c] /\ pc[c] = "deliver"
          /\ TrySend(x, d) /\ taken' = taken
        BY <1>4 DEF DeliverOne
    <2>3. RoomOf[x] = RoomOf[c]
        BY <2>2 DEF RoomInv, RecipientsInRoom
    <2>4. d.frame \in ToSet(pushed[RoomOf[x]])
        BY <2>2, <2>3 DEF RoomInv, InHandPushed
    <2> HIDE DEF d
    <2>5. \A y \in Conns : \A e \in Got(y)' : e.frame \in ToSet(pushed[RoomOf[y]])
        BY <1>2, <2>1, <2>2, <2>4, GotAfterSend
    <2> QED
        BY <1>1, <2>5
<1>5. ASSUME NEW c \in Conns, ReplayOne(c)
      PROVE  \A y \in Conns : \A e \in Got(y)' : e.frame \in ToSet(pushed'[RoomOf[y]])
    <2> DEFINE d == [frame |-> Head(replay[c]), via |-> "replay"]
    <2>1. /\ replay[c] # <<>> /\ replay[c] \in Seq(Frame)
          /\ TrySend(c, d) /\ taken' = taken
        BY <1>5 DEF ReplayOne, TypeOK
    <2>2. Head(replay[c]) \in ToSet(replay[c]) /\ Head(replay[c]) \in Frame
        BY <2>1, HeadAndTail
    <2>3. d \in Entry
        BY <2>2 DEF Entry
    <2>4. d.frame \in ToSet(pushed[RoomOf[c]])
        BY <2>2 DEF RoomInv, ReplayPushed
    <2> HIDE DEF d
    <2>5. \A y \in Conns : \A e \in Got(y)' : e.frame \in ToSet(pushed[RoomOf[y]])
        BY <1>2, <2>1, <2>3, <2>4, GotAfterSend
    <2> QED
        BY <1>1, <2>5
<1>6. CASE \/ UNCHANGED vars
           \/ \E c \in Conns :
                 \/ Register(c) \/ Serve(c) \/ Read(c) \/ BufferFrame(c) \/ StartDeliver(c)
                 \/ EndDeliver(c) \/ ConnLost(c) \/ ReadFails(c) \/ Unregister(c)
                 \/ WriteFrame(c) \/ WriteFails(c) \/ WriterStops(c)
    <2>1. \A y \in Conns : Stream(y)' = Stream(y) /\ dropped'[y] = dropped[y]
        BY <1>6, GotKept DEF vars, channel, aux, Stream
    <2>2. \A y \in Conns : Got(y)' = Got(y)
        BY <2>1 DEF Got
    <2> QED
        BY <1>1, <1>2, <2>2
<1> QED
    BY <1>4, <1>5, <1>6 DEF Next, Proceed, Idle

LEMMA InitRoom == ASSUME RelayHubAssumption, Init PROVE RoomInv
<1>1. \A c \in Conns : Stream(c) = <<>> /\ dropped[c] = {} /\ replay[c] = <<>>
    BY DEF Init, Stream
<1>2. ToSet(<<>>) = {}
    BY DEF ToSet
<1>3. RoomIsolation
    BY <1>1, <1>2 DEF RoomIsolation
<1>4. InHandPushed /\ RecipientsInRoom
    BY DEF Init, InHandPushed, RecipientsInRoom
<1>5. BufferPushed
    BY InitBuffer DEF BufferPushed
<1>6. ReplayPushed
    BY <1>1, <1>2 DEF ReplayPushed
<1> QED
    BY <1>3, <1>4, <1>5, <1>6 DEF RoomInv

(* Frames stay in their room wherever the hub keeps them.                     *)
THEOREM RoomInvariant == Spec => []RoomInv
<1>1. Init => RoomInv
    BY RelayHubAssumption, InitRoom
<1>2. HubInv /\ RoomInv /\ [Next]_vars => RoomInv'
    <2> SUFFICES ASSUME HubInv, RoomInv, [Next]_vars PROVE RoomInv'
        OBVIOUS
    <2>1. TypeOK /\ SendersCounted
        BY DEF HubInv
    <2>2. InHandPushed /\ RecipientsInRoom /\ BufferPushed /\ ReplayPushed
        BY DEF RoomInv
    <2> QED
        BY <2>1, <2>2, RelayHubAssumption, NextInHandPushed, NextRecipientsInRoom,
           NextBufferPushed, NextReplayPushed, NextIsolated DEF RoomInv
<1> QED
    BY <1>1, <1>2, HubInvariant, PTL DEF Spec

(* PENTEST.md 2.1, for any number of rooms: no client gets, live or from the  *)
(* buffer it joins with, a frame that was not pushed into its own room.       *)
THEOREM RoomsAreIsolated == Spec => []RoomIsolation
<1>1. RoomInv => RoomIsolation
    BY DEF RoomInv
<1> QED
    BY <1>1, RoomInvariant, PTL

-----------------------------------------------------------------------------
(* The replay against the channel.                                            *)

LEMMA NextIdleIsEmpty ==
    ASSUME RelayHubAssumption, TypeOK, RecipientsPinned, IdleIsEmpty, [Next]_vars
    PROVE  IdleIsEmpty'
<1> USE DEF TypeOK, IdleIsEmpty, Registered
<1>1. ASSUME NEW c \in Conns, Register(c) PROVE IdleIsEmpty'
    <2>1. /\ clients' = [clients EXCEPT ![DeviceOf[c]] = c]
          /\ pc' = [pc EXCEPT ![c] = "replay"]
          /\ UNCHANGED <<send, taken, dropped>>
        BY <1>1 DEF Register, channel
    <2> QED
        BY <2>1 DEF RelayHubAssumption
<1>2. ASSUME NEW c \in Conns, Unregister(c) PROVE IdleIsEmpty'
    <2>1. /\ clients' = clients \/ clients' = [clients EXCEPT ![DeviceOf[c]] = NoConn]
          /\ pc' = [pc EXCEPT ![c] = "gone"]
          /\ UNCHANGED <<send, taken, dropped>>
        BY <1>2 DEF Unregister, aux
    <2> QED
        BY SMTT(30), <2>1 DEF RelayHubAssumption
<1>3. ASSUME NEW c \in Conns, NEW x \in Conns,
             \/ DeliverOne(c, x)
             \/ ReplayOne(c) /\ x = c
      PROVE  IdleIsEmpty'
    <2>1. UNCHANGED <<clients, pc, taken>> /\ \E e : TrySend(x, e)
        BY SMTT(30), <1>3 DEF DeliverOne, ReplayOne, hub
    <2>2. pc[x] # "idle"
        BY <1>3 DEF DeliverOne, ReplayOne, RecipientsPinned
    <2>3. \A y \in Conns \ {x} : send'[y] = send[y] /\ dropped'[y] = dropped[y]
        <3>1. PICK e : TrySend(x, e)
            BY <2>1
        <3>2. CASE Len(send[x]) < SendCap
            BY <3>1, <3>2 DEF TrySend
        <3>3. CASE ~(Len(send[x]) < SendCap)
            BY <3>1, <3>3 DEF TrySend
        <3> QED
            BY <3>2, <3>3
    <2> QED
        BY <2>1, <2>2, <2>3
<1>4. ASSUME NEW c \in Conns, WriteFrame(c) \/ WriteFails(c) PROVE IdleIsEmpty'
    <2>1. /\ send[c] # <<>> /\ UNCHANGED <<clients, pc, dropped>>
          /\ taken' = [taken EXCEPT ![c] = Append(@, Head(send[c]))]
          /\ send' = [send EXCEPT ![c] = Tail(@)]
        BY <1>4 DEF WriteFrame, WriteFails, hub, handler
    <2> QED
        BY <2>1
<1>5. ASSUME NEW c \in Conns,
             \/ Serve(c) \/ Read(c) \/ BufferFrame(c) \/ StartDeliver(c) \/ EndDeliver(c)
             \/ ReadFails(c) \/ ConnLost(c) \/ WriterStops(c)
      PROVE  IdleIsEmpty'
    <2>1. UNCHANGED <<clients, send, taken, dropped>>
        BY <1>5 DEF Serve, Read, BufferFrame, StartDeliver, EndDeliver, ReadFails, ConnLost,
           WriterStops, hub, channel, aux
    <2>2. \A x \in Conns : pc'[x] = "idle" => pc[x] = "idle"
        BY SMTT(60), <1>5 DEF Serve, Read, BufferFrame, StartDeliver, EndDeliver,
           ReadFails, ConnLost, WriterStops, handler
    <2> QED
        BY <2>1, <2>2
<1>6. CASE UNCHANGED vars
    BY <1>6 DEF vars, hub, handler, channel, aux
<1> QED
    BY <1>1, <1>2, <1>3, <1>4, <1>5, <1>6 DEF Next, Proceed, Idle

(* The effect of one send on its client's stream, and of all other steps.     *)
LEMMA StreamTypes ==
    ASSUME TypeOK PROVE \A c \in Conns : Stream(c) \in Seq(Entry) /\ Len(Stream(c)) \in Nat
BY DEF TypeOK, Stream

LEMMA NextReplayFits ==
    ASSUME RelayHubAssumption, TypeOK, SendersCounted, IdleIsEmpty, ReplayFits, [Next]_vars
    PROVE  ReplayFits'
<1> DEFINE Window(x) == joined[x].window
<1> USE DEF ReplayFits
<1>0. \A x \in Conns : Window(x) \in Seq(Frame) /\ Len(Window(x)) \in Nat
    BY DEF TypeOK
<1>1. ASSUME NEW c \in Conns, BufferFrame(c) PROVE ReplayFits'
    <2> DEFINE r == RoomOf[c]
               s == Append(buffer[r], Current(c))
    <2>1. r \in Rooms /\ buffer \in [Rooms -> Seq(Frame)] /\ s \in Seq(Frame)
        BY <1>1, PushFields DEF TypeOK
    <2>2. PICK k \in 0..Len(s) :
              /\ Len(s) - k <= MaxFrames
              /\ buffer' = [buffer EXCEPT ![r] = SubSeq(s, k + 1, Len(s))]
        BY <1>1, PushFields
    <2>3. Len(SubSeq(s, k + 1, Len(s))) = Len(s) - k
        BY <2>1, SuffixFields
    <2> HIDE DEF s
    <2>4. \A q \in Rooms : Limited(buffer'[q])
        <3>1. Limited(buffer'[r])
            BY <2>1, <2>2, <2>3 DEF Limited
        <3>2. \A q \in Rooms \ {r} : buffer'[q] = buffer[q]
            BY <2>1, <2>2
        <3> QED
            BY <3>1, <3>2
    <2>5. \A x \in Conns : pc'[x] = "replay" => pc[x] = "replay"
        BY <1>1 DEF BufferFrame, TypeOK
    <2>6. replay' = replay /\ joined' = joined /\ \A x \in Conns : Stream(x)' = Stream(x)
        BY <1>1, GotKept DEF BufferFrame
    <2> QED
        BY <2>4, <2>5, <2>6 DEF AllReplayed
<1>2. ASSUME NEW c \in Conns, Register(c) PROVE ReplayFits'
    <2>1. /\ replay' = [replay EXCEPT ![c] = buffer[RoomOf[c]]] /\ buffer' = buffer
          /\ joined' = [joined EXCEPT ![c] =
                 [before |-> Len(pushed[RoomOf[c]]), window |-> buffer[RoomOf[c]]]]
          /\ pc' = [pc EXCEPT ![c] = "replay"]
          /\ \A x \in Conns : Stream(x)' = Stream(x)
        BY <1>2, GotKept DEF Register
    <2>2. RoomOf[c] \in Rooms /\ buffer[RoomOf[c]] \in Seq(Frame)
        BY DEF RelayHubAssumption, TypeOK
    <2>3. Stream(c) = <<>>
        BY <1>2 DEF Register, IdleIsEmpty, Stream
    <2>4. joined'[c].window = buffer[RoomOf[c]] /\ replay'[c] = buffer[RoomOf[c]]
        BY <2>1 DEF TypeOK
    <2>5. /\ Limited(joined'[c].window)
          /\ Len(Stream(c)') + Len(replay'[c]) <= Len(joined'[c].window)
        BY <2>1, <2>2, <2>3, <2>4
    <2>6. \A x \in Conns \ {c} : /\ replay'[x] = replay[x] /\ pc'[x] = pc[x]
                                 /\ joined'[x] = joined[x]
        BY <2>1 DEF TypeOK
    <2> QED
        BY <2>1, <2>5, <2>6 DEF AllReplayed
<1>3. ASSUME NEW c \in Conns, ReplayOne(c) PROVE ReplayFits'
    <2> DEFINE e == [frame |-> Head(replay[c]), via |-> "replay"]
    <2>1. /\ pc[c] = "replay" /\ replay[c] # <<>> /\ replay[c] \in Seq(Frame)
          /\ replay' = [replay EXCEPT ![c] = Tail(@)]
          /\ TrySend(c, e) /\ UNCHANGED <<buffer, pc, taken, joined>>
        BY <1>3 DEF ReplayOne, TypeOK, hub
    <2>2. e \in Entry
        BY <2>1 DEF Entry
    <2> HIDE DEF e
    <2>3. /\ Stream(c)' = Append(Stream(c), e) \/ Stream(c)' = Stream(c)
          /\ \A x \in Conns \ {c} : Stream(x)' = Stream(x)
        BY <2>1, <2>2, TrySendEffect
    <2>4. Len(Stream(c)') <= Len(Stream(c)) + 1 /\ Len(Stream(c)') \in Nat
        BY <2>2, <2>3, StreamTypes
    <2>5. Len(replay'[c]) = Len(replay[c]) - 1 /\ Len(replay[c]) \in Nat
        BY <2>1 DEF TypeOK
    <2>6. AllReplayed(c)' => AllReplayed(c)
        <3>1. ToSet(Append(Stream(c), e)) = ToSet(Stream(c)) \union {e}
            BY <2>2, StreamTypes, ToSetAppend
        <3> QED
            BY <2>3, <3>1 DEF AllReplayed
    <2>7. AllReplayed(c)' => Len(Stream(c)') + Len(replay'[c]) <= Len(Window(c))
        <3>1. ASSUME AllReplayed(c) PROVE Len(Stream(c)) + Len(replay[c]) <= Len(Window(c))
            BY <2>1, <3>1
        <3> HIDE DEF Window
        <3> QED
            BY <1>0, <2>4, <2>5, <2>6, <3>1, StreamTypes
    <2>8. \A x \in Conns \ {c} : replay'[x] = replay[x] /\ (AllReplayed(x)' => AllReplayed(x))
        BY <2>1, <2>3 DEF TypeOK, AllReplayed
    <2> QED
        BY <2>1, <2>3, <2>7, <2>8
<1>4. ASSUME NEW c \in Conns, NEW x \in Conns, DeliverOne(c, x) PROVE ReplayFits'
    <2> DEFINE e == [frame |-> Current(c), via |-> "live"]
    <2>1. TrySend(x, e) /\ UNCHANGED <<buffer, pc, replay, taken, joined>>
        BY <1>4 DEF DeliverOne, hub
    <2>2. e \in Entry /\ e.via = "live"
        BY <1>4, CurrentType DEF DeliverOne, Entry
    <2> HIDE DEF e
    <2>3. /\ Stream(x)' = Append(Stream(x), e) \/ Stream(x)' = Stream(x)
          /\ \A y \in Conns \ {x} : Stream(y)' = Stream(y)
        BY <2>1, <2>2, TrySendEffect
    <2>4. ToSet(Append(Stream(x), e)) = ToSet(Stream(x)) \union {e}
        BY <2>2, StreamTypes, ToSetAppend
    <2>5. ASSUME NEW y \in Conns, AllReplayed(y)'
          PROVE  Stream(y)' = Stream(y) /\ AllReplayed(y)
        <3>1. ~(y = x /\ Stream(x)' = Append(Stream(x), e))
            BY <2>2, <2>4, <2>5 DEF AllReplayed
        <3>2. Stream(y)' = Stream(y)
            BY <2>3, <3>1
        <3> QED
            BY <2>5, <3>2 DEF AllReplayed
    <2>6. ASSUME NEW y \in Conns, pc'[y] = "replay", AllReplayed(y)'
          PROVE  Len(Stream(y)') + Len(replay'[y]) <= Len(Window(y))
        <3>1. Len(Stream(y)) + Len(replay[y]) <= Len(Window(y))
            BY <2>1, <2>5, <2>6
        <3> QED
            BY <2>1, <2>5, <2>6, <3>1
    <2> QED
        BY <2>1, <2>6
<1>5. CASE \/ UNCHANGED vars
           \/ \E c \in Conns :
                 \/ Serve(c) \/ Read(c) \/ StartDeliver(c) \/ EndDeliver(c) \/ ConnLost(c)
                 \/ ReadFails(c) \/ Unregister(c) \/ WriteFrame(c) \/ WriteFails(c)
                 \/ WriterStops(c)
    <2>1. \A y \in Conns : Stream(y)' = Stream(y)
        BY <1>5, GotKept DEF vars, channel, aux, Stream
    <2>2. UNCHANGED <<buffer, replay, joined>>
        BY <1>5 DEF vars, hub, handler, aux, Serve, Read, StartDeliver, EndDeliver, ConnLost,
           ReadFails, Unregister, WriteFrame, WriteFails, WriterStops
    <2>3. \A y \in Conns : pc'[y] = "replay" => pc[y] = "replay"
        BY SMTT(30), <1>5 DEF vars, handler, Serve, Read, StartDeliver, EndDeliver, ConnLost,
           ReadFails, Unregister, WriteFrame, WriteFails, WriterStops, TypeOK
    <2> QED
        BY <2>1, <2>2, <2>3 DEF AllReplayed
<1> QED
    BY <1>1, <1>2, <1>3, <1>4, <1>5 DEF Next, Proceed, Idle

(* With a channel no smaller than the buffer, as in the code (128 and 64), a  *)
(* replay without a live frame in its way has a place for every frame, unless *)
(* the buffer is longer than that, which only a reloaded one can be.          *)
LEMMA NextCatchUpFits ==
    ASSUME RelayHubAssumption, MaxFrames <= SendCap,
           TypeOK, SendersCounted, IdleIsEmpty, ReplayFits, CatchUpFits, [Next]_vars
    PROVE  CatchUpFits'
<1> USE DEF CatchUpFits
<1>1. ASSUME NEW c \in Conns, ReplayOne(c) PROVE CatchUpFits'
    <2> DEFINE e == [frame |-> Head(replay[c]), via |-> "replay"]
    <2>1. /\ pc[c] = "replay" /\ replay[c] # <<>> /\ replay[c] \in Seq(Frame)
          /\ TrySend(c, e) /\ taken' = taken /\ joined' = joined
        BY <1>1 DEF ReplayOne, TypeOK
    <2>2. e \in Entry
        BY <2>1 DEF Entry
    <2> HIDE DEF e
    <2>3. ToSet(Append(Stream(c), e)) = ToSet(Stream(c)) \union {e}
        BY <2>2, StreamTypes, ToSetAppend
    <2>4. /\ \/ Stream(c)' = Append(Stream(c), e) /\ dropped'[c] = dropped[c]
             \/ Stream(c)' = Stream(c) /\ dropped'[c] = dropped[c] \union {e}
          /\ \A x \in Conns \ {c} : Stream(x)' = Stream(x) /\ dropped'[x] = dropped[x]
        BY <2>1, <2>2, TrySendEffect
    <2>5. CASE Len(send[c]) < SendCap
        <3>1. dropped' = dropped
            BY <2>1, <2>5 DEF TrySend
        <3> QED
            BY <2>1, <2>3, <2>4, <3>1
    <2>6. CASE ~(Len(send[c]) < SendCap)
        <3> DEFINE w == joined[c].window
        <3>0. Len(w) \in Nat /\ Limited(w)
            BY DEF TypeOK, ReplayFits
        <3>1. Len(Stream(c)) >= Len(send[c]) /\ Len(Stream(c)) \in Nat /\ Len(send[c]) \in Nat
            BY DEF TypeOK, Stream
        <3>2. Len(replay[c]) \in Nat \ {0}
            BY <2>1
        <3>3. CASE AllReplayed(c)
            <4>1. Len(Stream(c)) + Len(replay[c]) <= Len(w)
                BY <2>1, <3>3 DEF ReplayFits
            <4> HIDE DEF w
            <4>2. Len(w) > SendCap /\ Len(w) > MaxFrames
                BY <2>6, <3>0, <3>1, <3>2, <4>1 DEF RelayHubAssumption
            <4>3. AllRestored(w)
                BY <3>0, <4>2 DEF Limited, RelayHubAssumption
            <4>4. joined' = joined
                BY <1>1 DEF ReplayOne
            <4>5. w = joined[c].window
                BY DEF w
            <4> QED
                BY <2>4, <4>2, <4>3, <4>4, <4>5
        <3>4. ASSUME ~AllReplayed(c) PROVE \E g \in ToSet(Stream(c)) : g.via = "live"
            <4>1. PICK g \in ToSet(Stream(c)) : g.via # "replay"
                BY <3>4 DEF AllReplayed
            <4>2. g \in Entry
                BY StreamTypes DEF ToSet
            <4> QED
                BY <4>1, <4>2 DEF Entry
        <3>5. Stream(c)' = Stream(c)
            <4>1. send' = send
                BY <2>1, <2>6 DEF TrySend
            <4> QED
                BY <2>1, <4>1 DEF Stream
        <3> QED
            BY <2>1, <2>4, <3>3, <3>4, <3>5
    <2> QED
        BY <2>5, <2>6
<1>2. ASSUME NEW c \in Conns, NEW x \in Conns, DeliverOne(c, x) PROVE CatchUpFits'
    <2> DEFINE e == [frame |-> Current(c), via |-> "live"]
    <2>1. TrySend(x, e) /\ taken' = taken /\ joined' = joined
        BY <1>2 DEF DeliverOne
    <2>2. e \in Entry /\ e.via # "replay"
        BY <1>2, CurrentType DEF DeliverOne, Entry
    <2> HIDE DEF e
    <2>3. ToSet(Append(Stream(x), e)) = ToSet(Stream(x)) \union {e}
        BY <2>2, StreamTypes, ToSetAppend
    <2>4. /\ \/ Stream(x)' = Append(Stream(x), e) /\ dropped'[x] = dropped[x]
             \/ Stream(x)' = Stream(x) /\ dropped'[x] = dropped[x] \union {e}
          /\ \A y \in Conns \ {x} : Stream(y)' = Stream(y) /\ dropped'[y] = dropped[y]
        BY <2>1, <2>2, TrySendEffect
    <2>5. ASSUME NEW y \in Conns
          PROVE  /\ ToSet(Stream(y)) \subseteq ToSet(Stream(y))'
                 /\ \A g \in dropped'[y] : g.via = "replay" => g \in dropped[y]
        <3>1. CASE y = x
            BY <2>2, <2>3, <2>4, <3>1
        <3>2. CASE y # x
            BY <2>4, <3>2
        <3> QED
            BY <3>1, <3>2
    <2> QED
        BY <2>1, <2>5
<1>4. ASSUME NEW c \in Conns, Register(c) PROVE CatchUpFits'
    <2>1. \A x \in Conns : Stream(x)' = Stream(x) /\ dropped'[x] = dropped[x]
        BY <1>4, GotKept
    <2>2. \A x \in Conns \ {c} : joined'[x] = joined[x]
        BY <1>4 DEF Register, TypeOK
    <2>3. dropped[c] = {}
        BY <1>4 DEF Register, IdleIsEmpty
    <2> QED
        BY <2>1, <2>2, <2>3
<1>3. CASE \/ UNCHANGED vars
           \/ \E c \in Conns :
                 \/ Serve(c) \/ Read(c) \/ BufferFrame(c) \/ StartDeliver(c)
                 \/ EndDeliver(c) \/ ConnLost(c) \/ ReadFails(c) \/ Unregister(c)
                 \/ WriteFrame(c) \/ WriteFails(c) \/ WriterStops(c)
    <2>1. \A y \in Conns : Stream(y)' = Stream(y) /\ dropped'[y] = dropped[y]
        BY <1>3, GotKept DEF vars, channel, aux, Stream
    <2>2. joined' = joined
        BY <1>3 DEF vars, aux, Serve, Read, BufferFrame, StartDeliver, EndDeliver, ConnLost,
           ReadFails, Unregister, WriteFrame, WriteFails, WriterStops
    <2> QED
        BY <2>1, <2>2
<1> QED
    BY <1>1, <1>2, <1>3, <1>4 DEF Next, Proceed, Idle

-----------------------------------------------------------------------------
(* Order.                                                                     *)

LEMMA SuffixInOrder ==
    ASSUME NEW s \in Seq(Frame), NEW k \in 0..Len(s), InSendOrder(s)
    PROVE  InSendOrder(SubSeq(s, k + 1, Len(s)))
<1> DEFINE t == SubSeq(s, k + 1, Len(s))
<1>1. Len(t) = Len(s) - k /\ \A i \in 1..(Len(s) - k) : t[i] = s[i + k] /\ i + k \in 1..Len(s)
    BY SuffixFields
<1>2. Len(s) \in Nat
    OBVIOUS
<1> HIDE DEF t
<1>3. ASSUME NEW i \in 1..Len(t), NEW j \in 1..Len(t), i < j, t[i].from = t[j].from
      PROVE  t[i].n < t[j].n
    <2>1. t[i] = s[i + k] /\ t[j] = s[j + k] /\ i + k \in 1..Len(s) /\ j + k \in 1..Len(s)
        BY <1>1
    <2>2. i + k < j + k
        BY <1>2, <1>3
    <2> QED
        BY <1>3, <2>1, <2>2 DEF InSendOrder
<1>4. InSendOrder(t)
    BY <1>3 DEF InSendOrder
<1> QED
    BY <1>4 DEF t

LEMMA AppendInOrder ==
    ASSUME NEW s \in Seq(Frame), NEW f \in Frame, InSendOrder(s),
           \A g \in ToSet(s) : g.from = f.from => g.n < f.n
    PROVE  InSendOrder(Append(s, f))
<1> DEFINE t == Append(s, f)
<1>1. Len(t) = Len(s) + 1 /\ t[Len(s) + 1] = f /\ Len(s) \in Nat
    OBVIOUS
<1>2. \A i \in 1..Len(s) : t[i] = s[i] /\ s[i] \in ToSet(s)
    BY DEF ToSet
<1> HIDE DEF t
<1>3. ASSUME NEW i \in 1..Len(t), NEW j \in 1..Len(t), i < j, t[i].from = t[j].from
      PROVE  t[i].n < t[j].n
    <2>1. i \in 1..Len(s)
        BY <1>1, <1>3
    <2>2. CASE j \in 1..Len(s)
        BY <1>2, <1>3, <2>1, <2>2 DEF InSendOrder
    <2>3. CASE j = Len(s) + 1
        BY <1>1, <1>2, <1>3, <2>1, <2>3
    <2> QED
        BY <1>1, <2>2, <2>3
<1> QED
    BY <1>3 DEF InSendOrder, t

LEMMA TailInOrder ==
    ASSUME NEW s \in Seq(Frame), s # <<>>, InSendOrder(s)
    PROVE  /\ InSendOrder(Tail(s))
           /\ \A g \in ToSet(Tail(s)) : g.from = Head(s).from => Head(s).n < g.n
<1> DEFINE t == Tail(s)
<1>1. Len(t) = Len(s) - 1 /\ Len(s) \in Nat \ {0} /\ Head(s) = s[1]
    OBVIOUS
<1>2. \A i \in 1..Len(t) : t[i] = s[i + 1] /\ i + 1 \in 1..Len(s)
    BY <1>1
<1>3. t \in Seq(Frame)
    OBVIOUS
<1>4. DOMAIN t = 1..Len(t)
    BY <1>3
<1> HIDE DEF t
<1>5. ASSUME NEW i \in 1..Len(t), NEW j \in 1..Len(t), i < j, t[i].from = t[j].from
      PROVE  t[i].n < t[j].n
    <2>1. i + 1 < j + 1
        BY <1>1, <1>5
    <2> QED
        BY <1>2, <1>5, <2>1 DEF InSendOrder
<1>6. ASSUME NEW g \in ToSet(t), g.from = Head(s).from PROVE Head(s).n < g.n
    <2>1. PICK i \in 1..Len(t) : g = t[i]
        BY <1>4 DEF ToSet
    <2>2. g = s[i + 1] /\ i + 1 \in 1..Len(s) /\ 1 < i + 1 /\ 1 \in 1..Len(s)
        BY <1>1, <1>2, <2>1
    <2> QED
        BY <1>1, <1>6, <2>2 DEF InSendOrder
<1> QED
    BY <1>5, <1>6 DEF InSendOrder, t

LEMMA NextBufferInOrder ==
    ASSUME RelayHubAssumption, TypeOK, SendersCounted, BufferInOrder, [Next]_vars
    PROVE  BufferInOrder'
<1>0. \A q \in Rooms : \A g \in ToSet(buffer[q]) :
          g \in Frame /\ (g.from \in Conns => OlderThan(g.from, g.n))
    <2>1. \A q \in Rooms : buffer[q] \in Seq(Frame)
        BY DEF TypeOK
    <2> QED
        BY <2>1, ToSetType DEF BufferInOrder
<1>1. ASSUME NEW c \in Conns, BufferFrame(c) PROVE BufferInOrder'
    <2> DEFINE r == RoomOf[c]
               f == Current(c)
               s == Append(buffer[r], f)
    <2>1. /\ r \in Rooms /\ f \in Frame /\ s \in Seq(Frame) /\ pc[c] = "buffer"
          /\ pc' = [pc EXCEPT ![c] = "fanout"] /\ sent' = sent
        BY <1>1, PushFields
    <2>2. f.from = c /\ f.n = sent[c]
        BY DEF Current
    <2>3. PICK k \in 0..Len(s) :
              buffer' = [buffer EXCEPT ![r] = SubSeq(s, k + 1, Len(s))]
        BY <1>1, PushFields
    <2> HIDE DEF f
    <2>4. buffer \in [Rooms -> Seq(Frame)] /\ sent[c] \in Nat
        BY DEF TypeOK
    <2>5. ToSet(s) = ToSet(buffer[r]) \union {f}
        BY <2>1, <2>4, ToSetAppend
    <2>6. InSendOrder(s)
        <3>1. \A g \in ToSet(buffer[r]) : g.from = f.from => g.n < f.n
            BY <1>0, <2>1, <2>2 DEF OlderThan
        <3> QED
            BY <2>1, <2>4, <3>1, AppendInOrder DEF BufferInOrder
    <2>7. /\ InSendOrder(SubSeq(s, k + 1, Len(s)))
          /\ ToSet(SubSeq(s, k + 1, Len(s))) \subseteq ToSet(s)
        BY <2>1, <2>6, SuffixInOrder, SuffixElements
    <2> HIDE DEF s
    <2>8. \A x \in Conns, n \in Nat : OlderThan(x, n) => OlderThan(x, n)'
        BY <2>1 DEF OlderThan, TypeOK
    <2>9. \A n \in Nat : n = f.n => OlderThan(c, n)'
        BY <2>1, <2>2, <2>4 DEF OlderThan, TypeOK
    <2>10. \A q \in Rooms : buffer'[q] = IF q = r THEN SubSeq(s, k + 1, Len(s)) ELSE buffer[q]
        BY <2>1, <2>3, <2>4
    <2>11. \A q \in Rooms : InSendOrder(buffer'[q])
        BY <2>7, <2>10 DEF BufferInOrder
    <2>12. \A q \in Rooms : \A g \in ToSet(buffer'[q]) : g \in ToSet(buffer[q]) \/ g = f
        BY <2>5, <2>7, <2>10
    <2>13. ASSUME NEW q \in Rooms, NEW g \in ToSet(buffer'[q]), g.from \in Conns
           PROVE  OlderThan(g.from, g.n)'
        <3>1. CASE g = f
            BY <2>2, <2>4, <2>9, <3>1
        <3>2. CASE g \in ToSet(buffer[q])
            <4>1. OlderThan(g.from, g.n) /\ g.n \in Nat
                BY <1>0, <2>13, <3>2 DEF Frame
            <4> QED
                BY <2>8, <2>13, <4>1
        <3> QED
            BY <2>12, <3>1, <3>2
    <2> QED
        BY <2>11, <2>13 DEF BufferInOrder
<1>2. ASSUME buffer' = buffer,
             \A x \in Conns, n \in Nat : OlderThan(x, n) => OlderThan(x, n)'
      PROVE  BufferInOrder'
    <2>1. \A q \in Rooms : \A g \in ToSet(buffer[q]) :
              g.from \in Conns => OlderThan(g.from, g.n)'
        BY <1>0, <1>2 DEF Frame
    <2> QED
        BY <1>2, <2>1 DEF BufferInOrder
<1>3. ASSUME NEW c \in Conns, Read(c) PROVE BufferInOrder'
    <2>1. /\ buffer' = buffer /\ sent' = [sent EXCEPT ![c] = @ + 1]
          /\ pc' = [pc EXCEPT ![c] = "buffer"]
        BY <1>3 DEF Read, hub
    <2>2. \A x \in Conns, n \in Nat : OlderThan(x, n) => OlderThan(x, n)'
        BY <2>1 DEF OlderThan, TypeOK
    <2> QED
        BY <1>2, <2>1, <2>2
<1>4. ASSUME NEW c \in Conns,
             \/ Register(c) \/ ReplayOne(c) \/ Serve(c) \/ StartDeliver(c)
             \/ (\E x \in Conns : DeliverOne(c, x)) \/ EndDeliver(c) \/ ReadFails(c)
             \/ Unregister(c) \/ ConnLost(c) \/ WriteFrame(c) \/ WriteFails(c)
             \/ WriterStops(c)
      PROVE  BufferInOrder'
    <2>1. buffer' = buffer /\ sent' = sent
        BY <1>4 DEF Register, ReplayOne, Serve, StartDeliver, DeliverOne,
           EndDeliver, ReadFails, Unregister, ConnLost, WriteFrame, WriteFails,
           WriterStops, hub, handler
    <2>2. \A x \in Conns : pc'[x] = "buffer" => pc[x] = "buffer"
        BY <1>4 DEF Register, ReplayOne, Serve, StartDeliver, DeliverOne,
           EndDeliver, ReadFails, Unregister, ConnLost, WriteFrame, WriteFails,
           WriterStops, handler, TypeOK
    <2> QED
        BY <1>2, <2>1, <2>2 DEF OlderThan
<1>5. CASE UNCHANGED vars
    BY <1>2, <1>5 DEF vars, hub, handler, OlderThan
<1> QED
    BY <1>1, <1>3, <1>4, <1>5 DEF Next, Proceed, Idle

LEMMA NextReplayInOrder ==
    ASSUME RelayHubAssumption, TypeOK, SendersCounted, IdleIsEmpty, BufferInOrder,
           ReplayInOrder, [Next]_vars
    PROVE  ReplayInOrder'
<1> USE DEF ReplayInOrder
<1>1. ASSUME NEW c \in Conns, Register(c) PROVE ReplayInOrder'
    <2>1. /\ replay' = [replay EXCEPT ![c] = buffer[RoomOf[c]]]
          /\ \A x \in Conns : Stream(x)' = Stream(x)
        BY <1>1, GotKept DEF Register
    <2>2. RoomOf[c] \in Rooms /\ InSendOrder(buffer[RoomOf[c]])
        BY DEF RelayHubAssumption, BufferInOrder
    <2>3. Stream(c) = <<>>
        BY <1>1 DEF Register, IdleIsEmpty, Stream
    <2>4. ToSet(Stream(c)) = {}
        BY <2>3 DEF ToSet
    <2>5. replay'[c] = buffer[RoomOf[c]] /\ \A x \in Conns \ {c} : replay'[x] = replay[x]
        BY <2>1 DEF TypeOK
    <2> QED
        BY <2>1, <2>2, <2>4, <2>5
<1>2. ASSUME NEW c \in Conns, ReplayOne(c) PROVE ReplayInOrder'
    <2> DEFINE h == Head(replay[c])
               e == [frame |-> h, via |-> "replay"]
    <2>1. /\ replay[c] # <<>> /\ replay[c] \in Seq(Frame)
          /\ replay' = [replay EXCEPT ![c] = Tail(@)]
          /\ TrySend(c, e) /\ taken' = taken
        BY <1>2 DEF ReplayOne, TypeOK
    <2>2. /\ InSendOrder(Tail(replay[c]))
          /\ \A g \in ToSet(Tail(replay[c])) : g.from = h.from => h.n < g.n
          /\ ToSet(Tail(replay[c])) \subseteq ToSet(replay[c])
        BY <2>1, TailInOrder, HeadAndTail
    <2>3. e \in Entry /\ e.frame = h
        BY <2>1 DEF Entry
    <2> HIDE DEF h, e
    <2>4. \A x \in Conns : \A g \in ToSet(Stream(x))' :
              g \in ToSet(Stream(x)) \/ (x = c /\ g = e)
        BY <2>1, <2>3, GotAfterSend
    <2>5. replay'[c] = Tail(replay[c]) /\ \A x \in Conns \ {c} : replay'[x] = replay[x]
        BY <2>1 DEF TypeOK
    <2>6. ASSUME NEW x \in Conns
          PROVE  InSendOrder(replay'[x]) /\ ToSet(replay'[x]) \subseteq ToSet(replay[x])
        BY <2>2, <2>5
    <2>7. ASSUME NEW x \in Conns, NEW g \in ToSet(Stream(x))', NEW f \in ToSet(replay'[x]),
                 g.via = "replay", g.frame.from = f.from
          PROVE  g.frame.n < f.n
        <3>1. CASE g \in ToSet(Stream(x))
            BY <2>6, <2>7, <3>1
        <3>2. CASE x = c /\ g = e
            BY <2>2, <2>3, <2>5, <2>7, <3>2
        <3> QED
            BY <2>4, <2>7, <3>1, <3>2
    <2> QED
        BY <2>6, <2>7
<1>3. ASSUME NEW c \in Conns, NEW x \in Conns, DeliverOne(c, x) PROVE ReplayInOrder'
    <2> DEFINE e == [frame |-> Current(c), via |-> "live"]
    <2>1. TrySend(x, e) /\ taken' = taken /\ replay' = replay
        BY <1>3 DEF DeliverOne
    <2>2. e \in Entry /\ e.via # "replay"
        BY <1>3, CurrentType DEF DeliverOne, Entry
    <2> HIDE DEF e
    <2>3. \A y \in Conns : \A g \in ToSet(Stream(y))' : g \in ToSet(Stream(y)) \/ g = e
        BY <2>1, <2>2, GotAfterSend
    <2> QED
        BY <2>1, <2>2, <2>3
<1>4. CASE \/ UNCHANGED vars
           \/ \E c \in Conns :
                 \/ Serve(c) \/ Read(c) \/ BufferFrame(c) \/ StartDeliver(c) \/ EndDeliver(c)
                 \/ ConnLost(c) \/ ReadFails(c) \/ Unregister(c) \/ WriteFrame(c)
                 \/ WriteFails(c) \/ WriterStops(c)
    <2>1. \A y \in Conns : Stream(y)' = Stream(y)
        BY <1>4, GotKept DEF vars, channel, aux, Stream
    <2>2. replay' = replay
        BY <1>4 DEF vars, handler, Serve, Read, BufferFrame, StartDeliver, EndDeliver, ConnLost,
           ReadFails, Unregister, WriteFrame, WriteFails, WriterStops
    <2> QED
        BY <2>1, <2>2
<1> QED
    BY <1>1, <1>2, <1>3, <1>4 DEF Next, Proceed, Idle

(* A sender reads its next frame when the last is delivered to everybody.     *)
LEMMA NextLiveBehind ==
    ASSUME RelayHubAssumption, TypeOK, SendersCounted, RecipientsPinned, LiveBehind,
           [Next]_vars
    PROVE  LiveBehind'
<1>1. \A y \in Conns : \A g \in ToSet(Stream(y)) : g \in Entry
    BY StreamTypes, ToSetType
<1>2. \A y \in Conns : \A g \in ToSet(Stream(y)) : g.via = "live" =>
          /\ g.frame.from \in Conns
          /\ g.frame.n \in Nat /\ g.frame.n <= sent[g.frame.from]
          /\ pc[g.frame.from] \in {"buffer", "fanout"} \/ y \in todo[g.frame.from]
                => g.frame.n < sent[g.frame.from]
    BY <1>1 DEF LiveBehind, Entry, Frame
<1>3. SUFFICES ASSUME NEW y \in Conns, NEW g \in ToSet(Stream(y))', g.via = "live"
               PROVE  /\ g.frame.from \in Conns
                      /\ g.frame.n <= sent'[g.frame.from]
                      /\ pc'[g.frame.from] \in {"buffer", "fanout"} \/ y \in todo'[g.frame.from]
                            => g.frame.n < sent'[g.frame.from]
    BY DEF LiveBehind
<1> DEFINE s == g.frame.from
           Goal == /\ s \in Conns
                   /\ g.frame.n <= sent'[s]
                   /\ pc'[s] \in {"buffer", "fanout"} \/ y \in todo'[s]
                         => g.frame.n < sent'[s]
<1>4. ASSUME NEW c \in Conns, Read(c) PROVE Goal
    <2>1. /\ pc[c] = "reading" /\ todo' = todo
          /\ sent' = [sent EXCEPT ![c] = @ + 1]
          /\ pc' = [pc EXCEPT ![c] = "buffer"]
        BY <1>4 DEF Read
    <2>2. g \in ToSet(Stream(y))
        BY <1>3, <1>4, GotKept
    <2>3. s \in Conns /\ g.frame.n \in Nat /\ g.frame.n <= sent[s]
        BY <1>2, <1>3, <2>2
    <2>4. CASE s = c
        <3>1. sent[c] \in Nat /\ sent'[s] = sent[c] + 1
            BY <2>1, <2>4 DEF TypeOK
        <3> QED
            BY <2>3, <2>4, <3>1
    <2>5. CASE s # c
        <3>1. sent'[s] = sent[s] /\ pc'[s] = pc[s] /\ todo' = todo
            BY <2>1, <2>3, <2>5 DEF TypeOK
        <3> QED
            BY <1>2, <1>3, <2>2, <2>3, <3>1
    <2> QED
        BY <2>4, <2>5
<1>9. ASSUME NEW c \in Conns, BufferFrame(c) PROVE Goal
    <2>1. /\ pc[c] = "buffer" /\ pc' = [pc EXCEPT ![c] = "fanout"]
          /\ UNCHANGED <<sent, todo>>
        BY <1>9, PushFields
    <2>2. g \in ToSet(Stream(y))
        BY <1>3, <1>9, GotKept
    <2>3. \A x \in Conns : pc'[x] \in {"buffer", "fanout"} => pc[x] \in {"buffer", "fanout"}
        BY <2>1 DEF TypeOK
    <2> QED
        BY <1>2, <1>3, <2>1, <2>2, <2>3
<1>5. ASSUME NEW c \in Conns, StartDeliver(c) PROVE Goal
    <2>1. /\ pc[c] = "fanout" /\ sent' = sent
          /\ \A x \in Conns \ {c} : todo'[x] = todo[x]
          /\ pc' = [pc EXCEPT ![c] = "deliver"]
        BY <1>5 DEF StartDeliver, TypeOK
    <2>2. g \in ToSet(Stream(y))
        BY <1>3, <1>5, GotKept
    <2>3. s \in Conns
        BY <1>2, <1>3, <2>2
    <2>4. pc'[s] \in {"buffer", "fanout"} => pc[s] \in {"buffer", "fanout"}
        BY <2>1, <2>3 DEF TypeOK
    <2> QED
        BY <1>2, <1>3, <2>1, <2>2, <2>3, <2>4
<1>6. ASSUME NEW c \in Conns, NEW x \in Conns, DeliverOne(c, x) PROVE Goal
    <2> DEFINE e == [frame |-> Current(c), via |-> "live"]
    <2>1. /\ pc[c] = "deliver" /\ TrySend(x, e) /\ taken' = taken
          /\ todo' = [todo EXCEPT ![c] = @ \ {x}]
          /\ UNCHANGED <<pc, sent>>
        BY <1>6 DEF DeliverOne
    <2>2. /\ e \in Entry /\ e.frame.from = c /\ e.frame.n = sent[c]
          /\ sent[c] \in Nat
        BY <1>6, CurrentType DEF DeliverOne, Entry, TypeOK
    <2> HIDE DEF e
    <2>3. g \in ToSet(Stream(y)) \/ (y = x /\ g = e)
        BY <1>3, <2>1, <2>2, GotAfterSend
    <2>4. CASE g \in ToSet(Stream(y))
        <3>1. s \in Conns
            BY <1>2, <1>3, <2>4
        <3>2. y \in todo'[s] => y \in todo[s]
            BY <2>1, <3>1 DEF TypeOK
        <3> QED
            BY <1>2, <1>3, <2>1, <2>4, <3>2
    <2>5. CASE y = x /\ g = e
        <3>1. x \notin todo'[c]
            BY <2>1 DEF TypeOK
        <3> QED
            BY <2>1, <2>2, <2>5, <3>1
    <2> QED
        BY <2>3, <2>4, <2>5
<1>7. ASSUME NEW c \in Conns, ReplayOne(c) PROVE Goal
    <2> DEFINE e == [frame |-> Head(replay[c]), via |-> "replay"]
    <2>1. /\ TrySend(c, e) /\ taken' = taken /\ UNCHANGED <<pc, sent, todo>>
        BY <1>7 DEF ReplayOne
    <2>2. e \in Entry /\ e.via # "live"
        <3>1. replay[c] # <<>> /\ replay[c] \in Seq(Frame)
            BY <1>7 DEF ReplayOne, TypeOK
        <3>2. Head(replay[c]) \in Frame
            BY <3>1
        <3> QED
            BY <3>2 DEF Entry
    <2> HIDE DEF e
    <2>3. g \in ToSet(Stream(y))
        BY <1>3, <2>1, <2>2, GotAfterSend
    <2> QED
        BY <1>2, <1>3, <2>1, <2>3
<1>8. CASE \/ UNCHANGED vars
           \/ \E c \in Conns :
                 \/ Register(c) \/ Serve(c) \/ EndDeliver(c) \/ ConnLost(c)
                 \/ ReadFails(c) \/ Unregister(c) \/ WriteFrame(c) \/ WriteFails(c)
                 \/ WriterStops(c)
    <2>1. g \in ToSet(Stream(y))
        BY <1>3, <1>8, GotKept DEF vars, channel, aux, Stream
    <2>2. UNCHANGED <<sent, todo>>
        BY <1>8 DEF vars, handler, Register, Serve, EndDeliver, ConnLost,
           ReadFails, Unregister, WriteFrame, WriteFails, WriterStops
    <2>3. \A x \in Conns : pc'[x] \in {"buffer", "fanout"} => pc[x] \in {"buffer", "fanout"}
        BY ZenonT(60), <1>8 DEF vars, handler, Register, Serve, EndDeliver, ConnLost,
           ReadFails, Unregister, WriteFrame, WriteFails, WriterStops, TypeOK
    <2>4. s \in Conns
        BY <1>2, <1>3, <2>1
    <2> QED
        BY <1>2, <1>3, <2>1, <2>2, <2>3, <2>4
<1> QED
    BY <1>4, <1>5, <1>6, <1>7, <1>8, <1>9 DEF Next, Proceed, Idle

(* Appending an entry newer than those of its sender and way keeps the order. *)
LEMMA StreamGrowsInOrder ==
    ASSUME NEW t \in Seq(Entry), NEW e \in Entry,
           \A i, j \in DOMAIN t : i < j /\ t[i].via = t[j].via /\ t[i].frame.from = t[j].frame.from
                                     => t[i].frame.n < t[j].frame.n,
           \A g \in ToSet(t) : g.via = e.via /\ g.frame.from = e.frame.from
                                     => g.frame.n < e.frame.n,
           NEW u, u = Append(t, e)
    PROVE  \A i, j \in DOMAIN u :
               i < j /\ u[i].via = u[j].via /\ u[i].frame.from = u[j].frame.from
                   => u[i].frame.n < u[j].frame.n
<1>1. Len(u) = Len(t) + 1 /\ u[Len(t) + 1] = e /\ Len(t) \in Nat /\ u \in Seq(Entry)
    OBVIOUS
<1>2. DOMAIN t = 1..Len(t) /\ DOMAIN u = 1..(Len(t) + 1)
    BY <1>1
<1>3. \A i \in 1..Len(t) : u[i] = t[i] /\ t[i] \in ToSet(t)
    BY DEF ToSet
<1>4. SUFFICES ASSUME NEW i \in 1..(Len(t) + 1), NEW j \in 1..(Len(t) + 1), i < j,
                      u[i].via = u[j].via, u[i].frame.from = u[j].frame.from
               PROVE  u[i].frame.n < u[j].frame.n
    BY <1>2
<1>5. i \in 1..Len(t)
    BY <1>1, <1>4
<1>6. CASE j \in 1..Len(t)
    BY <1>2, <1>3, <1>4, <1>5, <1>6
<1>7. CASE j = Len(t) + 1
    BY <1>1, <1>3, <1>4, <1>5, <1>7
<1> QED
    BY <1>1, <1>6, <1>7

LEMMA NextStreamInOrder ==
    ASSUME RelayHubAssumption, TypeOK, SendersCounted, ReplayInOrder, LiveBehind,
           StreamInOrder, [Next]_vars
    PROVE  StreamInOrder'
<1>1. ASSUME NEW x \in Conns, NEW e \in Entry, TrySend(x, e), taken' = taken,
             \A g \in ToSet(Stream(x)) :
                 g.via = e.via /\ g.frame.from = e.frame.from => g.frame.n < e.frame.n
      PROVE  StreamInOrder'
    <2>1. \/ Stream(x)' = Append(Stream(x), e)
          \/ Stream(x)' = Stream(x)
        BY <1>1, TrySendEffect
    <2>2. \A c \in Conns \ {x} : Stream(c)' = Stream(c)
        BY <1>1, TrySendEffect
    <2>3. Stream(x) \in Seq(Entry)
        BY StreamTypes
    <2>4. \A i, j \in DOMAIN Stream(x) :
              LET a == Stream(x)[i] b == Stream(x)[j]
              IN i < j /\ a.via = b.via /\ a.frame.from = b.frame.from
                    => a.frame.n < b.frame.n
        BY DEF StreamInOrder
    <2>5. ASSUME NEW u, u = Append(Stream(x), e)
          PROVE  \A i, j \in DOMAIN u :
                     i < j /\ u[i].via = u[j].via /\ u[i].frame.from = u[j].frame.from
                         => u[i].frame.n < u[j].frame.n
        <3> DEFINE t == Stream(x)
        <3>1. t \in Seq(Entry)
            BY <2>3
        <3>2. \A i, j \in DOMAIN t :
                  i < j /\ t[i].via = t[j].via /\ t[i].frame.from = t[j].frame.from
                      => t[i].frame.n < t[j].frame.n
            BY <2>4
        <3>3. \A g \in ToSet(t) :
                  g.via = e.via /\ g.frame.from = e.frame.from => g.frame.n < e.frame.n
            BY <1>1
        <3>4. u = Append(t, e)
            BY <2>5
        <3> HIDE DEF t
        <3> QED
            BY <1>1, <3>1, <3>2, <3>3, <3>4, StreamGrowsInOrder
    <2>6. CASE Stream(x)' = Stream(x)
        BY <2>2, <2>6 DEF StreamInOrder
    <2>7. CASE Stream(x)' = Append(Stream(x), e)
        BY <2>2, <2>5, <2>7 DEF StreamInOrder
    <2> QED
        BY <2>1, <2>6, <2>7
<1>2. ASSUME NEW c \in Conns, ReplayOne(c) PROVE StreamInOrder'
    <2> DEFINE e == [frame |-> Head(replay[c]), via |-> "replay"]
    <2>1. /\ replay[c] # <<>> /\ replay[c] \in Seq(Frame)
          /\ TrySend(c, e) /\ taken' = taken
        BY <1>2 DEF ReplayOne, TypeOK
    <2>2. Head(replay[c]) \in ToSet(replay[c]) /\ Head(replay[c]) \in Frame
        BY <2>1, HeadAndTail
    <2>3. e \in Entry /\ e.via = "replay" /\ e.frame \in ToSet(replay[c])
        BY <2>2 DEF Entry
    <2> HIDE DEF e
    <2>4. \A g \in ToSet(Stream(c)) :
              g.via = e.via /\ g.frame.from = e.frame.from => g.frame.n < e.frame.n
        BY <2>3 DEF ReplayInOrder
    <2> QED
        BY <1>1, <2>1, <2>3, <2>4
<1>3. ASSUME NEW c \in Conns, NEW x \in Conns, DeliverOne(c, x) PROVE StreamInOrder'
    <2> DEFINE e == [frame |-> Current(c), via |-> "live"]
    <2>1. x \in todo[c] /\ TrySend(x, e) /\ taken' = taken
        BY <1>3 DEF DeliverOne
    <2>2. /\ e \in Entry /\ e.via = "live"
          /\ e.frame.from = c /\ e.frame.n = sent[c]
        BY <1>3, CurrentType DEF DeliverOne, Entry
    <2> HIDE DEF e
    <2>3. \A g \in ToSet(Stream(x)) :
              g.via = e.via /\ g.frame.from = e.frame.from => g.frame.n < e.frame.n
        BY <2>1, <2>2 DEF LiveBehind
    <2> QED
        BY <1>1, <2>1, <2>2, <2>3
<1>4. CASE \/ UNCHANGED vars
           \/ \E c \in Conns :
                 \/ Register(c) \/ Serve(c) \/ Read(c) \/ BufferFrame(c) \/ StartDeliver(c)
                 \/ EndDeliver(c) \/ ConnLost(c) \/ ReadFails(c) \/ Unregister(c)
                 \/ WriteFrame(c) \/ WriteFails(c) \/ WriterStops(c)
    <2>1. \A y \in Conns : Stream(y)' = Stream(y)
        BY <1>4, GotKept DEF vars, channel, aux, Stream
    <2> QED
        BY <2>1 DEF StreamInOrder
<1> QED
    BY <1>2, <1>3, <1>4 DEF Next, Proceed, Idle

LEMMA InitStream == ASSUME RelayHubAssumption, Init PROVE StreamInv
<1>1. \A c \in Conns : /\ send[c] = <<>> /\ taken[c] = <<>> /\ pc[c] = "idle"
                        /\ replay[c] = <<>> /\ Stream(c) = <<>>
    BY DEF Init, Stream
<1>2. \A r \in Rooms : /\ buffer[r] \in Seq(Frame)
                       /\ \A i \in 1..Len(buffer[r]) :
                             buffer[r][i].from = r /\ buffer[r][i].n = i
    BY InitBuffer
<1>3. ToSet(<<>>) = {} /\ Len(<<>>) = 0 /\ DOMAIN <<>> = {}
    BY DEF ToSet
<1>4. InSendOrder(<<>>)
    BY <1>3 DEF InSendOrder
<1>5. IdleIsEmpty
    BY <1>1 DEF Init, IdleIsEmpty, Registered, RelayHubAssumption
<1>9. \A r \in Rooms : \A f \in ToSet(buffer[r]) : f.from = r
    BY <1>2 DEF ToSet
<1>6. ReplayFits
    <2>1. \A r \in Rooms : Limited(buffer[r])
        BY <1>9 DEF Limited, AllRestored
    <2>2. \A c \in Conns : Limited(joined[c].window) /\ pc[c] # "replay"
        BY <1>3 DEF Init, Limited, AllRestored
    <2> QED
        BY <2>1, <2>2 DEF ReplayFits
<1>7. BufferInOrder /\ ReplayInOrder
    <2>1. \A r \in Rooms : InSendOrder(buffer[r])
        BY <1>2 DEF InSendOrder
    <2>2. BufferInOrder
        BY <1>9, <2>1 DEF BufferInOrder, RelayHubAssumption
    <2> QED
        BY <1>1, <1>3, <1>4, <2>2 DEF ReplayInOrder
<1>8. LiveBehind /\ StreamInOrder
    BY <1>1, <1>3 DEF LiveBehind, StreamInOrder
<1> QED
    BY <1>5, <1>6, <1>7, <1>8 DEF StreamInv

(* Buffers, replays and streams keep the order in which each sender sent.     *)
THEOREM StreamInvariant == Spec => []StreamInv
<1>1. Init => StreamInv
    BY RelayHubAssumption, InitStream
<1>2. HubInv /\ StreamInv /\ [Next]_vars => StreamInv'
    <2> SUFFICES ASSUME HubInv, StreamInv, [Next]_vars PROVE StreamInv'
        OBVIOUS
    <2>1. TypeOK /\ SendersCounted /\ RecipientsPinned
        BY DEF HubInv
    <2>2. /\ IdleIsEmpty /\ ReplayFits /\ BufferInOrder
          /\ ReplayInOrder /\ LiveBehind /\ StreamInOrder
        BY DEF StreamInv
    <2> QED
        BY <2>1, <2>2, RelayHubAssumption, NextIdleIsEmpty, NextReplayFits,
           NextBufferInOrder, NextReplayInOrder, NextLiveBehind, NextStreamInOrder
           DEF StreamInv
<1> QED
    BY <1>1, <1>2, HubInvariant, PTL DEF Spec

(* No client sees frames of one sender that came the same way, live or from   *)
(* the buffer, in another order than they were sent, none of them twice.      *)
THEOREM FramesInOrder == Spec => []StreamInOrder
<1>1. StreamInv => StreamInOrder
    BY DEF StreamInv
<1> QED
    BY <1>1, StreamInvariant, PTL

(* ws.go:69-80 with bufferMaxFrames (buffer.go:6): with a channel of at least *)
(* the buffer's size a joining client loses a buffered frame to a full        *)
(* channel only if live frames came between, or if all it joined with is what *)
(* a restart reloaded, and that more than the channel holds.                  *)
THEOREM ReplayHasRoom ==
    ASSUME MaxFrames <= SendCap
    PROVE  Spec => []CatchUpFits
<1>1. Init => CatchUpFits
    BY DEF Init, CatchUpFits
<1>2. HubInv /\ StreamInv /\ CatchUpFits /\ [Next]_vars => CatchUpFits'
    <2> SUFFICES ASSUME HubInv, StreamInv, CatchUpFits, [Next]_vars PROVE CatchUpFits'
        OBVIOUS
    <2>1. TypeOK /\ SendersCounted /\ IdleIsEmpty /\ ReplayFits
        BY DEF HubInv, StreamInv
    <2> QED
        BY <2>1, RelayHubAssumption, NextCatchUpFits
<1> QED
    BY <1>1, <1>2, HubInvariant, StreamInvariant, PTL DEF Spec
=============================================================================
