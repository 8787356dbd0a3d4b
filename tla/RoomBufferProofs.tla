-------------------------- MODULE RoomBufferProofs --------------------------
(* Proofs about RoomBuffer, for any set of rooms and frame sizes, any limits  *)
(* and any number of pushes, database errors and crashes.                     *)
EXTENDS RoomBuffer, SequenceTheorems, FiniteSetTheorems, TLAPS

-----------------------------------------------------------------------------
(* Dropping the first k entries of s leaves the other ones, in order.         *)
LEMMA DropFirstProperties ==
    ASSUME NEW S, NEW s \in Seq(S), NEW k \in 0..Len(s)
    PROVE  /\ DropFirst(s, k) \in Seq(S)
           /\ Len(DropFirst(s, k)) = Len(s) - k
           /\ \A i \in 1..(Len(s) - k) : DropFirst(s, k)[i] = s[k + i] /\ k + i \in 1..Len(s)
<1>1. Len(s) \in Nat /\ \A i \in (k + 1)..Len(s) : s[i] \in S
    OBVIOUS
<1>2. /\ SubSeq(s, k + 1, Len(s)) \in Seq(S)
      /\ Len(SubSeq(s, k + 1, Len(s))) =
            IF k + 1 <= Len(s) THEN Len(s) - (k + 1) + 1 ELSE 0
      /\ \A i \in 1..(Len(s) - (k + 1) + 1) :
            SubSeq(s, k + 1, Len(s))[i] = s[(k + 1) + i - 1]
    BY <1>1, SubSeqProperties
<1> DEFINE d == SubSeq(s, k + 1, Len(s))
<1>3. Len(d) = Len(s) - k
    BY <1>1, <1>2
<1>4. \A i \in 1..(Len(s) - k) : d[i] = s[k + i] /\ k + i \in 1..Len(s)
    BY <1>1, <1>2
<1>5. d \in Seq(S)
    BY <1>2
<1> QED
    BY <1>3, <1>4, <1>5 DEF DropFirst

(* Of a finite set of rows with different ids, at most K have fewer than K    *)
(* rows above them: the newest K.                                             *)
LEMMA NewestAreFew ==
    ASSUME NEW S, IsFiniteSet(S), NEW K \in Nat \ {0},
           \A x \in S : x.id \in Nat,
           \A x, y \in S : x.id = y.id => x = y
    PROVE  LET T == {x \in S : Cardinality({y \in S : y.id > x.id}) < K}
           IN IsFiniteSet(T) /\ Cardinality(T) <= K
<1> DEFINE Above(x) == {y \in S : y.id > x.id}
           T == {x \in S : Cardinality(Above(x)) < K}
           rank == [x \in T |-> Cardinality(Above(x))]
<1>1. \A x \in S : IsFiniteSet(Above(x)) /\ Cardinality(Above(x)) \in Nat
    BY FS_Subset, FS_CardinalityType
<1>2. ASSUME NEW x \in S, NEW y \in S, x.id < y.id
      PROVE  Cardinality(Above(x)) # Cardinality(Above(y))
    <2>1. Above(y) \subseteq Above(x)
        BY <1>2
    <2>2. y \in Above(x) /\ y \notin Above(y)
        BY <1>2
    <2> QED
        BY <1>1, <2>1, <2>2, FS_Subset
<1>3. \A x, y \in T : rank[x] = rank[y] => x = y
    <2>1. \A x, y \in T : x.id < y.id \/ x.id = y.id \/ y.id < x.id
        OBVIOUS
    <2> QED
        BY <1>2, <2>1
<1>4. rank \in [T -> 0..(K - 1)]
    BY <1>1
<1>5. rank \in Injection(T, 0..(K - 1))
    BY <1>3, <1>4 DEF Injection, IsInjective
<1>6. IsFiniteSet(0..(K - 1)) /\ Cardinality(0..(K - 1)) = K
    BY FS_Interval
<1>7. IsFiniteSet(T) /\ Cardinality(T) <= K
    BY <1>5, <1>6, FS_Injection
<1> QED
    BY <1>7

(* What Push does: it appends f to the log and s without its first k frames   *)
(* stays in the buffer.                                                       *)
Appended(r, f, s, k) ==
    /\ f.n = Len(log[r]) + 1
    /\ s = Append(frames[r], f)
    /\ log' = [log EXCEPT ![r] = Append(@, f)]
    /\ frames' = [frames EXCEPT ![r] = DropFirst(s, k)]
    /\ Len(DropFirst(s, k)) <= MaxFrames

LEMMA PushEffect ==
    ASSUME RoomBufferAssumption, TypeOK, NEW r \in Rooms, NEW size \in Sizes, Push(r, size)
    PROVE  \E f \in Frame, s \in Seq(Frame) : \E k \in 0..Len(s) : Appended(r, f, s, k)
<1> USE DEF TypeOK, RoomBufferAssumption
<1> DEFINE f == [n |-> Len(log[r]) + 1, size |-> size]
           s == Append(frames[r], f)
<1>1. f \in Frame /\ f.n = Len(log[r]) + 1
    BY DEF Push, Frame
<1>2. s \in Seq(Frame)
    BY <1>1
<1>3. PICK k \in 0..Len(s) :
         /\ FirstStop(LAMBDA j : PushOver(s, total[r] + size, j), k)
         /\ frames' = [frames EXCEPT ![r] = DropFirst(s, k)]
    BY DEF Push
<1>4. ~PushOver(s, total[r] + size, k)
    BY <1>3 DEF FirstStop
<1>5. Len(s) - k <= MaxFrames
    BY <1>2, <1>4 DEF PushOver
<1>6. Len(DropFirst(s, k)) = Len(s) - k
    BY <1>2, DropFirstProperties
<1>7. log' = [log EXCEPT ![r] = Append(@, f)]
    BY DEF Push
<1>8. Len(DropFirst(s, k)) <= MaxFrames
    BY <1>5, <1>6
<1> HIDE DEF f
<1>9. Appended(r, f, s, k)
    BY <1>1, <1>3, <1>7, <1>8 DEF Appended
<1> HIDE DEF s
<1> QED
    BY <1>1, <1>2, <1>9

(* What LoadRoom does: the buffer becomes w, the frames of the rows p, which  *)
(* are rows of the room in order of id.                                       *)
Loaded(r, w, p) ==
    /\ frames' = [frames EXCEPT ![r] = w]
    /\ Len(w) <= Cardinality(RowsOf(r))
    /\ \A i \in 1..Len(w) : p[i] \in RowsOf(r) /\ w[i] = p[i].frame
    /\ \A i, j \in 1..Len(w) : i < j => p[i].id < p[j].id

LEMMA LoadEffect ==
    ASSUME RoomBufferAssumption, TypeOK, IsFiniteSet(rows), NEW r \in Rooms, LoadRoom(r)
    PROVE  \E w \in Seq(Frame) : \E p : Loaded(r, w, p)
<1> DEFINE R == RowsOf(r)
           N == Cardinality(R)
<1>1. N \in Nat
    BY FS_Subset, FS_CardinalityType DEF RowsOf
<1>2. PICK q \in ById(R), m \in 0..N : \E k \in 0..m :
         frames' = [frames EXCEPT ![r] = DropFirst([i \in 1..m |-> q[i].frame], k)]
    BY DEF LoadRoom
<1>11. PICK k \in 0..m :
         frames' = [frames EXCEPT ![r] = DropFirst([i \in 1..m |-> q[i].frame], k)]
    BY <1>2
<1> DEFINE s == [i \in 1..m |-> q[i].frame]
           w == DropFirst(s, k)
           p == [i \in 1..Len(w) |-> q[k + i]]
<1>3. /\ q \in [1..N -> R]
      /\ \A i, j \in 1..N : i < j => q[i].id < q[j].id
    BY <1>2 DEF ById
<1>4. \A x \in R : x.frame \in Frame
    BY DEF TypeOK, RowsOf, Row
<1>5. s \in Seq(Frame) /\ Len(s) = m
    BY <1>1, <1>3, <1>4
<1>6. /\ w \in Seq(Frame)
      /\ Len(w) = m - k
      /\ \A i \in 1..(m - k) : w[i] = s[k + i] /\ k + i \in 1..m
    BY ZenonT(60), <1>5, DropFirstProperties
<1> HIDE DEF s, w, N
<1>7. \A i \in 1..Len(w) : k + i \in 1..N
    BY <1>1, <1>6
<1>8. p \in [1..Len(w) -> R]
    BY <1>3, <1>7
<1>9. \A i \in 1..Len(w) : w[i] = p[i].frame
    BY <1>6 DEF s
<1>10. ASSUME NEW i \in 1..Len(w), NEW j \in 1..Len(w), i < j
       PROVE  p[i].id < p[j].id
    <2>1. i \in Nat /\ j \in Nat /\ k \in Nat
        BY <1>1, <1>6
    <2>2. k + i \in 1..N /\ k + j \in 1..N
        BY <1>7
    <2>3. k + i < k + j
        BY <1>10, <2>1
    <2>4. q[k + i].id < q[k + j].id
        BY <1>3, <2>2, <2>3
    <2> QED
        BY <2>4
<1>12. Len(w) <= N
    BY <1>1, <1>6
<1>13. frames' = [frames EXCEPT ![r] = w]
    BY <1>11 DEF s, w
<1>14. Loaded(r, w, p)
    BY <1>8, <1>9, <1>10, <1>12, <1>13 DEF Loaded, N
<1> HIDE DEF p
<1> QED
    BY <1>6, <1>14

-----------------------------------------------------------------------------
(* The inductive invariant, conjunct by conjunct.                             *)

LEMMA InitInv ==
    ASSUME RoomBufferAssumption, Init
    PROVE  BufferInv
<1> USE DEF Init
<1>1. TypeOK
    BY DEF TypeOK, RoomBufferAssumption
<1>2. IsFiniteSet(rows)
    BY FS_EmptySet
<1>3. LogNumbered /\ FramesLogged /\ SnapshotInOrder
    BY DEF LogNumbered, FramesLogged, SnapshotInOrder, Snapshot
<1>4. RowsLogged /\ RowsOrdered /\ InsertPending /\ Booting
    BY DEF RowsLogged, RowsOrdered, InsertPending, Booting
<1>5. PushFits
    BY DEF PushFits, RoomBufferAssumption
<1>6. CountBounded
    <2> SUFFICES ASSUME NEW r \in Rooms
                 PROVE  Cardinality(RowsOf(r)) = 0
        BY DEF CountBounded, RoomBufferAssumption
    <2> QED
        BY FS_EmptySet DEF RowsOf
<1> QED
    BY <1>1, <1>2, <1>3, <1>4, <1>5, <1>6 DEF BufferInv

(* A prune removes rows and adds none. *)
LEMMA PruneEffect ==
    ASSUME NEW r \in Rooms, Prune(r)
    PROVE  rows' \subseteq rows
BY DEF Prune, Newest, RowsOf

LEMMA NextType ==
    ASSUME RoomBufferAssumption, BufferInv, [Next]_vars
    PROVE  TypeOK' /\ IsFiniteSet(rows')
<1> USE DEF BufferInv, TypeOK, boot, memory, table, aux
<1>1. CASE UNCHANGED vars
    BY <1>1 DEF vars
<1>2. ASSUME NEW r \in Rooms, NEW size \in Sizes, Push(r, size)
      PROVE  TypeOK' /\ IsFiniteSet(rows')
    <2>1. PICK f \in Frame, s \in Seq(Frame) : \E k \in 0..Len(s) : Appended(r, f, s, k)
        BY <1>2, PushEffect
    <2>2. PICK k \in 0..Len(s) : Appended(r, f, s, k)
        BY <2>1
    <2>3. DropFirst(s, k) \in Seq(Frame)
        BY DropFirstProperties
    <2>4. frames' \in [Rooms -> Seq(Frame)] /\ log' \in [Rooms -> Seq(Frame)]
        BY <2>2, <2>3 DEF Appended
    <2>5. pc' \in [Rooms -> {"idle", "insert", "prune"}] /\ lossy' \subseteq Rooms
        BY ZenonT(60), <1>2 DEF Push
    <2> QED
        BY <1>2, <2>4, <2>5 DEF Push
<1>3. ASSUME NEW r \in Rooms, Insert(r)
      PROVE  TypeOK' /\ IsFiniteSet(rows')
    <2> DEFINE x == [id |-> nextId, room |-> r, frame |-> Last(log[r])]
    <2>1. Last(log[r]) \in Frame
        BY <1>3 DEF Insert, InsertPending, Last
    <2>2. x \in Row
        BY <2>1 DEF Row
    <2>3. IsFiniteSet(rows \union {x})
        BY FS_AddElement
    <2> QED
        BY <1>3, <2>2, <2>3 DEF Insert
<1>4. ASSUME NEW r \in Rooms, InsertFails(r)
      PROVE  TypeOK' /\ IsFiniteSet(rows')
    BY <1>4 DEF InsertFails, RoomBufferAssumption
<1>5. ASSUME NEW r \in Rooms, Prune(r)
      PROVE  TypeOK' /\ IsFiniteSet(rows')
    <2>1. rows' \subseteq rows
        BY <1>5, PruneEffect
    <2>2. IsFiniteSet(rows')
        BY <2>1, FS_Subset
    <2> QED
        BY <1>5, <2>1, <2>2 DEF Prune
<1>6. ASSUME NEW r \in Rooms, PruneFails(r)
      PROVE  TypeOK' /\ IsFiniteSet(rows')
    BY <1>6 DEF PruneFails, RoomBufferAssumption
<1>7. ASSUME NEW r \in Rooms, LoadRoom(r)
      PROVE  TypeOK' /\ IsFiniteSet(rows')
    <2>1. PICK w \in Seq(Frame) : frames' = [frames EXCEPT ![r] = w]
        BY <1>7, LoadEffect DEF Loaded
    <2>2. lossy' \subseteq Rooms
        BY SMTT(30), <1>7 DEF LoadRoom
    <2>3. faults' \in 0..MaxFaults
        BY SMTT(30), <1>7 DEF LoadRoom, RoomBufferAssumption
    <2> QED
        BY <1>7, <2>1, <2>2, <2>3 DEF LoadRoom
<1>8. CASE Crash
    BY <1>8 DEF Crash, RoomBufferAssumption
<1>9. CASE Boot
    <2>1. hasStore' \in BOOLEAN
        BY <1>9, Zenon DEF Boot
    <2>2. StoredRooms \subseteq Rooms
        BY DEF StoredRooms, Row
    <2>4. toLoad' \subseteq Rooms
        BY <1>9, <2>2 DEF Boot
    <2>3. lossy' \subseteq Rooms /\ faults' \in 0..MaxFaults
        BY <1>9, <2>2 DEF Boot, RoomBufferAssumption
    <2> QED
        BY <1>9, <2>1, <2>3, <2>4 DEF Boot
<1>10. CASE Serve
    BY <1>10 DEF Serve
<1>11. CASE Idle
    BY <1>11 DEF Idle, vars
<1> QED
    BY <1>1, <1>2, <1>3, <1>4, <1>5, <1>6, <1>7, <1>8, <1>9, <1>10, <1>11 DEF Next

(* Only Push touches the log.                                                 *)
LEMMA OnlyPushLogs ==
    ASSUME [Next]_vars
    PROVE  log' = log \/ \E r \in Rooms, size \in Sizes : Push(r, size)
BY DEF Next, vars, aux, memory, table, boot, Insert, InsertFails, Prune, PruneFails,
       LoadRoom, Crash, Boot, Serve, Idle

(* The log is append-only, so that a logged frame stays logged.               *)
LEMMA LogGrows ==
    ASSUME RoomBufferAssumption, BufferInv, [Next]_vars, NEW r \in Rooms, NEW f, Logged(r, f)
    PROVE  Logged(r, f)'
<1>1. CASE log' = log
    BY <1>1 DEF Logged
<1>2. ASSUME NEW q \in Rooms, NEW size \in Sizes, Push(q, size)
      PROVE  Logged(r, f)'
    <2>1. PICK g \in Frame : log' = [log EXCEPT ![q] = Append(@, g)]
        BY <1>2, PushEffect DEF Appended, BufferInv
    <2>2. log[r] \in Seq(Frame)
        BY DEF BufferInv, TypeOK
    <2>3. log'[r] = IF r = q THEN Append(log[r], g) ELSE log[r]
        BY <2>1 DEF BufferInv, TypeOK
    <2>4. /\ Len(log'[r]) \in Nat
          /\ Len(log[r]) <= Len(log'[r])
          /\ \A i \in 1..Len(log[r]) : log'[r][i] = log[r][i]
        BY <2>2, <2>3
    <2> QED
        BY <2>2, <2>4 DEF Logged
<1> QED
    BY <1>1, <1>2, OnlyPushLogs

LEMMA NextLogNumbered ==
    ASSUME RoomBufferAssumption, BufferInv, [Next]_vars
    PROVE  LogNumbered'
<1>1. CASE log' = log
    BY <1>1 DEF LogNumbered, BufferInv
<1>2. ASSUME NEW q \in Rooms, NEW size \in Sizes, Push(q, size)
      PROVE  LogNumbered'
    <2>1. PICK f \in Frame : f.n = Len(log[q]) + 1 /\ log' = [log EXCEPT ![q] = Append(@, f)]
        BY <1>2, PushEffect DEF Appended, BufferInv
    <2> QED
        BY <2>1 DEF LogNumbered, BufferInv, TypeOK
<1> QED
    BY <1>1, <1>2, OnlyPushLogs

-----------------------------------------------------------------------------
(* The buffers.                                                               *)
InOrder(s) == \A i, j \in 1..Len(s) : i < j => s[i].n < s[j].n

LEMMA AppendKeepsOrder ==
    ASSUME NEW s \in Seq(Frame), NEW f \in Frame, InOrder(s),
           \A i \in 1..Len(s) : s[i].n < f.n
    PROVE  InOrder(Append(s, f))
<1>1. /\ Len(Append(s, f)) = Len(s) + 1
      /\ \A i \in 1..Len(s) : Append(s, f)[i] = s[i]
      /\ Append(s, f)[Len(s) + 1] = f
    OBVIOUS
<1> SUFFICES ASSUME NEW i \in 1..(Len(s) + 1), NEW j \in 1..(Len(s) + 1), i < j
             PROVE  Append(s, f)[i].n < Append(s, f)[j].n
    BY <1>1 DEF InOrder
<1>2. i \in 1..Len(s)
    OBVIOUS
<1>3. CASE j = Len(s) + 1
    BY <1>1, <1>2, <1>3
<1>4. CASE j \in 1..Len(s)
    BY <1>1, <1>2, <1>4 DEF InOrder
<1> QED
    BY <1>3, <1>4

LEMMA DropKeepsOrder ==
    ASSUME NEW s \in Seq(Frame), NEW k \in 0..Len(s), InOrder(s)
    PROVE  InOrder(DropFirst(s, k))
<1>1. /\ Len(DropFirst(s, k)) = Len(s) - k
      /\ \A i \in 1..(Len(s) - k) : DropFirst(s, k)[i] = s[k + i] /\ k + i \in 1..Len(s)
    BY DropFirstProperties
<1> SUFFICES ASSUME NEW i \in 1..(Len(s) - k), NEW j \in 1..(Len(s) - k), i < j
             PROVE  DropFirst(s, k)[i].n < DropFirst(s, k)[j].n
    BY <1>1 DEF InOrder
<1>2. k + i \in 1..Len(s) /\ k + j \in 1..Len(s) /\ k + i < k + j
    BY <1>1
<1> QED
    BY <1>1, <1>2 DEF InOrder

(* What each step leaves in the buffers: what was there, nothing, the end of  *)
(* what was there and the new frame, or frames of the table.                  *)
LEMMA FramesStep ==
    ASSUME [Next]_vars
    PROVE  \/ frames' = frames
           \/ frames' = [r \in Rooms |-> <<>>]
           \/ \E r \in Rooms, size \in Sizes : Push(r, size)
           \/ \E r \in Rooms : LoadRoom(r)
BY DEF Next, vars, aux, memory, table, boot, Insert, InsertFails, Prune, PruneFails,
       Crash, Boot, Serve, Idle

(* The buffers hold nothing but frames that were pushed.                      *)
LEMMA NextFramesLogged ==
    ASSUME RoomBufferAssumption, BufferInv, [Next]_vars
    PROVE  FramesLogged'
<1> SUFFICES ASSUME NEW r \in Rooms,
                    NEW x, \E i \in 1..Len(frames'[r]) : x = frames'[r][i]
             PROVE  Logged(r, x)'
    BY DEF FramesLogged, Logged
<1> USE DEF BufferInv
<1>1. CASE frames' = frames
    <2>1. Logged(r, x)
        BY <1>1 DEF FramesLogged, Logged
    <2> QED
        BY <2>1, LogGrows
<1>2. CASE frames' = [q \in Rooms |-> <<>>]
    BY <1>2
<1>3. ASSUME NEW q \in Rooms, NEW size \in Sizes, Push(q, size)
      PROVE  Logged(r, x)'
    <2>1. PICK f \in Frame, s \in Seq(Frame) : \E k \in 0..Len(s) : Appended(q, f, s, k)
        BY <1>3, PushEffect
    <2>2. PICK k \in 0..Len(s) : Appended(q, f, s, k)
        BY <2>1
    <2>3. frames'[r] = IF r = q THEN DropFirst(s, k) ELSE frames[r]
        BY <2>2 DEF Appended, TypeOK
    <2>4. CASE r = q /\ x = f
        BY <2>2, <2>4 DEF Appended, Logged, TypeOK
    <2>5. CASE r = q /\ x # f
        <3>1. \E i \in 1..Len(s) : x = s[i]
            <4>1. PICK i \in 1..Len(DropFirst(s, k)) : x = DropFirst(s, k)[i]
                BY <2>3, <2>5
            <4>2. i \in 1..(Len(s) - k)
                BY DropFirstProperties
            <4>3. x = s[k + i] /\ k + i \in 1..Len(s)
                BY <4>1, <4>2, DropFirstProperties
            <4> QED
                BY <4>3
        <3>2. frames[r] \in Seq(Frame) /\ s = Append(frames[r], f)
            BY <2>2, <2>5 DEF Appended, TypeOK
        <3>3. /\ Len(s) = Len(frames[r]) + 1
              /\ \A i \in 1..Len(frames[r]) : s[i] = frames[r][i]
              /\ s[Len(frames[r]) + 1] = f
            BY <3>2
        <3>4. \E i \in 1..Len(frames[r]) : x = frames[r][i]
            BY <2>5, <3>1, <3>3
        <3>5. Logged(r, x)
            BY <3>4 DEF FramesLogged, Logged
        <3> QED
            BY <3>5, LogGrows
    <2>6. CASE r # q
        <3>1. Logged(r, x)
            BY <2>3, <2>6 DEF FramesLogged, Logged
        <3> QED
            BY <3>1, LogGrows
    <2> QED
        BY <2>4, <2>5, <2>6
<1>4. ASSUME NEW q \in Rooms, LoadRoom(q)
      PROVE  Logged(r, x)'
    <2>0. PICK w \in Seq(Frame) : \E p : Loaded(q, w, p)
        BY <1>4, LoadEffect
    <2>1. PICK p : Loaded(q, w, p)
        BY <2>0
    <2>2. frames'[r] = IF r = q THEN w ELSE frames[r]
        BY <2>1 DEF Loaded, TypeOK
    <2>3. Logged(r, x)
        BY SMTT(30), <2>1, <2>2 DEF Loaded, RowsOf, RowsLogged, FramesLogged, Logged
    <2> QED
        BY <2>3, LogGrows
<1> QED
    BY <1>1, <1>2, <1>3, <1>4, FramesStep

(* They hold them in the order of pushes.                                     *)
LEMMA NextSnapshotInOrder ==
    ASSUME RoomBufferAssumption, BufferInv, [Next]_vars
    PROVE  SnapshotInOrder'
<1> USE DEF BufferInv
<1>1. \A r \in Rooms : frames[r] \in Seq(Frame) /\ InOrder(frames[r])
    BY DEF TypeOK, SnapshotInOrder, Snapshot, InOrder
<1> SUFFICES ASSUME NEW r \in Rooms
             PROVE  InOrder(frames'[r])
    <2>1. frames' \in [Rooms -> Seq(Frame)]
        BY NextType DEF TypeOK
    <2> QED
        BY <2>1 DEF SnapshotInOrder, Snapshot, InOrder
<1>2. CASE frames' = frames
    BY <1>1, <1>2
<1>3. CASE frames' = [q \in Rooms |-> <<>>]
    BY <1>3 DEF InOrder
<1>4. ASSUME NEW q \in Rooms, NEW size \in Sizes, Push(q, size)
      PROVE  InOrder(frames'[r])
    <2>1. PICK f \in Frame, s \in Seq(Frame) : \E k \in 0..Len(s) : Appended(q, f, s, k)
        BY <1>4, PushEffect
    <2>2. PICK k \in 0..Len(s) : Appended(q, f, s, k)
        BY <2>1
    <2>3. frames'[r] = IF r = q THEN DropFirst(s, k) ELSE frames[r]
        BY <2>2 DEF Appended, TypeOK
    <2>4. log[q] \in Seq(Frame) /\ Len(log[q]) \in Nat
        BY DEF TypeOK
    <2>5. \A i \in 1..Len(frames[q]) : frames[q][i].n < f.n
        BY SMTT(30), <2>2, <2>4 DEF Appended, FramesLogged, Logged
    <2>6. InOrder(s)
        BY <1>1, <2>2, <2>5, AppendKeepsOrder DEF Appended
    <2> QED
        BY <1>1, <2>3, <2>6, DropKeepsOrder
<1>5. ASSUME NEW q \in Rooms, LoadRoom(q)
      PROVE  InOrder(frames'[r])
    <2>0. PICK w \in Seq(Frame) : \E p : Loaded(q, w, p)
        BY <1>5, LoadEffect
    <2>1. PICK p : Loaded(q, w, p)
        BY <2>0
    <2>2. frames'[r] = IF r = q THEN w ELSE frames[r]
        BY <2>1 DEF Loaded, TypeOK
    <2>3. InOrder(w)
        BY <2>1 DEF Loaded, InOrder, RowsOf, RowsOrdered
    <2> QED
        BY <1>1, <2>2, <2>3
<1> QED
    BY <1>2, <1>3, <1>4, <1>5, FramesStep

-----------------------------------------------------------------------------
(* The table.                                                                 *)

(* What each step does to the table: nothing, an insert or a prune.           *)
LEMMA RowsStep ==
    ASSUME [Next]_vars
    PROVE  \/ rows' = rows /\ nextId' = nextId
           \/ \E r \in Rooms : Insert(r)
           \/ rows' \subseteq rows /\ nextId' = nextId
BY PruneEffect DEF Next, vars, aux, memory, table, boot, Push, InsertFails, Prune,
       PruneFails, LoadRoom, Crash, Boot, Serve, Idle

(* What an insert adds: the newest frame of the room, under a fresh id.       *)
Inserted(r, x) ==
    /\ rows' = rows \union {x}
    /\ nextId' = nextId + 1
    /\ x.id = nextId
    /\ x.room = r
    /\ x.frame.n = Len(log[r])
    /\ Logged(r, x.frame)

LEMMA InsertEffect ==
    ASSUME BufferInv, NEW r \in Rooms, Insert(r)
    PROVE  \E x \in Row : Inserted(r, x)
<1> DEFINE x == [id |-> nextId, room |-> r, frame |-> Last(log[r])]
<1>1. log[r] \in Seq(Frame) /\ nextId \in Nat
    BY DEF BufferInv, TypeOK
<1>2. Len(log[r]) > 0
    BY DEF Insert, BufferInv, InsertPending
<1>3. Len(log[r]) \in 1..Len(log[r])
    BY <1>1, <1>2
<1>4. Last(log[r]) \in Frame /\ Last(log[r]) = log[r][Len(log[r])]
    BY <1>1, <1>3 DEF Last
<1>5. Last(log[r]).n = Len(log[r])
    BY <1>3, <1>4 DEF BufferInv, LogNumbered
<1>6. x \in Row
    BY <1>1, <1>4 DEF Row
<1>7. Inserted(r, x)
    BY <1>3, <1>4, <1>5 DEF Inserted, Insert, Logged
<1> QED
    BY <1>6, <1>7

LEMMA NextRowsLogged ==
    ASSUME RoomBufferAssumption, BufferInv, [Next]_vars
    PROVE  RowsLogged'
<1> USE DEF BufferInv
<1> SUFFICES ASSUME NEW x, x \in rows'
             PROVE  Logged(x.room, x.frame)'
    BY DEF RowsLogged, Logged
<1>1. CASE x \in rows
    <2>1. Logged(x.room, x.frame) /\ x.room \in Rooms
        BY <1>1 DEF RowsLogged, TypeOK, Row
    <2> QED
        BY <2>1, LogGrows
<1>2. CASE x \notin rows
    <2>1. PICK r \in Rooms : Insert(r)
        BY <1>2, RowsStep
    <2>2. PICK y \in Row : Inserted(r, y)
        BY <2>1, InsertEffect
    <2>3. x = y
        BY <1>2, <2>2 DEF Inserted
    <2>4. Logged(x.room, x.frame) /\ x.room \in Rooms
        BY <2>2, <2>3 DEF Inserted
    <2> QED
        BY <2>4, LogGrows
<1> QED
    BY <1>1, <1>2

LEMMA NextRowsOrdered ==
    ASSUME RoomBufferAssumption, BufferInv, [Next]_vars
    PROVE  RowsOrdered'
<1> USE DEF BufferInv
<1>1. CASE rows' \subseteq rows /\ nextId' = nextId
    BY <1>1 DEF RowsOrdered
<1>2. ASSUME NEW r \in Rooms, Insert(r)
      PROVE  RowsOrdered'
    <2>1. PICK y \in Row : Inserted(r, y)
        BY <1>2, InsertEffect
    <2>2. \A x \in rows : x.id \in Nat /\ x.id < y.id
        BY <2>1 DEF Inserted, RowsOrdered, TypeOK, Row
    <2>3. nextId \in Nat
        BY DEF TypeOK
    <2>4. \A x \in rows : x.room = r => x.frame.n < y.frame.n
        BY <1>2, <2>1 DEF Insert, InsertPending, Inserted
    <2>5. \A x \in rows' : x \in rows \/ x = y
        BY <2>1 DEF Inserted
    <2>6. \A x \in rows' : x.id < nextId'
        BY <2>1, <2>2, <2>3, <2>5 DEF Inserted
    <2>7. \A x, z \in rows' : x.id = z.id => x = z
        BY <2>2, <2>5 DEF RowsOrdered
    <2>8. \A x, z \in rows' : x.room = z.room /\ x.id < z.id => x.frame.n < z.frame.n
        <3> SUFFICES ASSUME NEW x \in rows', NEW z \in rows', x.room = z.room, x.id < z.id
                     PROVE  x.frame.n < z.frame.n
            OBVIOUS
        <3>1. y.id \in Nat
            BY DEF Row
        <3>2. x # y
            BY <2>2, <2>5, <3>1
        <3>3. CASE z = y
            BY <2>1, <2>4, <2>5, <3>2, <3>3 DEF Inserted
        <3>4. CASE z # y
            BY <2>5, <3>2, <3>4 DEF RowsOrdered
        <3> QED
            BY <3>3, <3>4
    <2> QED
        BY <2>6, <2>7, <2>8 DEF RowsOrdered
<1> QED
    BY <1>1, <1>2, RowsStep

LEMMA NextInsertPending ==
    ASSUME RoomBufferAssumption, BufferInv, [Next]_vars
    PROVE  InsertPending'
<1> USE DEF BufferInv
<1> DEFINE Pending(r) == Len(log[r]) > 0 /\ \A x \in rows : x.room = r => x.frame.n < Len(log[r])
<1> SUFFICES ASSUME NEW r \in Rooms, pc'[r] = "insert"
             PROVE  Pending(r)'
    BY DEF InsertPending
<1>1. \A q \in Rooms : pc[q] = "insert" => Pending(q)
    BY DEF InsertPending
<1>2. CASE UNCHANGED <<pc, log>> /\ rows' \subseteq rows
    BY <1>1, <1>2
<1>3. ASSUME NEW q \in Rooms, NEW size \in Sizes, Push(q, size)
      PROVE  Pending(r)'
    <2>1. PICK f \in Frame : log' = [log EXCEPT ![q] = Append(@, f)]
        BY <1>3, PushEffect DEF Appended
    <2>2. rows' = rows
        BY <1>3 DEF Push, table
    <2>3. CASE r = q
        <3>1. log[r] \in Seq(Frame) /\ Len(log'[r]) = Len(log[r]) + 1
            BY <2>1, <2>3 DEF TypeOK
        <3>2. \A x \in rows : x.room = r => x.frame.n \in 1..Len(log[r])
            BY DEF RowsLogged, Logged
        <3> QED
            BY <2>2, <3>1, <3>2
    <2>4. CASE r # q
        <3>1. log'[r] = log[r] /\ pc'[r] = pc[r]
            BY <1>3, <2>1, <2>4 DEF Push, TypeOK
        <3> QED
            BY <1>1, <2>2, <3>1
    <2> QED
        BY <2>3, <2>4
<1>4. ASSUME NEW q \in Rooms, Insert(q)
      PROVE  Pending(r)'
    <2>1. PICK x \in Row : Inserted(q, x)
        BY <1>4, InsertEffect
    <2>2. r # q /\ pc'[r] = pc[r] /\ log' = log
        BY <1>4 DEF Insert, TypeOK, aux
    <2> QED
        BY <1>1, <2>1, <2>2 DEF Inserted
<1>5. ASSUME NEW q \in Rooms, InsertFails(q) \/ Prune(q) \/ PruneFails(q)
      PROVE  Pending(r)'
    <2>1. rows' \subseteq rows /\ log' = log
        BY <1>5, PruneEffect DEF InsertFails, Prune, PruneFails, table
    <2>2. r # q /\ pc'[r] = pc[r]
        BY <1>5 DEF InsertFails, Prune, PruneFails, TypeOK
    <2> QED
        BY <1>1, <2>1, <2>2
<1>6. CASE Crash
    BY <1>6 DEF Crash
<1> QED
    BY <1>2, <1>3, <1>4, <1>5, <1>6
    DEF Next, vars, aux, memory, table, boot, LoadRoom, Boot, Serve, Idle

LEMMA NextBooting ==
    ASSUME RoomBufferAssumption, BufferInv, [Next]_vars
    PROVE  Booting'
<1> USE DEF BufferInv, Booting
<1>1. CASE UNCHANGED <<phase, toLoad, pc, frames>>
    BY <1>1
<1>2. ASSUME NEW q \in Rooms, NEW size \in Sizes, Push(q, size)
      PROVE  Booting'
    BY <1>2 DEF Push, boot
<1>3. ASSUME NEW q \in Rooms, Insert(q) \/ InsertFails(q) \/ Prune(q) \/ PruneFails(q)
      PROVE  Booting'
    BY <1>3 DEF Insert, InsertFails, Prune, PruneFails, boot, TypeOK
<1>4. ASSUME NEW q \in Rooms, LoadRoom(q)
      PROVE  Booting'
    <2>1. PICK w \in Seq(Frame) : frames' = [frames EXCEPT ![q] = w]
        BY <1>4, LoadEffect DEF Loaded
    <2>2. /\ phase = "booting" /\ phase' = phase /\ pc' = pc
          /\ toLoad' = toLoad \ {q}
        BY <1>4 DEF LoadRoom
    <2> QED
        BY <2>1, <2>2 DEF TypeOK
<1>5. CASE Crash
    BY <1>5 DEF Crash
<1>6. CASE Boot
    <2>1. /\ phase = "down" /\ phase' = "booting" /\ UNCHANGED <<frames, pc>>
        BY <1>6 DEF Boot, memory
    <2>2. toLoad' \subseteq Rooms
        BY NextType DEF TypeOK
    <2> QED
        BY <2>1, <2>2
<1>7. CASE Serve
    BY <1>7 DEF Serve, memory
<1> QED
    BY <1>1, <1>2, <1>3, <1>4, <1>5, <1>6, <1>7
    DEF Next, vars, aux, memory, table, boot, Idle

-----------------------------------------------------------------------------
(* The limits.                                                                *)
TableBound(r) == MaxFrames + missed[r] + IF pc[r] = "prune" THEN 1 ELSE 0

(* An insert adds one row to its room, a prune leaves MaxFrames of them, and  *)
(* neither changes the rows of another room.                                  *)
LEMMA RowsOfInsert ==
    ASSUME IsFiniteSet(rows), NEW r \in Rooms, NEW x \in Row, Inserted(r, x), NEW q \in Rooms
    PROVE  Cardinality(RowsOf(q)') <=
              IF q = r THEN Cardinality(RowsOf(q)) + 1 ELSE Cardinality(RowsOf(q))
<1>1. IsFiniteSet(RowsOf(q)) /\ Cardinality(RowsOf(q)) \in Nat
    BY FS_Subset, FS_CardinalityType DEF RowsOf
<1>2. CASE q = r
    <2>1. RowsOf(q)' = RowsOf(q) \union {x}
        BY <1>2 DEF RowsOf, Inserted
    <2> DEFINE S == RowsOf(q)
    <2> HIDE DEF S
    <2>2. IsFiniteSet(S) /\ Cardinality(S) \in Nat
        BY <1>1 DEF S
    <2> DEFINE T == S \union {x}
    <2>3. Cardinality(T) = IF x \in S THEN Cardinality(S) ELSE Cardinality(S) + 1
        BY <2>2, FS_AddElement, Zenon
    <2>4. Cardinality(RowsOf(q)') = Cardinality(T)
        BY <2>1 DEF S
    <2> HIDE DEF T
    <2>5. Cardinality(T) <= Cardinality(S) + 1
        BY <2>2, <2>3
    <2> QED
        BY <1>2, <2>4, <2>5 DEF S
<1>3. CASE q # r
    <2>1. RowsOf(q)' = RowsOf(q)
        BY <1>3 DEF RowsOf, Inserted
    <2> QED
        BY <1>1, <1>3, <2>1
<1> QED
    BY <1>2, <1>3

LEMMA RowsOfPrune ==
    ASSUME RoomBufferAssumption, BufferInv, NEW r \in Rooms, Prune(r), NEW q \in Rooms
    PROVE  IF q = r THEN Cardinality(RowsOf(q)') <= MaxFrames ELSE RowsOf(q)' = RowsOf(q)
<1>1. rows' = (rows \ RowsOf(r)) \union Newest(r)
    BY DEF Prune
<1>2. CASE q = r
    <2>1. RowsOf(q)' = Newest(q)
        BY <1>1, <1>2 DEF RowsOf, Newest
    <2>2. IsFiniteSet(RowsOf(q))
        BY FS_Subset DEF RowsOf, BufferInv
    <2>3. /\ \A x \in RowsOf(q) : x.id \in Nat
          /\ \A x, y \in RowsOf(q) : x.id = y.id => x = y
        BY DEF RowsOf, BufferInv, TypeOK, Row, RowsOrdered
    <2>4. MaxFrames \in Nat \ {0}
        BY DEF RoomBufferAssumption
    <2> DEFINE S == RowsOf(q)
               T == {x \in S : Cardinality({y \in S : y.id > x.id}) < MaxFrames}
    <2>5. Newest(q) = T
        BY DEF Newest
    <2> HIDE DEF S
    <2>6. IsFiniteSet(S)
        BY <2>2 DEF S
    <2>7. (\A x \in S : x.id \in Nat) /\ \A x, y \in S : x.id = y.id => x = y
        BY <2>3 DEF S
    <2>8. Cardinality(T) <= MaxFrames
        BY <2>4, <2>6, <2>7, NewestAreFew
    <2> QED
        BY <1>2, <2>1, <2>5, <2>8
<1>3. CASE q # r
    BY <1>1, <1>3 DEF RowsOf, Newest
<1> QED
    BY <1>2, <1>3

(* A push in progress has evicted what had to go.                             *)
LEMMA NextPushFits ==
    ASSUME RoomBufferAssumption, BufferInv, [Next]_vars
    PROVE  PushFits'
<1> USE DEF BufferInv
<1> SUFFICES ASSUME NEW q \in Rooms, pc'[q] # "idle"
             PROVE  Len(frames'[q]) <= MaxFrames
    BY DEF PushFits
<1>1. pc[q] # "idle" => Len(frames[q]) <= MaxFrames
    BY DEF PushFits
<1>2. CASE UNCHANGED <<frames, pc>>
    BY <1>1, <1>2
<1>3. ASSUME NEW r \in Rooms, NEW size \in Sizes, Push(r, size)
      PROVE  Len(frames'[q]) <= MaxFrames
    <2>1. PICK f \in Frame, s \in Seq(Frame) : \E k \in 0..Len(s) : Appended(r, f, s, k)
        BY <1>3, PushEffect
    <2>2. PICK k \in 0..Len(s) : Appended(r, f, s, k)
        BY <2>1
    <2>3. pc'[q] = pc[q] \/ q = r
        BY <1>3 DEF Push, TypeOK
    <2> QED
        BY <1>1, <2>2, <2>3 DEF Appended, TypeOK
<1>4. ASSUME NEW r \in Rooms, Insert(r) \/ InsertFails(r) \/ Prune(r) \/ PruneFails(r)
      PROVE  Len(frames'[q]) <= MaxFrames
    <2>1. frames' = frames /\ pc[q] # "idle"
        BY <1>4 DEF Insert, InsertFails, Prune, PruneFails, TypeOK
    <2> QED
        BY <1>1, <2>1
<1>5. ASSUME NEW r \in Rooms, LoadRoom(r)
      PROVE  Len(frames'[q]) <= MaxFrames
    <2>1. pc' = pc /\ pc[q] = "idle"
        BY <1>5 DEF LoadRoom, Booting
    <2> QED
        BY <2>1
<1>6. CASE Crash
    BY <1>6 DEF Crash
<1> QED
    BY <1>2, <1>3, <1>4, <1>5, <1>6
    DEF Next, vars, aux, memory, table, boot, Boot, Serve, Idle

LEMMA NextCountBounded ==
    ASSUME RoomBufferAssumption, BufferInv, [Next]_vars
    PROVE  CountBounded'
<1> SUFFICES ASSUME NEW q \in Rooms
             PROVE  /\ Len(frames'[q]) <= MaxFrames + missed'[q]
                    /\ Cardinality(RowsOf(q)') <= TableBound(q)'
    BY DEF CountBounded, TableBound
<1> USE DEF BufferInv
<1>1. /\ Len(frames[q]) \in Nat /\ Len(frames[q]) <= MaxFrames + missed[q]
      /\ Cardinality(RowsOf(q)) <= TableBound(q)
      /\ missed[q] \in Nat /\ MaxFrames \in Nat
    BY DEF CountBounded, TableBound, TypeOK, RoomBufferAssumption
<1>2. Cardinality(RowsOf(q)) \in Nat
    BY FS_Subset, FS_CardinalityType DEF RowsOf
<1> DEFINE Goal == /\ Len(frames'[q]) <= MaxFrames + missed'[q]
                   /\ Cardinality(RowsOf(q)') <= TableBound(q)'
<1>3. CASE UNCHANGED <<frames, pc, rows, missed>>
    BY <1>1, <1>3 DEF RowsOf, TableBound
<1>4. ASSUME NEW r \in Rooms, NEW size \in Sizes, Push(r, size)
      PROVE  Goal
    <2>1. PICK f \in Frame, s \in Seq(Frame) : \E k \in 0..Len(s) : Appended(r, f, s, k)
        BY <1>4, PushEffect
    <2>2. PICK k \in 0..Len(s) : Appended(r, f, s, k)
        BY <2>1
    <2>3. /\ frames'[q] = IF q = r THEN DropFirst(s, k) ELSE frames[q]
          /\ Len(DropFirst(s, k)) <= MaxFrames
        BY <2>2 DEF Appended, TypeOK
    <2>4. Len(DropFirst(s, k)) \in Nat
        BY DropFirstProperties
    <2>5. missed' = missed /\ RowsOf(q)' = RowsOf(q)
        BY <1>4 DEF Push, RowsOf, table
    <2>6. pc[q] = "prune" => pc'[q] = "prune"
        BY <1>4 DEF Push, TypeOK
    <2>7. Len(frames'[q]) <= MaxFrames + missed'[q]
        BY <1>1, <2>3, <2>4, <2>5
    <2>8. Cardinality(RowsOf(q)') <= TableBound(q)'
        BY <1>1, <1>2, <2>5, <2>6 DEF TableBound
    <2> QED
        BY <2>7, <2>8
<1>5. ASSUME NEW r \in Rooms, Insert(r)
      PROVE  Goal
    <2>1. PICK x \in Row : Inserted(r, x)
        BY <1>5, InsertEffect
    <2>2. Cardinality(RowsOf(q)') <=
             IF q = r THEN Cardinality(RowsOf(q)) + 1 ELSE Cardinality(RowsOf(q))
        BY <2>1, RowsOfInsert
    <2>3. /\ frames' = frames /\ missed' = missed
          /\ pc'[q] = IF q = r THEN "prune" ELSE pc[q]
          /\ q = r => pc[q] = "insert"
        BY <1>5 DEF Insert, aux, TypeOK
    <2>4. IsFiniteSet(RowsOf(q)') /\ Cardinality(RowsOf(q)') \in Nat
        BY NextType, FS_Subset, FS_CardinalityType DEF RowsOf
    <2>5. Cardinality(RowsOf(q)') <= TableBound(q)'
        BY <1>1, <1>2, <2>2, <2>3, <2>4 DEF TableBound
    <2> QED
        BY <1>1, <2>3, <2>5
<1>6. ASSUME NEW r \in Rooms, Prune(r)
      PROVE  Goal
    <2>1. IF q = r THEN Cardinality(RowsOf(q)') <= MaxFrames ELSE RowsOf(q)' = RowsOf(q)
        BY <1>6, RowsOfPrune
    <2>2. /\ frames' = frames
          /\ missed'[q] = IF q = r THEN 0 ELSE missed[q]
          /\ pc'[q] = IF q = r THEN "idle" ELSE pc[q]
        BY <1>6 DEF Prune, TypeOK
    <2>3. q = r => Len(frames[q]) <= MaxFrames
        BY <1>6 DEF Prune, PushFits
    <2>4. IsFiniteSet(RowsOf(q)') /\ Cardinality(RowsOf(q)') \in Nat
        BY NextType, FS_Subset, FS_CardinalityType DEF RowsOf
    <2>5. CASE q = r
        BY <1>1, <2>1, <2>2, <2>3, <2>4, <2>5 DEF TableBound
    <2>6. CASE q # r
        BY <1>1, <2>1, <2>2, <2>6 DEF TableBound
    <2> QED
        BY <2>5, <2>6
<1>7. ASSUME NEW r \in Rooms, InsertFails(r) \/ PruneFails(r)
      PROVE  Goal
    <2>1. frames' = frames /\ RowsOf(q)' = RowsOf(q)
        BY <1>7 DEF InsertFails, PruneFails, RowsOf, table
    <2>2. CASE InsertFails(r)
        <3>1. missed' = missed /\ (pc[q] = "prune" => pc'[q] = "prune")
            BY <2>2 DEF InsertFails, TypeOK
        <3> QED
            BY <1>1, <1>2, <2>1, <3>1 DEF TableBound
    <2>3. CASE PruneFails(r)
        <3>1. /\ missed'[q] = IF q = r THEN missed[q] + 1 ELSE missed[q]
              /\ pc'[q] = IF q = r THEN "idle" ELSE pc[q]
            BY <2>3 DEF PruneFails, TypeOK
        <3> QED
            BY <1>1, <1>2, <2>1, <3>1 DEF TableBound
    <2> QED
        BY <1>7, <2>2, <2>3
<1>8. ASSUME NEW r \in Rooms, LoadRoom(r)
      PROVE  Goal
    <2>0. PICK w \in Seq(Frame) : \E p : Loaded(r, w, p)
        BY <1>8, LoadEffect
    <2>1. PICK p : Loaded(r, w, p)
        BY <2>0
    <2>2. /\ missed' = missed /\ pc' = pc /\ RowsOf(q)' = RowsOf(q)
          /\ pc[q] = "idle"
        BY <1>8 DEF LoadRoom, RowsOf, table, Booting
    <2>3. frames'[q] = IF q = r THEN w ELSE frames[q]
        BY <2>1 DEF Loaded, TypeOK
    <2>4. q = r => Len(w) <= Cardinality(RowsOf(q))
        BY <2>1 DEF Loaded
    <2>5. Len(w) \in Nat /\ Cardinality(RowsOf(q)) <= MaxFrames + missed[q]
        BY <1>1, <2>2 DEF TableBound
    <2>6. Len(frames'[q]) <= MaxFrames + missed'[q]
        BY <1>1, <1>2, <2>2, <2>3, <2>4, <2>5
    <2> QED
        BY <1>1, <2>2, <2>6 DEF TableBound
<1>9. CASE Crash
    <2>1. /\ Len(frames'[q]) = 0 /\ RowsOf(q)' = RowsOf(q) /\ pc'[q] = "idle"
          /\ missed'[q] = missed[q] + IF pc[q] = "prune" THEN 1 ELSE 0
        BY <1>9 DEF Crash, RowsOf, table
    <2> QED
        BY <1>1, <1>2, <2>1 DEF TableBound
<1> QED
    BY <1>3, <1>4, <1>5, <1>6, <1>7, <1>8, <1>9
    DEF Next, vars, aux, memory, table, boot, Boot, Serve, Idle

-----------------------------------------------------------------------------
(* The theorems.                                                              *)

(* BufferInv is an invariant of every execution. *)
THEOREM BufferInvariant == Spec => []BufferInv
<1> USE RoomBufferAssumption
<1>1. Init => BufferInv
    BY InitInv
<1>2. BufferInv /\ [Next]_vars => BufferInv'
    <2> SUFFICES ASSUME BufferInv, [Next]_vars
                 PROVE  BufferInv'
        OBVIOUS
    <2>1. TypeOK' /\ IsFiniteSet(rows')
        BY NextType
    <2>2. LogNumbered' /\ FramesLogged' /\ SnapshotInOrder'
        BY NextLogNumbered, NextFramesLogged, NextSnapshotInOrder
    <2>3. RowsLogged' /\ RowsOrdered' /\ InsertPending'
        BY NextRowsLogged, NextRowsOrdered, NextInsertPending
    <2>4. Booting' /\ PushFits' /\ CountBounded'
        BY NextBooting, NextPushFits, NextCountBounded
    <2> QED
        BY <2>1, <2>2, <2>3, <2>4 DEF BufferInv
<1> QED
    BY <1>1, <1>2, PTL DEF Spec

(* Every variable but `total' keeps its type. *)
THEOREM TypeCorrect == Spec => []TypeOK
<1>1. BufferInv => TypeOK
    BY DEF BufferInv
<1> QED
    BY <1>1, BufferInvariant, PTL

(* A joining device is caught up in push order, without repetitions. *)
THEOREM CatchUpInOrder == Spec => []SnapshotInOrder
<1>1. BufferInv => SnapshotInOrder
    BY DEF BufferInv
<1> QED
    BY <1>1, BufferInvariant, PTL

(* Buffer and table outgrow the count limit only by the prunes missed. *)
THEOREM LimitsKept == Spec => []CountBounded
<1>1. BufferInv => CountBounded
    BY DEF BufferInv
<1> QED
    BY <1>1, BufferInvariant, PTL

(* A step of RoomBuffer is a step of CatchUpLog or leaves its variables alone.*)
LEMMA StepRefinement ==
    ASSUME RoomBufferAssumption, BufferInv, BufferInv', [Next]_vars
    PROVE  [Catch!Next]_Catch!vars
<1> USE DEF BufferInv
<1>1. CASE UNCHANGED <<log, frames>>
    BY <1>1 DEF Catch!vars
<1>2. ASSUME NEW r \in Rooms, NEW size \in Sizes, Push(r, size)
      PROVE  Catch!Next
    <2>1. PICK f \in Frame, s \in Seq(Frame) : \E k \in 0..Len(s) : Appended(r, f, s, k)
        BY <1>2, PushEffect
    <2>2. PICK k \in 0..Len(s) : Appended(r, f, s, k)
        BY <2>1
    <2>3. frames[r] \in Seq(Frame) /\ s = Append(frames[r], f)
        BY <2>2 DEF Appended, TypeOK
    <2>4. Len(s) = Len(frames[r]) + 1
        BY <2>3
    <2>5. frames' = [frames EXCEPT ![r] = Catch!DropFirst(Append(@, f), k)]
        BY <2>2 DEF Appended, DropFirst, Catch!DropFirst
    <2>6. k \in 0..(Len(frames[r]) + 1)
        BY <2>4
    <2>7. log' = [log EXCEPT ![r] = Append(@, f)]
        BY <2>2 DEF Appended
    <2>8. Catch!Accept(r, f)
        BY <2>5, <2>6, <2>7 DEF Catch!Accept
    <2> QED
        BY <2>8 DEF Catch!Next
<1>3. ASSUME NEW r \in Rooms, LoadRoom(r)
      PROVE  Catch!Next
    <2>1. PICK w \in Seq(Frame) : frames' = [frames EXCEPT ![r] = w]
        BY <1>3, LoadEffect DEF Loaded
    <2>2. frames[r] = <<>> /\ log' = log /\ frames'[r] = w
        BY <1>3, <2>1 DEF LoadRoom, Booting, TypeOK
    <2> DEFINE p == [i \in 1..Len(w) |-> w[i].n]
    <2>3. \A i \in 1..Len(w) : w[i].n \in 1..Len(log[r]) /\ w[i] = log[r][w[i].n]
        BY <2>2 DEF FramesLogged, Logged
    <2>4. \A i, j \in 1..Len(w) : i < j => w[i].n < w[j].n
        BY <2>2 DEF SnapshotInOrder, Snapshot
    <2>5. p \in [1..Len(w) -> 1..Len(log[r])]
        BY <2>3
    <2>6. /\ \A i, j \in 1..Len(w) : i < j => p[i] < p[j]
          /\ \A i \in 1..Len(w) : w[i] = log[r][p[i]]
        BY <2>3, <2>4
    <2> HIDE DEF p
    <2>7. Catch!IsSelection(w, log[r])
        BY <2>5, <2>6 DEF Catch!IsSelection
    <2>8. Catch!Restore(r)
        BY <2>1, <2>2, <2>7 DEF Catch!Restore
    <2> QED
        BY <2>8 DEF Catch!Next
<1>4. CASE Crash
    BY <1>4 DEF Crash, Catch!Next, Catch!Crash
<1> QED
    BY <1>1, <1>2, <1>3, <1>4
    DEF Next, vars, aux, memory, table, boot, Insert, InsertFails, Prune, PruneFails,
        Boot, Serve, Idle

(* Memory and SQLite together keep the promise of CatchUpLog. *)
THEOREM RefinesCatchUpLog == Spec => CatchUpSpec
<1> USE RoomBufferAssumption
<1>1. Init => Catch!Init
    BY DEF Init, Catch!Init
<1>2. BufferInv /\ BufferInv' /\ [Next]_vars => [Catch!Next]_Catch!vars
    BY StepRefinement
<1> QED
    BY <1>1, <1>2, BufferInvariant, PTL DEF Spec, CatchUpSpec, Catch!Spec

-----------------------------------------------------------------------------
(* Sums of sizes.                                                             *)

(* Induction, for a set of numbers. *)
LEMMA Induct ==
    ASSUME NEW T, 0 \in T, \A n \in Nat : n \in T => n + 1 \in T
    PROVE  Nat \subseteq T
<1> SUFFICES ASSUME Nat \ T # {} PROVE FALSE
    OBVIOUS
<1> DEFINE R == OpToRel(<, Nat)
<1>1. IsWellFoundedOn(R, Nat)
    BY NatLessThanWellFounded
<1> HIDE DEF R
<1>2. PICK x \in Nat \ T : \A y \in Nat \ T : ~(<<y, x>> \in R)
    BY <1>1, WFMin
<1>3. x # 0 /\ x - 1 \in Nat /\ x - 1 \notin T
    OBVIOUS
<1>4. <<x - 1, x>> \in R
    BY <1>3 DEF R, OpToRel
<1> QED
    BY <1>2, <1>3, <1>4

(* g gives the sizes of the first frames of s, added up. *)
Sums(g, s) ==
    /\ g \in [0..Len(s) -> Nat]
    /\ g[0] = 0
    /\ \A i \in 1..Len(s) : g[i] = g[i - 1] + s[i].size

LEMMA SizeType ==
    ASSUME RoomBufferAssumption, NEW s \in Seq(Frame), NEW i \in 1..Len(s)
    PROVE  s[i].size \in Nat
<1>1. s[i] \in Frame
    OBVIOUS
<1> QED
    BY <1>1 DEF Frame, RoomBufferAssumption

LEMMA SumsExist ==
    ASSUME RoomBufferAssumption, NEW s \in Seq(Frame)
    PROVE  \E g : Sums(g, s)
<1>1. Len(s) \in Nat
    OBVIOUS
<1> DEFINE UpTo(g, n) == /\ g \in [0..n -> Nat]
                         /\ g[0] = 0
                         /\ \A i \in 1..n : g[i] = g[i - 1] + s[i].size
           T == {n \in Nat : n <= Len(s) => \E g : UpTo(g, n)}
<1>2. 0 \in T
    <2>1. UpTo([i \in 0..0 |-> 0], 0)
        OBVIOUS
    <2> QED
        BY <2>1
<1>3. ASSUME NEW n \in Nat, n \in T, n + 1 <= Len(s) PROVE \E g : UpTo(g, n + 1)
    <2>1. PICK g : UpTo(g, n)
        BY <1>1, <1>3
    <2>2. s[n + 1].size \in Nat
        BY <1>1, <1>3, SizeType
    <2> DEFINE h == [i \in 0..(n + 1) |-> IF i = n + 1 THEN g[n] + s[n + 1].size ELSE g[i]]
    <2>3. h \in [0..(n + 1) -> Nat]
        BY <2>1, <2>2
    <2>4. h[0] = 0
        BY <2>1
    <2>5. \A i \in 1..(n + 1) : h[i] = h[i - 1] + s[i].size
        BY <2>1, <2>2
    <2> HIDE DEF h
    <2> QED
        BY <2>3, <2>4, <2>5
<1> HIDE DEF UpTo
<1>4. \A n \in Nat : n \in T => n + 1 \in T
    BY <1>3
<1> HIDE DEF T
<1>5. Len(s) \in T
    BY <1>1, <1>2, <1>4, Induct
<1>6. PICK g : UpTo(g, Len(s))
    BY <1>1, <1>5 DEF T
<1>7. Sums(g, s)
    BY <1>6 DEF Sums, UpTo
<1> QED
    BY <1>7

LEMMA BytesIs ==
    ASSUME NEW s \in Seq(Frame), NEW g, Sums(g, s)
    PROVE  Bytes(s) = g[Len(s)]
<1>1. Len(s) \in Nat
    OBVIOUS
<1> DEFINE Eq(h) == h = [i \in 0..Len(s) |-> IF i = 0 THEN 0 ELSE h[i - 1] + s[i].size]
<1>2. Eq(g)
    <2>1. \A i \in 0..Len(s) : g[i] = IF i = 0 THEN 0 ELSE g[i - 1] + s[i].size
        BY <1>1 DEF Sums
    <2> QED
        BY <2>1 DEF Sums
<1>3. ASSUME NEW h, Eq(h) PROVE h = g
    <2> DEFINE T == {n \in Nat : n <= Len(s) => h[n] = g[n]}
    <2>1. 0 \in T
        BY <1>1, <1>3 DEF Sums
    <2>2. ASSUME NEW n \in Nat, n \in T PROVE n + 1 \in T
        BY <1>1, <1>3, <2>2 DEF Sums
    <2> HIDE DEF T
    <2>3. Nat \subseteq T
        BY <2>1, <2>2, Induct
    <2>4. \A n \in 0..Len(s) : h[n] = g[n]
        BY <1>1, <2>3 DEF T
    <2> QED
        BY <1>3, <2>4 DEF Sums
<1> DEFINE f == CHOOSE h : Eq(h)
<1> HIDE DEF Eq
<1>4. f = g
    BY <1>2, <1>3
<1>5. Bytes(s) = f[Len(s)]
    BY DEF Bytes, Eq
<1> QED
    BY <1>4, <1>5

LEMMA BytesType ==
    ASSUME RoomBufferAssumption, NEW s \in Seq(Frame)
    PROVE  Bytes(s) \in Nat
<1>1. PICK g : Sums(g, s)
    BY SumsExist
<1>2. Bytes(s) = g[Len(s)] /\ Len(s) \in 0..Len(s)
    BY <1>1, BytesIs
<1> QED
    BY <1>1, <1>2 DEF Sums

LEMMA BytesEmpty ==
    ASSUME RoomBufferAssumption PROVE Bytes(<<>>) = 0
<1>1. Sums([i \in 0..0 |-> 0], <<>>)
    BY DEF Sums
<1> QED
    BY <1>1, BytesIs

(* A sequence is as large as its first k frames and the others. *)
LEMMA BytesSplit ==
    ASSUME RoomBufferAssumption, NEW s \in Seq(Frame), NEW k \in 0..Len(s)
    PROVE  Bytes(s) = Bytes(SubSeq(s, 1, k)) + Bytes(DropFirst(s, k))
<1>1. PICK g : Sums(g, s)
    BY SumsExist
<1>2. Len(s) \in Nat /\ k \in Nat
    OBVIOUS
<1> DEFINE a == SubSeq(s, 1, k)
           b == DropFirst(s, k)
<1>3. a \in Seq(Frame) /\ Len(a) = k /\ \A i \in 1..k : a[i] = s[i]
    <2>1. 1 \in Int /\ k \in Int /\ \A i \in 1..k : s[i] \in Frame
        BY <1>2
    <2>2. a \in Seq(Frame) /\ Len(a) = IF 1 <= k THEN k - 1 + 1 ELSE 0
        BY <2>1, SubSeqProperties
    <2>3. \A i \in 1..(k - 1 + 1) : a[i] = s[1 + i - 1]
        BY <2>1, SubSeqProperties
    <2> HIDE DEF a
    <2> QED
        BY <1>2, <2>2, <2>3
<1>4. b \in Seq(Frame) /\ Len(b) = Len(s) - k /\ \A i \in 1..(Len(s) - k) : b[i] = s[k + i]
    BY DropFirstProperties
<1> HIDE DEF a, b
<1>5. Bytes(a) = g[k]
    <2> DEFINE h == [i \in 0..k |-> g[i]]
    <2>1. /\ g \in [0..Len(s) -> Nat] /\ g[0] = 0
          /\ \A i \in 1..Len(s) : g[i] = g[i - 1] + s[i].size
        BY <1>1 DEF Sums
    <2>2. h \in [0..k -> Nat] /\ h[0] = 0
        BY <1>2, <2>1
    <2>3. \A i \in 1..k : h[i] = h[i - 1] + a[i].size
        <3> SUFFICES ASSUME NEW i \in 1..k PROVE h[i] = h[i - 1] + a[i].size
            OBVIOUS
        <3>1. i \in 1..Len(s) /\ i \in 0..k /\ i - 1 \in 0..k
            BY <1>2
        <3>2. h[i] = g[i] /\ h[i - 1] = g[i - 1]
            BY <3>1
        <3> HIDE DEF h
        <3> QED
            BY <1>3, <2>1, <3>1, <3>2
    <2> HIDE DEF h
    <2>4. Sums(h, a)
        BY <1>3, <2>2, <2>3 DEF Sums
    <2>5. Bytes(a) = h[k]
        BY <1>3, <2>4, BytesIs
    <2> QED
        BY <1>2, <2>5 DEF h
<1>6. Bytes(b) = g[Len(s)] - g[k]
    <2> DEFINE N == Len(s) - k
               h == [i \in 0..N |-> g[k + i] - g[k]]
    <2>1. N \in Nat /\ k + N = Len(s)
        BY <1>2
    <2>2. \A i \in 0..N : k + i \in 0..Len(s) /\ (i # 0 => k + i \in 1..Len(s) /\ k + i - 1 = k + (i - 1))
        BY <1>2
    <2>3. \A i \in 1..N : h[i] = h[i - 1] + b[i].size
        <3> SUFFICES ASSUME NEW i \in 1..N PROVE h[i] = h[i - 1] + b[i].size
            OBVIOUS
        <3>1. g[k + i] = g[k + (i - 1)] + s[k + i].size
            BY <1>1, <2>2 DEF Sums
        <3>2. g[k] \in Nat /\ g[k + (i - 1)] \in Nat /\ s[k + i].size \in Nat
            <4>1. k + i \in 1..Len(s) /\ k + (i - 1) \in 0..Len(s) /\ k \in 0..Len(s)
                BY <1>2, <2>1
            <4>2. s[k + i].size \in Nat
                BY <4>1, SizeType
            <4> QED
                BY <1>1, <4>1, <4>2 DEF Sums
        <3>3. h[i] = g[k + i] - g[k] /\ h[i - 1] = g[k + (i - 1)] - g[k] /\ b[i] = s[k + i]
            BY <1>4, <2>1
        <3> QED
            BY SMTT(30), <3>1, <3>2, <3>3
    <2>4. h[0] = 0
        BY <1>1, <1>2 DEF Sums
    <2>5. h \in [0..N -> Nat]
        <3> HIDE DEF h
        <3> DEFINE T == {n \in Nat : n <= N => h[n] \in Nat}
        <3>1. 0 \in T
            BY <2>4
        <3>2. ASSUME NEW n \in Nat, n \in T PROVE n + 1 \in T
            <4> SUFFICES ASSUME n + 1 <= N PROVE h[n + 1] \in Nat
                OBVIOUS
            <4>1. h[n] \in Nat /\ n + 1 \in 1..N
                BY <2>1, <3>2
            <4>2. h[n + 1] = h[n] + b[n + 1].size
                BY <2>3, <4>1
            <4>3. b[n + 1].size \in Nat
                BY <1>4, <4>1, SizeType
            <4> QED
                BY <4>1, <4>2, <4>3
        <3> HIDE DEF T
        <3>3. Nat \subseteq T
            BY <3>1, <3>2, Induct
        <3>4. \A n \in 0..N : h[n] \in Nat
            BY <2>1, <3>3 DEF T
        <3> QED
            BY <3>4 DEF h
    <2>6. Sums(h, b)
        BY <1>4, <2>3, <2>4, <2>5 DEF Sums
    <2>7. h[N] = g[Len(s)] - g[k]
        BY <2>1
    <2> HIDE DEF h
    <2> QED
        BY <1>4, <2>6, <2>7, BytesIs
<1>7. Bytes(s) = g[Len(s)] /\ g[Len(s)] \in Nat /\ g[k] \in Nat
    BY <1>1, <1>2, BytesIs DEF Sums
<1> QED
    BY <1>5, <1>6, <1>7 DEF a, b

(* A frame appended adds its size. *)
LEMMA BytesAppend ==
    ASSUME RoomBufferAssumption, NEW s \in Seq(Frame), NEW f \in Frame
    PROVE  Bytes(Append(s, f)) = Bytes(s) + f.size
<1>1. PICK g : Sums(g, s)
    BY SumsExist
<1> DEFINE t == Append(s, f)
           N == Len(s)
           h == [i \in 0..(N + 1) |-> IF i = N + 1 THEN g[N] + f.size ELSE g[i]]
<1>2. /\ t \in Seq(Frame) /\ Len(t) = N + 1 /\ N \in Nat
      /\ t[N + 1] = f /\ \A i \in 1..N : t[i] = s[i]
    BY AppendProperties
<1>3. f.size \in Nat
    BY DEF Frame, RoomBufferAssumption
<1> HIDE DEF t, N
<1>4. g \in [0..N -> Nat] /\ g[0] = 0 /\ \A i \in 1..N : g[i] = g[i - 1] + s[i].size
    BY <1>1 DEF Sums, N
<1>5. h \in [0..(N + 1) -> Nat] /\ h[0] = 0
    BY <1>2, <1>3, <1>4
<1>6. \A i \in 1..(N + 1) : h[i] = h[i - 1] + t[i].size
    <2> SUFFICES ASSUME NEW i \in 1..(N + 1) PROVE h[i] = h[i - 1] + t[i].size
        OBVIOUS
    <2>1. CASE i = N + 1
        <3>1. N \in 0..(N + 1) /\ N + 1 \in 0..(N + 1) /\ N # N + 1
            BY <1>2
        <3>2. h[N] = g[N] /\ h[N + 1] = g[N] + f.size
            BY <3>1
        <3> HIDE DEF h
        <3> QED
            BY <1>2, <2>1, <3>2
    <2>2. CASE i \in 1..N
        <3>1. i \in 0..(N + 1) /\ i - 1 \in 0..(N + 1) /\ i # N + 1 /\ i - 1 # N + 1
            BY <1>2, <2>2
        <3>2. h[i] = g[i] /\ h[i - 1] = g[i - 1]
            BY <3>1
        <3> HIDE DEF h
        <3> QED
            BY <1>2, <1>4, <2>2, <3>2
    <2> QED
        BY <1>2, <2>1, <2>2
<1>7. h[N + 1] = g[N] + f.size
    BY <1>2
<1> HIDE DEF h
<1>8. Bytes(t) = h[N + 1]
    BY <1>2, <1>5, <1>6, BytesIs DEF Sums
<1>9. Bytes(s) = g[N]
    BY <1>1, BytesIs DEF N
<1> QED
    BY <1>7, <1>8, <1>9 DEF t

-----------------------------------------------------------------------------
(* The running total.                                                         *)

(* A running total that is right is right after any number of evictions. *)
LEMMA LeftIs ==
    ASSUME RoomBufferAssumption, NEW s \in Seq(Frame), NEW k \in 0..Len(s)
    PROVE  Left(s, Bytes(s), k) = Bytes(DropFirst(s, k))
<1> DEFINE d == DropFirst(s, k)
           b == SubSeq(s, 1, k)
<1>1. Bytes(s) = Bytes(b) + Bytes(d)
    BY BytesSplit
<1>2. d \in Seq(Frame)
    BY DropFirstProperties
<1>3. \A i \in 1..k : s[i] \in Frame
    OBVIOUS
<1>4. b \in Seq(Frame)
    BY <1>3, SubSeqProperties
<1> HIDE DEF d, b
<1>5. Bytes(b) \in Nat /\ Bytes(d) \in Nat
    BY <1>2, <1>4, BytesType
<1>6. Left(s, Bytes(s), k) = Bytes(s) - Bytes(b)
    BY DEF Left, b
<1> QED
    BY <1>1, <1>5, <1>6 DEF d

(* All that Push does to the buffer of its room, t the total before evictions. *)
Pushed(r, f, s, k) ==
    LET t == total[r] + f.size
    IN /\ Appended(r, f, s, k)
       /\ total' = [total EXCEPT ![r] = Left(s, t, k)]
       /\ ~PushOver(s, t, k)
       /\ \A j \in 0..(k - 1) : PushOver(s, t, j)

LEMMA PushCuts ==
    ASSUME RoomBufferAssumption, TypeOK, NEW r \in Rooms, NEW size \in Sizes, Push(r, size)
    PROVE  \E f \in Frame, s \in Seq(Frame) : \E k \in 0..Len(s) : Pushed(r, f, s, k)
<1> USE DEF TypeOK, RoomBufferAssumption
<1> DEFINE f == [n |-> Len(log[r]) + 1, size |-> size]
           s == Append(frames[r], f)
           t == total[r] + size
<1>1. f \in Frame /\ f.n = Len(log[r]) + 1 /\ f.size = size
    BY DEF Push, Frame
<1>2. s \in Seq(Frame)
    BY <1>1
<1>3. PICK k \in 0..Len(s) :
         /\ FirstStop(LAMBDA j : PushOver(s, t, j), k)
         /\ frames' = [frames EXCEPT ![r] = DropFirst(s, k)]
         /\ total' = [total EXCEPT ![r] = Left(s, t, k)]
    BY DEF Push
<1>4. ~PushOver(s, t, k) /\ \A j \in 0..(k - 1) : PushOver(s, t, j)
    BY <1>3 DEF FirstStop
<1>5. Len(s) - k <= MaxFrames
    BY <1>2, <1>4 DEF PushOver
<1>6. Len(DropFirst(s, k)) = Len(s) - k
    BY <1>2, DropFirstProperties
<1>7. log' = [log EXCEPT ![r] = Append(@, f)]
    BY DEF Push
<1>8. Len(DropFirst(s, k)) <= MaxFrames
    BY <1>5, <1>6
<1> HIDE DEF f
<1>9. Appended(r, f, s, k)
    BY <1>1, <1>3, <1>7, <1>8 DEF Appended
<1>10. t = total[r] + f.size
    BY <1>1
<1> HIDE DEF s, t
<1>11. Pushed(r, f, s, k)
    BY <1>3, <1>4, <1>9, <1>10 DEF Pushed
<1> QED
    BY <1>1, <1>2, <1>11

(* All that LoadRoom does to the buffer of its room: it cuts s, and s is      *)
(* what the room's rows hold unless the query failed, which counts as a loss. *)
Restored(r, s, k, q) ==
    /\ frames' = [frames EXCEPT ![r] = DropFirst(s, k)]
    /\ total' = [total EXCEPT ![r] = Left(s, Bytes(s), k)]
    /\ ~RestoreOver(s, Bytes(s), k)
    /\ \A j \in 0..(k - 1) : RestoreOver(s, Bytes(s), j)
    /\ q \in ById(RowsOf(r))
    /\ \A i \in 1..Len(s) : s[i] = q[i].frame
    /\ Len(s) = Cardinality(RowsOf(r)) \/ r \in lossy'

LEMMA LoadCuts ==
    ASSUME RoomBufferAssumption, TypeOK, IsFiniteSet(rows), NEW r \in Rooms, LoadRoom(r)
    PROVE  \E s \in Seq(Frame) : \E k \in 0..Len(s) : \E q : Restored(r, s, k, q)
<1> DEFINE R == RowsOf(r)
           N == Cardinality(R)
<1>1. N \in Nat
    BY FS_Subset, FS_CardinalityType DEF RowsOf
<1>2. PICK q \in ById(R), m \in 0..N :
         LET s == [i \in 1..m |-> q[i].frame]
         IN /\ IF m < N THEN faults' = faults + 1 /\ lossy' = lossy \union {r}
               ELSE UNCHANGED <<faults, lossy>>
            /\ \E k \in 0..m :
                  /\ FirstStop(LAMBDA j : RestoreOver(s, Bytes(s), j), k)
                  /\ frames' = [frames EXCEPT ![r] = DropFirst(s, k)]
                  /\ total' = [total EXCEPT ![r] = Left(s, Bytes(s), k)]
    BY DEF LoadRoom
<1> DEFINE s == [i \in 1..m |-> q[i].frame]
<1>3. q \in [1..N -> R]
    BY DEF ById
<1>4. \A x \in R : x.frame \in Frame
    BY DEF TypeOK, RowsOf, Row
<1>5. s \in Seq(Frame) /\ Len(s) = m
    BY <1>1, <1>3, <1>4
<1>6. m = N \/ r \in lossy'
    BY <1>1, <1>2
<1>7. PICK k \in 0..m :
         /\ FirstStop(LAMBDA j : RestoreOver(s, Bytes(s), j), k)
         /\ frames' = [frames EXCEPT ![r] = DropFirst(s, k)]
         /\ total' = [total EXCEPT ![r] = Left(s, Bytes(s), k)]
    BY <1>2
<1>8. ~RestoreOver(s, Bytes(s), k) /\ \A j \in 0..(k - 1) : RestoreOver(s, Bytes(s), j)
    BY <1>7 DEF FirstStop
<1>9. \A i \in 1..Len(s) : s[i] = q[i].frame
    BY <1>5
<1> HIDE DEF s
<1>10. Restored(r, s, k, q)
    BY <1>5, <1>6, <1>7, <1>8, <1>9 DEF Restored
<1> QED
    BY <1>5, <1>10

TotalInv == total \in [Rooms -> Nat] /\ TotalIsBytes

(* Evictions take from the total what they take from the buffer, and stop     *)
(* within the limit.                                                          *)
LEMMA NextTotal ==
    ASSUME RoomBufferAssumption, TypeOK, IsFiniteSet(rows), TotalInv, [Next]_vars
    PROVE  TotalInv'
<1> USE DEF TotalInv, TotalIsBytes
<1>0. MaxBytes \in Nat
    BY DEF RoomBufferAssumption
<1>1. CASE UNCHANGED <<frames, total>>
    BY <1>1
<1>2. ASSUME NEW r \in Rooms, NEW size \in Sizes, Push(r, size) PROVE TotalInv'
    <2>1. PICK f \in Frame, s \in Seq(Frame) : \E k \in 0..Len(s) : Pushed(r, f, s, k)
        BY <1>2, PushCuts
    <2>2. PICK k \in 0..Len(s) : Pushed(r, f, s, k)
        BY <2>1
    <2> DEFINE d == DropFirst(s, k)
    <2>3. d \in Seq(Frame) /\ Len(d) = Len(s) - k
        BY DropFirstProperties
    <2>4. s = Append(frames[r], f) /\ frames[r] \in Seq(Frame)
        BY <2>2 DEF Pushed, Appended, TypeOK
    <2>5. Bytes(s) = total[r] + f.size
        BY <2>4, BytesAppend
    <2>6. Left(s, total[r] + f.size, k) = Bytes(d)
        BY <2>5, LeftIs
    <2> HIDE DEF d
    <2>9. Bytes(d) \in Nat
        BY <2>3, BytesType
    <2>11. /\ frames' = [frames EXCEPT ![r] = d]
           /\ total' = [total EXCEPT ![r] = Bytes(d)]
        BY <2>2, <2>6 DEF Pushed, Appended, d
    <2>13. Bytes(d) <= MaxBytes
        <3>1. CASE k < Len(s)
            BY <1>0, <2>2, <2>6, <2>9, <3>1 DEF Pushed, PushOver
        <3>2. CASE ~(k < Len(s))
            <4>1. d = <<>>
                BY <2>3, <3>2
            <4> QED
                BY <1>0, <4>1, BytesEmpty
        <3> QED
            BY <3>1, <3>2
    <2> QED
        BY <2>9, <2>11, <2>13 DEF TypeOK
<1>3. ASSUME NEW r \in Rooms, LoadRoom(r) PROVE TotalInv'
    <2>1. PICK s \in Seq(Frame) : \E k \in 0..Len(s) : \E q : Restored(r, s, k, q)
        BY <1>3, LoadCuts
    <2>2. PICK k \in 0..Len(s) : \E q : Restored(r, s, k, q)
        BY <2>1
    <2> DEFINE d == DropFirst(s, k)
    <2>3. d \in Seq(Frame) /\ Len(d) = Len(s) - k
        BY DropFirstProperties
    <2>7. Left(s, Bytes(s), k) = Bytes(d)
        BY LeftIs
    <2> HIDE DEF d
    <2>4. Bytes(d) \in Nat
        BY <2>3, BytesType
    <2>5. /\ frames' = [frames EXCEPT ![r] = d]
          /\ total' = [total EXCEPT ![r] = Bytes(d)]
        BY <2>2, <2>7 DEF Restored, d
    <2>6. Bytes(d) <= MaxBytes
        <3>1. CASE k < Len(s)
            BY <1>0, <2>2, <2>4, <2>7, <3>1 DEF Restored, RestoreOver
        <3>2. CASE ~(k < Len(s))
            <4>1. d = <<>>
                BY <2>3, <3>2
            <4> QED
                BY <1>0, <4>1, BytesEmpty
        <3> QED
            BY <3>1, <3>2
    <2> QED
        BY <2>4, <2>5, <2>6 DEF TypeOK
<1>4. CASE Crash
    BY <1>0, <1>4, BytesEmpty DEF Crash
<1> QED
    BY <1>1, <1>2, <1>3, <1>4
    DEF Next, vars, aux, memory, table, boot, Insert, InsertFails, Prune, PruneFails,
        Boot, Serve, Idle

(* buffer.go: the running total is what the frames held add up to, for any    *)
(* sizes and limits, and never passes the byte limit.                         *)
THEOREM TotalIsRight == Spec => []TotalIsBytes
<1> USE RoomBufferAssumption
<1>1. Init => TotalInv
    BY BytesEmpty DEF Init, TotalInv, TotalIsBytes, RoomBufferAssumption
<1>2. BufferInv /\ TotalInv /\ [Next]_vars => TotalInv'
    BY NextTotal DEF BufferInv
<1>3. TotalInv => TotalIsBytes
    BY DEF TotalInv
<1> QED
    BY <1>1, <1>2, <1>3, BufferInvariant, PTL DEF Spec

-----------------------------------------------------------------------------
(* The table misses nothing.                                                  *)

(* The rows of room r are those of its frames after the mth. *)
Whole(r, m) ==
    /\ m \in 0..Stored(r)
    /\ {x.frame.n : x \in RowsOf(r)} = (m + 1)..Stored(r)
    /\ m = 0 \/ Stored(r) - m >= MaxFrames

LEMMA StoredType ==
    ASSUME BufferInv, NEW r \in Rooms
    PROVE  /\ Len(log[r]) \in Nat /\ Stored(r) \in Nat
           /\ \A x \in RowsOf(r) : x.frame.n \in 1..Stored(r)
<1> USE DEF BufferInv
<1>1. Len(log[r]) \in Nat
    BY DEF TypeOK
<1>2. \A x \in RowsOf(r) : x.frame.n \in 1..Len(log[r])
    BY DEF RowsOf, RowsLogged, Logged
<1>3. pc[r] = "insert" => Len(log[r]) > 0 /\ \A x \in RowsOf(r) : x.frame.n < Len(log[r])
    BY DEF InsertPending, RowsOf
<1> QED
    BY <1>1, <1>2, <1>3 DEF Stored

LEMMA TableIsWhole ==
    ASSUME BufferInv, TableComplete, NEW r \in Rooms, r \notin lossy
    PROVE  \E m : Whole(r, m)
<1>1. PICK m \in 0..Stored(r) :
        /\ \A x \in RowsOf(r) : x.frame.n > m
        /\ \A n \in (m + 1)..Stored(r) : \E x \in RowsOf(r) : x.frame.n = n
        /\ m = 0 \/ Stored(r) - m >= MaxFrames
    BY DEF TableComplete
<1>2. \A x \in RowsOf(r) : x.frame.n \in (m + 1)..Stored(r)
    BY <1>1, StoredType
<1>3. {x.frame.n : x \in RowsOf(r)} = (m + 1)..Stored(r)
    BY <1>1, <1>2
<1> QED
    BY <1>1, <1>3 DEF Whole

(* Rows of one room are numbered in the order of their ids. *)
LEMMA NewerNumbers ==
    ASSUME BufferInv, NEW r \in Rooms, NEW x \in RowsOf(r), NEW y \in RowsOf(r)
    PROVE  /\ y.id > x.id <=> y.frame.n > x.frame.n
           /\ y.frame.n = x.frame.n => y = x
<1>1. x \in rows /\ y \in rows /\ x.room = y.room
    BY DEF RowsOf
<1>2. x.id \in Nat /\ y.id \in Nat /\ x.frame.n \in Nat /\ y.frame.n \in Nat
    <2>1. x \in Row /\ y \in Row /\ x.frame.n \in 1..Stored(r) /\ y.frame.n \in 1..Stored(r)
        BY <1>1, StoredType DEF BufferInv, TypeOK
    <2> QED
        BY <2>1, StoredType DEF Row
<1>3. /\ x.id = y.id => x = y
      /\ x.id < y.id => x.frame.n < y.frame.n
      /\ y.id < x.id => y.frame.n < x.frame.n
    BY <1>1 DEF BufferInv, RowsOrdered
<1> QED
    BY <1>2, <1>3

(* In a table that misses nothing, as many rows are newer than x as frames    *)
(* were stored after it.                                                      *)
LEMMA NewerCount ==
    ASSUME BufferInv, NEW r \in Rooms, NEW m, Whole(r, m), NEW x \in RowsOf(r)
    PROVE  Cardinality({y \in RowsOf(r) : y.id > x.id}) = Stored(r) - x.frame.n
<1> DEFINE S == {y \in RowsOf(r) : y.id > x.id}
           T == (x.frame.n + 1)..Stored(r)
           number == [y \in S |-> y.frame.n]
<1>1. m \in Nat /\ Stored(r) \in Nat /\ x.frame.n \in 1..Stored(r) /\ x.frame.n > m
    <2>1. x.frame.n \in (m + 1)..Stored(r)
        BY DEF Whole
    <2> QED
        BY <2>1, StoredType DEF Whole
<1>2. IsFiniteSet(S)
    BY FS_Subset DEF BufferInv, RowsOf
<1>3. number \in [S -> T]
    <2>1. \A y \in S : y.frame.n \in 1..Stored(r) /\ y.frame.n > x.frame.n
        BY StoredType, NewerNumbers
    <2> QED
        BY <1>1, <2>1
<1>4. \A y, z \in S : number[y] = number[z] => y = z
    BY NewerNumbers
<1>5. \A n \in T : \E y \in S : number[y] = n
    <2> SUFFICES ASSUME NEW n \in T PROVE \E y \in S : y.frame.n = n
        OBVIOUS
    <2>1. n \in (m + 1)..Stored(r) /\ n > x.frame.n
        BY <1>1
    <2>2. PICK y \in RowsOf(r) : y.frame.n = n
        BY <2>1 DEF Whole
    <2> QED
        BY <2>1, <2>2, NewerNumbers
<1> HIDE DEF number
<1>6. number \in Bijection(S, T)
    <2>1. number \in Injection(S, T)
        BY <1>3, <1>4 DEF Injection, IsInjective
    <2>2. number \in Surjection(S, T)
        BY <1>3, <1>5 DEF Surjection
    <2> QED
        BY <2>1, <2>2 DEF Bijection
<1>7. Cardinality(T) = Cardinality(S)
    BY <1>2, <1>6, FS_Bijection DEF ExistsBijection
<1>8. Cardinality(T) = Stored(r) - x.frame.n
    <2>1. Cardinality(T) =
             IF x.frame.n + 1 > Stored(r) THEN 0 ELSE Stored(r) - (x.frame.n + 1) + 1
        <3>1. x.frame.n + 1 \in Int /\ Stored(r) \in Int
            BY <1>1
        <3> DEFINE a == x.frame.n + 1
        <3> HIDE DEF a
        <3>2. Cardinality(a..Stored(r)) = IF a > Stored(r) THEN 0 ELSE Stored(r) - a + 1
            BY <3>1, FS_Interval DEF a
        <3> QED
            BY <3>2 DEF a
    <2> QED
        BY <1>1, <2>1
<1> QED
    BY <1>7, <1>8

(* A prune leaves a whole table whole. *)
LEMMA PruneKeepsWhole ==
    ASSUME RoomBufferAssumption, BufferInv, NEW r \in Rooms, NEW m, Whole(r, m),
           pc[r] # "insert", Prune(r)
    PROVE  \E k : Whole(r, k)'
<1> DEFINE N == Stored(r)
<1>1. m \in 0..N /\ N \in Nat /\ MaxFrames \in Nat \ {0}
    BY StoredType DEF Whole, RoomBufferAssumption
<1>2. RowsOf(r)' = Newest(r) /\ Stored(r)' = N
    BY DEF Prune, RowsOf, Newest, Stored, BufferInv, TypeOK
<1>8. m = 0 \/ N - m >= MaxFrames
    BY DEF Whole
<1> HIDE DEF N
<1>3. PICK k \in 0..N :
         /\ k = IF N - m >= MaxFrames THEN N - MaxFrames ELSE m
         /\ m <= k
         /\ k = 0 \/ N - k >= MaxFrames
    <2>1. CASE N - m >= MaxFrames
        <3>1. N - MaxFrames \in 0..N /\ m <= N - MaxFrames /\ N - (N - MaxFrames) >= MaxFrames
            BY <1>1, <2>1
        <3> QED
            BY <2>1, <3>1
    <2>2. CASE ~(N - m >= MaxFrames)
        BY <1>1, <1>8, <2>2
    <2> QED
        BY <2>1, <2>2
<1>4. \A x \in RowsOf(r) : x \in Newest(r) <=> N - x.frame.n < MaxFrames
    BY NewerCount DEF Newest, N
<1>5. \A n \in (m + 1)..N : n > k <=> N - n < MaxFrames
    BY <1>1, <1>3
<1>6. {x.frame.n : x \in Newest(r)} = (k + 1)..N
    <2>1. {x.frame.n : x \in RowsOf(r)} = (m + 1)..N
        BY DEF Whole, N
    <2>2. ASSUME NEW x \in Newest(r) PROVE x.frame.n \in (k + 1)..N
        <3>1. x \in RowsOf(r)
            BY DEF Newest
        <3>2. x.frame.n \in (m + 1)..N /\ x.frame.n > k
            BY <1>4, <1>5, <2>1, <3>1
        <3> QED
            BY <1>1, <1>3, <3>2
    <2>3. ASSUME NEW n \in (k + 1)..N PROVE \E x \in Newest(r) : x.frame.n = n
        <3>1. n \in (m + 1)..N /\ n > k
            BY <1>1, <1>3
        <3>2. PICK x \in RowsOf(r) : x.frame.n = n
            BY <2>1, <3>1
        <3> QED
            BY <1>4, <1>5, <3>1, <3>2
    <2> QED
        BY <2>2, <2>3
<1>7. Whole(r, k)'
    BY <1>2, <1>3, <1>6 DEF Whole, N
<1> QED
    BY <1>7

LEMMA NextTableComplete ==
    ASSUME RoomBufferAssumption, BufferInv, TableComplete, [Next]_vars
    PROVE  TableComplete'
<1> USE DEF BufferInv
<1>0. lossy \subseteq lossy'
    BY ZenonT(60) DEF Next, vars, aux, memory, table, boot, Push, Insert, InsertFails, Prune,
           PruneFails, LoadRoom, Crash, Boot, Serve, Idle, TypeOK
<1> SUFFICES ASSUME NEW q \in Rooms, q \notin lossy'
             PROVE  \E m : Whole(q, m)'
    <2>1. ASSUME NEW q \in Rooms, NEW m, Whole(q, m)'
          PROVE  (\E k \in 0..Stored(q) :
                    /\ \A x \in RowsOf(q) : x.frame.n > k
                    /\ \A n \in (k + 1)..Stored(q) : \E x \in RowsOf(q) : x.frame.n = n
                    /\ k = 0 \/ Stored(q) - k >= MaxFrames)'
        <3>1. \A x \in RowsOf(q)' : x.frame.n \in (m + 1)..(Stored(q)')
            BY <2>1 DEF Whole
        <3>2. m \in 0..(Stored(q)')
            BY <2>1 DEF Whole
        <3>3. \A x \in RowsOf(q)' : x.frame.n > m
            BY <3>1, <3>2
        <3> QED
            BY <2>1, <3>2, <3>3 DEF Whole
    <2> QED
        BY <2>1 DEF TableComplete
<1>1. PICK m : Whole(q, m)
    BY <1>0, TableIsWhole
<1>2. CASE RowsOf(q)' = RowsOf(q) /\ Stored(q)' = Stored(q)
    <2>1. Whole(q, m)'
        BY <1>1, <1>2 DEF Whole
    <2> QED
        BY <2>1
<1>3. CASE UNCHANGED <<rows, log, pc>>
    BY <1>2, <1>3 DEF RowsOf, Stored
<1>4. ASSUME NEW r \in Rooms, NEW size \in Sizes, Push(r, size)
      PROVE  \E k : Whole(q, k)'
    <2>1. RowsOf(q)' = RowsOf(q)
        BY <1>4 DEF Push, RowsOf, table
    <2>2. CASE q # r
        BY <1>2, <1>4, <2>1, <2>2 DEF Push, Stored, TypeOK
    <2>3. CASE q = r
        <3>1. log[q] \in Seq(Frame) /\ \E f : log' = [log EXCEPT ![q] = Append(@, f)]
            BY <1>4, <2>3 DEF Push, TypeOK
        <3>2. Len(log'[q]) = Len(log[q]) + 1 /\ Len(log[q]) \in Nat
            BY <3>1 DEF TypeOK
        <3>3. pc[q] = "idle" /\ pc'[q] = "insert"
            BY <1>4, <2>3 DEF Push, TypeOK
        <3> QED
            BY <1>2, <2>1, <3>2, <3>3 DEF Stored
    <2> QED
        BY <2>2, <2>3
<1>5. ASSUME NEW r \in Rooms, Insert(r)
      PROVE  \E k : Whole(q, k)'
    <2>1. PICK x \in Row : Inserted(r, x)
        BY <1>5, InsertEffect
    <2>2. log' = log /\ pc' = [pc EXCEPT ![r] = "prune"] /\ pc[r] = "insert"
        BY <1>5 DEF Insert, aux
    <2>3. CASE q # r
        BY <1>2, <2>1, <2>2, <2>3 DEF Inserted, RowsOf, Stored, TypeOK
    <2>4. CASE q = r
        <3>1. /\ RowsOf(q)' = RowsOf(q) \union {x}
              /\ x.frame.n = Stored(q) + 1
              /\ Stored(q)' = Stored(q) + 1
            <4>1. Len(log[q]) \in Nat
                BY StoredType
            <4> QED
                BY <2>1, <2>2, <2>4, <4>1 DEF Inserted, RowsOf, Stored, TypeOK
        <3>2. Stored(q) \in Nat /\ m \in 0..Stored(q) /\ MaxFrames \in Nat
            BY <1>1, StoredType DEF Whole, RoomBufferAssumption
        <3>3. {y.frame.n : y \in RowsOf(q)} \union {Stored(q) + 1} = (m + 1)..(Stored(q) + 1)
            BY <1>1, <3>2 DEF Whole
        <3>4. {y.frame.n : y \in RowsOf(q) \union {x}} =
                 {y.frame.n : y \in RowsOf(q)} \union {x.frame.n}
            OBVIOUS
        <3>5. m = 0 \/ Stored(q) + 1 - m >= MaxFrames
            BY <1>1, <3>2 DEF Whole
        <3>6. Whole(q, m)'
            BY <3>1, <3>2, <3>3, <3>4, <3>5 DEF Whole
        <3> QED
            BY <3>6
    <2> QED
        BY <2>3, <2>4
<1>6. ASSUME NEW r \in Rooms, Prune(r)
      PROVE  \E k : Whole(q, k)'
    <2>1. log' = log /\ pc' = [pc EXCEPT ![r] = "idle"] /\ pc[r] = "prune"
        BY <1>6 DEF Prune
    <2>2. CASE q # r
        <3>1. RowsOf(q)' = RowsOf(q)
            BY <1>6, <2>2 DEF Prune, Newest, RowsOf
        <3> QED
            BY <1>2, <2>1, <2>2, <3>1 DEF Stored, TypeOK
    <2>3. CASE q = r
        BY <1>1, <1>6, <2>1, <2>3, PruneKeepsWhole
    <2> QED
        BY <2>2, <2>3
<1>7. ASSUME NEW r \in Rooms, InsertFails(r) \/ PruneFails(r)
      PROVE  \E k : Whole(q, k)'
    <2>1. RowsOf(q)' = RowsOf(q) /\ log' = log
        BY <1>7 DEF InsertFails, PruneFails, RowsOf, table
    <2>2. pc[q] = "insert" <=> pc'[q] = "insert"
        BY <1>7 DEF InsertFails, PruneFails, TypeOK
    <2> QED
        BY <1>2, <2>1, <2>2 DEF Stored
<1>8. CASE Crash
    <2>1. RowsOf(q)' = RowsOf(q) /\ log' = log /\ pc[q] # "insert" /\ pc'[q] # "insert"
        BY <1>8 DEF Crash, RowsOf, table
    <2> QED
        BY <1>2, <2>1 DEF Stored
<1> QED
    BY <1>3, <1>4, <1>5, <1>6, <1>7, <1>8
    DEF Next, vars, aux, memory, table, boot, LoadRoom, Boot, Serve, Idle

-----------------------------------------------------------------------------
(* What is left of a log.                                                     *)

LEMMA SameFrames ==
    ASSUME NEW s \in Seq(Frame), NEW t \in Seq(Frame), Len(s) = Len(t),
           \A i \in 1..Len(s) : s[i] = t[i]
    PROVE  s = t
BY SeqEqual

LEMMA DropDrop ==
    ASSUME NEW s \in Seq(Frame), NEW k \in 0..Len(s), NEW j \in 0..(Len(s) - k)
    PROVE  DropFirst(DropFirst(s, k), j) = DropFirst(s, k + j)
<1> DEFINE a == DropFirst(s, k)
           b == DropFirst(a, j)
           c == DropFirst(s, k + j)
<1>1. Len(s) \in Nat /\ k + j \in 0..Len(s)
    OBVIOUS
<1>2. a \in Seq(Frame) /\ Len(a) = Len(s) - k /\ \A i \in 1..(Len(s) - k) : a[i] = s[k + i]
    BY DropFirstProperties
<1>3. c \in Seq(Frame) /\ Len(c) = Len(s) - (k + j)
      /\ \A i \in 1..(Len(s) - (k + j)) : c[i] = s[(k + j) + i]
    BY <1>1, DropFirstProperties
<1> HIDE DEF a, c
<1>8. j \in 0..Len(a) /\ a \in Seq(Frame)
    BY <1>2
<1>4. b \in Seq(Frame) /\ Len(b) = Len(a) - j /\ \A i \in 1..(Len(a) - j) : b[i] = a[j + i]
    BY <1>8, DropFirstProperties
<1> HIDE DEF b
<1>5. Len(b) = Len(c)
    <2>1. (Len(s) - k) - j = Len(s) - (k + j)
        BY <1>1
    <2> QED
        BY <1>2, <1>3, <1>4, <2>1
<1>6. ASSUME NEW i \in 1..Len(b) PROVE b[i] = c[i]
    <2>1. i \in 1..(Len(a) - j) /\ j + i \in 1..(Len(s) - k) /\ i \in 1..(Len(s) - (k + j))
        BY <1>1, <1>2, <1>4
    <2>2. k + (j + i) = (k + j) + i
        OBVIOUS
    <2> QED
        BY <1>2, <1>3, <1>4, <2>1, <2>2
<1>7. b = c
    BY <1>3, <1>4, <1>5, <1>6, SameFrames
<1> QED
    BY <1>7 DEF a, b, c

LEMMA DropAppend ==
    ASSUME NEW s \in Seq(Frame), NEW f \in Frame, NEW k \in 0..Len(s)
    PROVE  DropFirst(Append(s, f), k) = Append(DropFirst(s, k), f)
<1> DEFINE t == Append(s, f)
           a == DropFirst(s, k)
           b == Append(a, f)
           c == DropFirst(t, k)
<1>1. Len(s) \in Nat /\ t \in Seq(Frame) /\ Len(t) = Len(s) + 1
      /\ t[Len(s) + 1] = f /\ \A i \in 1..Len(s) : t[i] = s[i]
    BY AppendProperties
<1>2. a \in Seq(Frame) /\ Len(a) = Len(s) - k /\ \A i \in 1..(Len(s) - k) : a[i] = s[k + i]
    BY DropFirstProperties
<1> HIDE DEF t, a
<1>3. b \in Seq(Frame) /\ Len(b) = Len(a) + 1
      /\ b[Len(a) + 1] = f /\ \A i \in 1..Len(a) : b[i] = a[i]
    BY <1>2, AppendProperties
<1>4. k \in 0..Len(t)
    BY <1>1
<1>5. c \in Seq(Frame) /\ Len(c) = Len(t) - k /\ \A i \in 1..(Len(t) - k) : c[i] = t[k + i]
    BY ZenonT(60), <1>1, <1>4, DropFirstProperties
<1> HIDE DEF b, c
<1>6. Len(b) = Len(c)
    BY <1>1, <1>2, <1>3, <1>5
<1>7. ASSUME NEW i \in 1..Len(b) PROVE b[i] = c[i]
    <2>1. c[i] = t[k + i]
        BY <1>5, <1>6
    <2>2. CASE i = Len(a) + 1
        BY <1>1, <1>2, <1>3, <2>1, <2>2
    <2>3. CASE i \in 1..Len(a)
        BY <1>1, <1>2, <1>3, <2>1, <2>3
    <2> QED
        BY <1>2, <1>3, <2>2, <2>3
<1>8. b = c
    BY <1>3, <1>5, <1>6, <1>7, SameFrames
<1> QED
    BY <1>8 DEF a, b, c, t

(* w is the end of L after its first k frames, within the byte limit, and no  *)
(* longer end is within both limits.                                          *)
EndOf(w, L, k) ==
    /\ k \in 0..Len(L)
    /\ w = DropFirst(L, k)
    /\ Bytes(w) <= MaxBytes
    /\ \A j \in 0..(k - 1) : ~Fits(DropFirst(L, j))

(* Push keeps a buffer the end of its log. *)
LEMMA PushKeepsEnd ==
    ASSUME RoomBufferAssumption, NEW L \in Seq(Frame), NEW f \in Frame, NEW w, NEW k,
           EndOf(w, L, k), NEW c \in 0..Len(Append(w, f)),
           NEW t, t = Bytes(w) + f.size, ~PushOver(Append(w, f), t, c),
           \A i \in 0..(c - 1) : PushOver(Append(w, f), t, i)
    PROVE  EndOf(DropFirst(Append(w, f), c), Append(L, f), k + c)
<1> DEFINE M == Append(L, f)
           s == Append(w, f)
           d == DropFirst(s, c)
<1>1. /\ k \in 0..Len(L) /\ w = DropFirst(L, k)
      /\ \A j \in 0..(k - 1) : ~Fits(DropFirst(L, j))
    BY DEF EndOf
<1>2. w \in Seq(Frame) /\ Len(w) = Len(L) - k /\ Len(L) \in Nat
    BY <1>1, DropFirstProperties
<1>3. M \in Seq(Frame) /\ Len(M) = Len(L) + 1 /\ s \in Seq(Frame) /\ Len(s) = Len(w) + 1
    BY <1>2, AppendProperties
<1>4. s = DropFirst(M, k)
    BY <1>1, DropAppend
<1> HIDE DEF M, s
<1>5. MaxFrames \in Nat /\ MaxBytes \in Nat /\ f.size \in Nat
    BY DEF RoomBufferAssumption, Frame
<1>6. c \in 0..Len(s) /\ ~PushOver(s, t, c) /\ \A i \in 0..(c - 1) : PushOver(s, t, i)
    BY DEF s
<1>7. k \in 0..Len(M) /\ Len(s) = Len(M) - k /\ k + c \in 0..Len(M)
    BY <1>1, <1>2, <1>3, <1>6
<1>8. \A i \in 0..Len(s) : DropFirst(s, i) = DropFirst(M, k + i)
    BY <1>3, <1>4, <1>7, DropDrop
<1>14. \A i \in 0..Len(s) : Left(s, t, i) = Bytes(DropFirst(s, i))
    <2>1. t = Bytes(s)
        BY <1>2, BytesAppend DEF s
    <2> QED
        BY <1>3, <2>1, LeftIs
<1>9. d \in Seq(Frame) /\ Len(d) = Len(s) - c
    BY <1>3, <1>6, DropFirstProperties
<1>10. Bytes(d) <= MaxBytes
    <2>1. CASE c < Len(s)
        <3>1. ~(Bytes(d) > MaxBytes)
            BY <1>6, <1>14, <2>1 DEF PushOver
        <3>2. Bytes(d) \in Nat
            BY <1>9, BytesType
        <3> QED
            BY <1>5, <3>1, <3>2
    <2>2. CASE ~(c < Len(s))
        <3>1. d = <<>>
            BY <1>3, <1>6, <1>9, <2>2
        <3> QED
            BY <1>5, <3>1, BytesEmpty
    <2> QED
        BY <2>1, <2>2
<1>11. ASSUME NEW j \in 0..(k + c - 1) PROVE ~Fits(DropFirst(M, j))
    <2>1. CASE j < k
        <3> DEFINE a == DropFirst(L, j)
        <3>1. j \in 0..Len(L) /\ j \in 0..(k - 1)
            BY <1>1, <1>2, <2>1
        <3>2. a \in Seq(Frame) /\ Len(a) = Len(L) - j /\ DropFirst(M, j) = Append(a, f)
            BY <3>1, DropFirstProperties, DropAppend DEF M
        <3>3. ~Fits(a)
            BY <1>1, <3>1
        <3> HIDE DEF a
        <3>4. Len(Append(a, f)) = Len(a) + 1 /\ Bytes(Append(a, f)) = Bytes(a) + f.size
            BY ZenonT(60), <3>2, AppendProperties, BytesAppend
        <3>5. Len(a) \in Nat /\ Bytes(a) \in Nat
            BY <3>2, BytesType
        <3> QED
            BY SMTT(30), <1>5, <3>2, <3>3, <3>4, <3>5 DEF Fits
    <2>2. CASE ~(j < k)
        <3> DEFINE i == j - k
        <3>1. i \in 0..(c - 1) /\ i \in 0..Len(s) /\ k + i = j
            BY <1>1, <1>2, <1>3, <1>6, <2>2
        <3> HIDE DEF i
        <3>2. PushOver(s, t, i) /\ DropFirst(M, j) = DropFirst(s, i)
            BY <1>6, <1>8, <3>1
        <3>3. /\ DropFirst(s, i) \in Seq(Frame)
              /\ Len(DropFirst(s, i)) = Len(s) - i /\ Bytes(DropFirst(s, i)) \in Nat
            BY SMTT(30), <1>3, <3>1, DropFirstProperties, BytesType
        <3>4. Len(s) - i \in Nat
            BY <1>3, <3>1
        <3> QED
            BY <1>5, <1>14, <3>1, <3>2, <3>3, <3>4 DEF Fits, PushOver
    <2> QED
        BY <2>1, <2>2
<1>12. d = DropFirst(M, k + c)
    BY <1>6, <1>8
<1> HIDE DEF d
<1>13. EndOf(d, M, k + c)
    BY <1>7, <1>10, <1>11, <1>12 DEF EndOf
<1> QED
    BY <1>13 DEF d, M, s

(* A reload makes a buffer the end of its log when what it read is an end of  *)
(* the log, as long as the count limit asks unless the log is shorter.        *)
LEMMA RestoreMakesEnd ==
    ASSUME RoomBufferAssumption, NEW L \in Seq(Frame), NEW m \in 0..Len(L),
           m = 0 \/ Len(L) - m >= MaxFrames,
           NEW s, s = DropFirst(L, m), NEW c \in 0..Len(s),
           ~RestoreOver(s, Bytes(s), c),
           \A i \in 0..(c - 1) : RestoreOver(s, Bytes(s), i)
    PROVE  EndOf(DropFirst(s, c), L, m + c)
<1> DEFINE d == DropFirst(s, c)
<1>1. s \in Seq(Frame) /\ Len(s) = Len(L) - m /\ Len(L) \in Nat
    BY DropFirstProperties
<1>2. MaxFrames \in Nat /\ MaxBytes \in Nat
    BY DEF RoomBufferAssumption
<1>3. \A i \in 0..Len(s) : DropFirst(s, i) = DropFirst(L, m + i)
    BY <1>1, DropDrop
<1>9. \A i \in 0..Len(s) : Left(s, Bytes(s), i) = Bytes(DropFirst(s, i))
    BY <1>1, LeftIs
<1>4. d \in Seq(Frame) /\ Len(d) = Len(s) - c
    <2>1. s \in Seq(Frame) /\ c \in 0..Len(s)
        BY <1>1
    <2> QED
        BY <2>1, DropFirstProperties
<1>5. Bytes(d) <= MaxBytes
    <2>1. CASE c < Len(s)
        <3>1. ~(Bytes(d) > MaxBytes)
            BY <1>9, <2>1 DEF RestoreOver
        <3>2. Bytes(d) \in Nat
            BY <1>4, BytesType
        <3> QED
            BY <1>2, <3>1, <3>2
    <2>2. CASE ~(c < Len(s))
        <3>1. d = <<>>
            BY <1>1, <1>4, <2>2
        <3> QED
            BY <1>2, <3>1, BytesEmpty
    <2> QED
        BY <2>1, <2>2
<1>6. ASSUME NEW j \in 0..(m + c - 1) PROVE ~Fits(DropFirst(L, j))
    <2>1. CASE j < m
        <3>1. j \in 0..Len(L) /\ Len(L) - j > MaxFrames
            BY <1>1, <1>2, <2>1
        <3>2. Len(DropFirst(L, j)) = Len(L) - j
            BY <3>1, DropFirstProperties
        <3>3. Len(L) - j \in Nat
            BY <1>1, <3>1
        <3> QED
            BY <1>2, <3>1, <3>2, <3>3 DEF Fits
    <2>2. CASE ~(j < m)
        <3> DEFINE i == j - m
        <3>1. i \in 0..(c - 1) /\ i \in 0..Len(s) /\ m + i = j
            BY <1>1, <2>2
        <3> HIDE DEF i
        <3>2. RestoreOver(s, Bytes(s), i) /\ DropFirst(L, j) = DropFirst(s, i)
            BY <1>3, <3>1
        <3>3. Bytes(DropFirst(s, i)) \in Nat
            BY <1>1, <3>1, DropFirstProperties, BytesType
        <3> QED
            BY <1>2, <1>9, <3>1, <3>2, <3>3 DEF Fits, RestoreOver
    <2> QED
        BY <2>1, <2>2
<1>7. d = DropFirst(L, m + c) /\ m + c \in 0..Len(L)
    BY <1>1, <1>3
<1> HIDE DEF d
<1>8. EndOf(d, L, m + c)
    BY <1>5, <1>6, <1>7 DEF EndOf
<1> QED
    BY <1>8 DEF d

(* A strictly increasing map of 1..n to itself is the identity. *)
LEMMA IncreasingIsIdentity ==
    ASSUME NEW n \in Nat, NEW h \in [1..n -> 1..n],
           \A i, j \in 1..n : i < j => h[i] < h[j]
    PROVE  \A i \in 1..n : h[i] = i
<1> DEFINE U == {i \in Nat : i \in 1..n => h[i] >= i}
           D == {i \in Nat : n - i \in 1..n => h[n - i] <= n - i}
<1>1. Nat \subseteq U
    <2>1. 0 \in U
        OBVIOUS
    <2>2. ASSUME NEW i \in Nat, i \in U PROVE i + 1 \in U
        <3> SUFFICES ASSUME i + 1 \in 1..n PROVE h[i + 1] >= i + 1
            OBVIOUS
        <3>1. h[i + 1] \in 1..n
            OBVIOUS
        <3>2. CASE i = 0
            BY <3>1, <3>2
        <3>3. CASE i # 0
            <4>1. i \in 1..n /\ i < i + 1
                BY <3>3
            <4>2. h[i] >= i /\ h[i] < h[i + 1] /\ h[i] \in 1..n
                BY <2>2, <4>1
            <4> QED
                BY <3>1, <4>2
        <3> QED
            BY <3>2, <3>3
    <2> HIDE DEF U
    <2> QED
        BY <2>1, <2>2, Induct
<1>2. Nat \subseteq D
    <2>1. 0 \in D
        OBVIOUS
    <2>2. ASSUME NEW i \in Nat, i \in D PROVE i + 1 \in D
        <3> DEFINE a == n - i
                   b == n - (i + 1)
        <3> SUFFICES ASSUME b \in 1..n PROVE h[b] <= b
            OBVIOUS
        <3>1. a \in 1..n /\ b < a /\ b = a - 1
            OBVIOUS
        <3>2. h[a] <= a /\ h[a] \in 1..n
            BY <2>2, <3>1
        <3> HIDE DEF a, b
        <3>3. h[b] < h[a] /\ h[b] \in 1..n
            BY <3>1
        <3> QED
            BY <3>1, <3>2, <3>3
    <2> HIDE DEF D
    <2> QED
        BY <2>1, <2>2, Induct
<1>3. ASSUME NEW i \in 1..n PROVE h[i] = i
    <2>1. i \in U
        BY <1>1
    <2>2. n - i \in D /\ n - (n - i) = i
        BY <1>2
    <2>3. h[i] \in 1..n
        OBVIOUS
    <2>4. h[i] >= i /\ h[i] <= i
        BY <2>1, <2>2
    <2> QED
        BY <2>3, <2>4
<1> QED
    BY <1>3

(* The rows of a whole table, in order of id, hold the end of the log.        *)
LEMMA RowsHoldEnd ==
    ASSUME BufferInv, NEW r \in Rooms, NEW m, Whole(r, m), pc[r] # "insert",
           NEW q \in ById(RowsOf(r)), NEW s \in Seq(Frame),
           Len(s) = Cardinality(RowsOf(r)), \A i \in 1..Len(s) : s[i] = q[i].frame
    PROVE  s = DropFirst(log[r], m) /\ m \in 0..Len(log[r])
<1> DEFINE R == RowsOf(r)
           N == Cardinality(R)
           L == log[r]
           number == [x \in R |-> x.frame.n]
           h == [i \in 1..N |-> q[i].frame.n - m]
<1>1. L \in Seq(Frame) /\ Len(L) \in Nat /\ Stored(r) = Len(L) /\ m \in 0..Len(L)
    BY StoredType DEF Stored, Whole, BufferInv, TypeOK
<1>2. {x.frame.n : x \in R} = (m + 1)..Len(L)
    BY <1>1 DEF Whole
<1>3. IsFiniteSet(R) /\ N \in Nat
    BY FS_Subset, FS_CardinalityType DEF BufferInv, RowsOf
<1>4. N = Len(L) - m
    <2>1. number \in [R -> (m + 1)..Len(L)]
        BY <1>2
    <2>2. \A x, y \in R : number[x] = number[y] => x = y
        BY NewerNumbers
    <2>3. \A n \in (m + 1)..Len(L) : \E x \in R : number[x] = n
        BY <1>2
    <2> HIDE DEF number
    <2>4. number \in Bijection(R, (m + 1)..Len(L))
        <3>1. number \in Injection(R, (m + 1)..Len(L))
            BY <2>1, <2>2 DEF Injection, IsInjective
        <3>2. number \in Surjection(R, (m + 1)..Len(L))
            BY <2>1, <2>3 DEF Surjection
        <3> QED
            BY <3>1, <3>2 DEF Bijection
    <2>5. Cardinality((m + 1)..Len(L)) = N
        BY <1>3, <2>4, FS_Bijection DEF ExistsBijection
    <2> DEFINE a == m + 1
               b == Len(L)
    <2> HIDE DEF a, b
    <2>6. a \in Int /\ b \in Int
        BY <1>1 DEF a, b
    <2>7. Cardinality(a..b) = IF a > b THEN 0 ELSE b - a + 1
        BY <2>6, FS_Interval
    <2>8. N = IF a > b THEN 0 ELSE b - a + 1
        BY <2>5, <2>7 DEF a, b
    <2> HIDE DEF L, N
    <2> QED
        BY <1>1, <2>8 DEF a, b
<1>5. /\ q \in [1..N -> R]
      /\ \A i, j \in 1..N : i < j => q[i].id < q[j].id
    BY DEF ById
<1>6. \A i \in 1..N : q[i] \in R /\ q[i].frame.n \in (m + 1)..Len(L) /\ q[i].frame = L[q[i].frame.n]
    <2> SUFFICES ASSUME NEW i \in 1..N
                 PROVE  /\ q[i] \in R
                        /\ q[i].frame.n \in (m + 1)..Len(L)
                        /\ q[i].frame = L[q[i].frame.n]
        OBVIOUS
    <2>1. q[i] \in R
        BY <1>5
    <2>2. q[i].frame.n \in (m + 1)..Len(L)
        BY <1>2, <2>1
    <2>3. Logged(r, q[i].frame)
        BY <2>1 DEF BufferInv, RowsLogged, RowsOf
    <2> QED
        BY <2>1, <2>2, <2>3 DEF Logged
<1>7. \A i, j \in 1..N : i < j => q[i].frame.n < q[j].frame.n
    <2> SUFFICES ASSUME NEW i \in 1..N, NEW j \in 1..N, i < j
                 PROVE  q[i].frame.n < q[j].frame.n
        OBVIOUS
    <2>1. q[i].id < q[j].id /\ q[i] \in R /\ q[j] \in R
        BY <1>5, <1>6
    <2>2. q[i] \in rows /\ q[j] \in rows /\ q[i].room = q[j].room
        BY <2>1 DEF RowsOf
    <2> QED
        BY <2>1, <2>2 DEF BufferInv, RowsOrdered
<1> HIDE DEF N, L, R
<1>8. h \in [1..N -> 1..N]
    <2>1. ASSUME NEW i \in 1..N PROVE q[i].frame.n - m \in 1..N
        BY <1>1, <1>4, <1>6
    <2> QED
        BY <2>1
<1>9. \A i, j \in 1..N : i < j => h[i] < h[j]
    <2> SUFFICES ASSUME NEW i \in 1..N, NEW j \in 1..N, i < j
                 PROVE  q[i].frame.n - m < q[j].frame.n - m
        OBVIOUS
    <2> DEFINE a == q[i].frame.n
               b == q[j].frame.n
    <2>1. a \in (m + 1)..Len(L) /\ b \in (m + 1)..Len(L) /\ a < b
        BY <1>6, <1>7
    <2> HIDE DEF a, b
    <2>2. a - m < b - m
        BY <1>1, <2>1
    <2> QED
        BY <2>2 DEF a, b
<1>10. \A i \in 1..N : h[i] = q[i].frame.n - m
    OBVIOUS
<1> HIDE DEF h
<1>11. \A i \in 1..N : h[i] = i
    BY <1>3, <1>8, <1>9, IncreasingIsIdentity
<1>12. \A i \in 1..N : q[i].frame.n = m + i
    <2> SUFFICES ASSUME NEW i \in 1..N
                 PROVE  q[i].frame.n = m + i
        OBVIOUS
    <2> DEFINE a == q[i].frame.n
    <2>1. a \in (m + 1)..Len(L) /\ a - m = i
        BY <1>6, <1>10, <1>11
    <2> HIDE DEF a
    <2>2. a = m + i
        BY <1>1, <2>1
    <2> QED
        BY <2>2 DEF a
<1> DEFINE e == DropFirst(L, m)
<1>13. e \in Seq(Frame) /\ Len(e) = Len(L) - m /\ \A i \in 1..(Len(L) - m) : e[i] = L[m + i]
    BY <1>1, DropFirstProperties
<1> HIDE DEF e
<1>14. Len(s) = N /\ \A i \in 1..N : s[i] = q[i].frame
    BY DEF N, R
<1>15. \A i \in 1..N : s[i] = e[i]
    BY <1>4, <1>6, <1>12, <1>13, <1>14
<1>16. s = e
    BY <1>4, <1>13, <1>14, <1>15, SameFrames
<1> QED
    BY <1>1, <1>16 DEF e, L

LEMMA BufferIsEnd ==
    ASSUME BufferComplete, NEW r \in Rooms, r \notin lossy, r \notin toLoad, phase # "down"
    PROVE  \E k : EndOf(frames[r], log[r], k)
BY DEF BufferComplete, EndOf

(* The buffer of a room of which nothing was stored is the end of its log.    *)
LEMMA EmptyIsEnd ==
    ASSUME RoomBufferAssumption
    PROVE  EndOf(<<>>, <<>>, 0)
<1>1. ASSUME NEW L \in Seq(Frame), Len(L) = 0 PROVE DropFirst(L, 0) = <<>>
    <2>1. 0 \in 0..Len(L)
        BY <1>1
    <2>2. DropFirst(L, 0) \in Seq(Frame) /\ Len(DropFirst(L, 0)) = Len(L) - 0
        BY <2>1, DropFirstProperties
    <2> QED
        BY <1>1, <2>2
<1>2. <<>> \in Seq(Frame) /\ Len(<<>>) = 0
    OBVIOUS
<1>3. DropFirst(<<>>, 0) = <<>>
    BY <1>1, <1>2
<1>4. Bytes(<<>>) <= MaxBytes
    BY BytesEmpty DEF RoomBufferAssumption
<1> QED
    BY <1>2, <1>3, <1>4 DEF EndOf

LEMMA NextBufferComplete ==
    ASSUME RoomBufferAssumption, BufferInv, TotalInv, TableComplete, BufferComplete,
           [Next]_vars
    PROVE  BufferComplete'
<1> USE DEF BufferInv
<1> SUFFICES ASSUME NEW q \in Rooms, q \notin lossy', q \notin toLoad', phase' # "down"
             PROVE  \E k : EndOf(frames'[q], log'[q], k)
    BY DEF BufferComplete, EndOf, Fits, DropFirst, Bytes
<1>0. q \notin lossy
    BY ZenonT(60) DEF Next, vars, aux, memory, table, boot, Push, Insert, InsertFails, Prune,
           PruneFails, LoadRoom, Crash, Boot, Serve, Idle, TypeOK
<1>1. CASE /\ frames'[q] = frames[q] /\ log'[q] = log[q]
           /\ q \notin toLoad /\ phase # "down"
    BY <1>0, <1>1, BufferIsEnd
<1>2. ASSUME NEW r \in Rooms, NEW size \in Sizes, Push(r, size)
      PROVE  \E k : EndOf(frames'[q], log'[q], k)
    <2>1. PICK f \in Frame, s \in Seq(Frame) : \E c \in 0..Len(s) : Pushed(r, f, s, c)
        BY <1>2, PushCuts
    <2>2. PICK c \in 0..Len(s) : Pushed(r, f, s, c)
        BY <2>1
    <2>3. /\ frames' = [frames EXCEPT ![r] = DropFirst(s, c)]
          /\ log' = [log EXCEPT ![r] = Append(log[r], f)]
          /\ s = Append(frames[r], f)
          /\ ~PushOver(s, total[r] + f.size, c)
          /\ \A i \in 0..(c - 1) : PushOver(s, total[r] + f.size, i)
        BY <2>2 DEF Pushed, Appended
    <2>4. q \notin toLoad /\ phase # "down"
        BY <1>2 DEF Push, boot
    <2>5. CASE q # r
        BY <1>1, <2>3, <2>4, <2>5 DEF TypeOK
    <2>6. CASE q = r
        <3>1. PICK k : EndOf(frames[r], log[r], k)
            BY <1>0, <2>4, <2>6, BufferIsEnd
        <3>2. log[r] \in Seq(Frame) /\ c \in 0..Len(Append(frames[r], f))
            BY <2>3 DEF TypeOK
        <3>5. total[r] + f.size = Bytes(frames[r]) + f.size
            BY DEF TotalInv, TotalIsBytes
        <3>3. EndOf(DropFirst(Append(frames[r], f), c), Append(log[r], f), k + c)
            BY <2>3, <3>1, <3>2, <3>5, PushKeepsEnd
        <3>4. frames'[q] = DropFirst(s, c) /\ log'[q] = Append(log[r], f)
            BY <2>3, <2>6 DEF TypeOK
        <3> QED
            BY <2>3, <3>3, <3>4
    <2> QED
        BY <2>5, <2>6
<1>3. ASSUME NEW r \in Rooms, LoadRoom(r)
      PROVE  \E k : EndOf(frames'[q], log'[q], k)
    <2>1. PICK s \in Seq(Frame) : \E c \in 0..Len(s) : \E p : Restored(r, s, c, p)
        BY <1>3, LoadCuts
    <2>2. PICK c \in 0..Len(s) : \E p : Restored(r, s, c, p)
        BY <2>1
    <2>3. PICK p : Restored(r, s, c, p)
        BY <2>2
    <2>4. /\ phase = "booting" /\ toLoad' = toLoad \ {r} /\ log' = log
          /\ frames' = [frames EXCEPT ![r] = DropFirst(s, c)]
        BY <1>3, <2>3 DEF LoadRoom, Restored
    <2>5. CASE q # r
        BY <1>1, <2>4, <2>5 DEF TypeOK
    <2>6. CASE q = r
        <3>1. PICK m : Whole(r, m)
            BY <1>0, <2>6, TableIsWhole
        <3>2. pc[r] # "insert" /\ log[r] \in Seq(Frame)
            BY <2>4 DEF Booting, TypeOK
        <3>3. /\ p \in ById(RowsOf(r))
              /\ Len(s) = Cardinality(RowsOf(r))
              /\ \A i \in 1..Len(s) : s[i] = p[i].frame
            BY <2>3, <2>6 DEF Restored
        <3>4. s = DropFirst(log[r], m) /\ m \in 0..Len(log[r])
            BY <3>1, <3>2, <3>3, RowsHoldEnd
        <3>5. m = 0 \/ Len(log[r]) - m >= MaxFrames
            BY <3>1, <3>2 DEF Whole, Stored
        <3>6. ~RestoreOver(s, Bytes(s), c) /\ \A i \in 0..(c - 1) : RestoreOver(s, Bytes(s), i)
            BY <2>3 DEF Restored
        <3>7. EndOf(DropFirst(s, c), log[r], m + c)
            BY <3>2, <3>4, <3>5, <3>6, RestoreMakesEnd
        <3>8. frames'[q] = DropFirst(s, c) /\ log'[q] = log[r]
            BY <2>4, <2>6 DEF TypeOK
        <3> QED
            BY <3>7, <3>8
    <2> QED
        BY <2>5, <2>6
<1>4. CASE Boot
    <2>1. q \notin StoredRooms
        BY <1>4 DEF Boot
    <2>2. frames' = frames /\ log' = log /\ phase = "down"
        BY <1>4 DEF Boot, memory
    <2>3. RowsOf(q) = {}
        BY <2>1 DEF StoredRooms, RowsOf
    <2>4. PICK m : Whole(q, m)
        BY <1>0, TableIsWhole
    <2>5. Stored(q) \in Nat /\ m \in 0..Stored(q) /\ MaxFrames \in Nat \ {0}
        BY <2>4, StoredType DEF Whole, RoomBufferAssumption
    <2>6. (m + 1)..Stored(q) = {}
        BY <2>3, <2>4 DEF Whole
    <2>7. m = Stored(q)
        <3>1. ~(m + 1 <= Stored(q))
            <4> SUFFICES ASSUME m + 1 <= Stored(q) PROVE FALSE
                OBVIOUS
            <4>1. m + 1 \in (m + 1)..Stored(q)
                BY <2>5
            <4> QED
                BY <2>6, <4>1
        <3> QED
            BY <2>5, <3>1
    <2>8. Stored(q) = 0
        BY <2>4, <2>5, <2>7 DEF Whole
    <2>9. frames[q] = <<>> /\ pc[q] = "idle" /\ log[q] \in Seq(Frame)
        BY <2>2 DEF Booting, TypeOK
    <2>10. log[q] = <<>>
        BY <2>8, <2>9 DEF Stored
    <2> QED
        BY <2>2, <2>9, <2>10, EmptyIsEnd
<1>5. CASE Crash
    BY <1>5 DEF Crash
<1>6. CASE UNCHANGED <<frames, log, toLoad, phase>>
    BY <1>1, <1>6
<1>7. CASE Serve
    BY <1>1, <1>7 DEF Serve, memory, aux
<1> QED
    BY <1>2, <1>3, <1>4, <1>5, <1>6, <1>7
    DEF Next, vars, aux, memory, table, boot, Insert, InsertFails, Prune, PruneFails, Idle

-----------------------------------------------------------------------------
(* A set of numbers has a least one. *)
LEMMA Least ==
    ASSUME NEW T, T \subseteq Nat, T # {}
    PROVE  \E x \in T : \A y \in 0..(x - 1) : y \notin T
<1> DEFINE R == OpToRel(<, Nat)
<1>1. IsWellFoundedOn(R, Nat)
    BY NatLessThanWellFounded
<1> HIDE DEF R
<1>2. PICK x \in T : \A y \in T : ~(<<y, x>> \in R)
    BY <1>1, WFMin
<1>3. ASSUME NEW y \in 0..(x - 1) PROVE <<y, x>> \in R
    BY <1>3 DEF R, OpToRel
<1> QED
    BY <1>2, <1>3

(* One end of a sequence is a suffix of a longer one. *)
LEMMA EndsAreSuffixes ==
    ASSUME NEW L \in Seq(Frame), NEW k \in 0..Len(L), NEW j \in k..Len(L)
    PROVE  IsSuffix(DropFirst(L, j), DropFirst(L, k))
<1> DEFINE a == DropFirst(L, j)
           b == DropFirst(L, k)
           x == Reverse(a)
           y == Reverse(b)
           N == Len(L) - j
<1>1. Len(L) \in Nat /\ j \in 0..Len(L) /\ k <= j
    OBVIOUS
<1>2. a \in Seq(Frame) /\ Len(a) = Len(L) - j /\ \A i \in 1..(Len(L) - j) : a[i] = L[j + i]
    BY <1>1, DropFirstProperties
<1>3. b \in Seq(Frame) /\ Len(b) = Len(L) - k /\ \A i \in 1..(Len(L) - k) : b[i] = L[k + i]
    BY DropFirstProperties
<1>4. N \in Nat /\ N <= Len(b) /\ Len(a) = N
    BY <1>1, <1>2, <1>3
<1> HIDE DEF a, b
<1>5. x \in Seq(Frame) /\ Len(x) = N /\ \A i \in 1..N : x[i] = a[Len(a) - i + 1]
    <2>1. \A i \in 1..Len(a) : a[Len(a) - i + 1] \in Frame
        BY SMTT(30), <1>2
    <2> QED
        BY <1>2, <1>4, <2>1 DEF Reverse
<1>6. y \in Seq(Frame) /\ Len(y) = Len(b) /\ \A i \in 1..Len(b) : y[i] = b[Len(b) - i + 1]
    <2>1. \A i \in 1..Len(b) : b[Len(b) - i + 1] \in Frame
        BY <1>3
    <2> QED
        BY <1>3, <2>1 DEF Reverse
<1>7. \A i \in 1..N : x[i] = y[i]
    <2> SUFFICES ASSUME NEW i \in 1..N PROVE x[i] = y[i]
        OBVIOUS
    <2>1. i \in 1..Len(b) /\ N - i + 1 \in 1..N /\ Len(b) - i + 1 \in 1..Len(b)
        BY <1>1, <1>3, <1>4
    <2>2. j + (N - i + 1) = k + (Len(b) - i + 1)
        BY <1>1, <1>3, <2>1
    <2>3. x[i] = L[j + (N - i + 1)]
        BY <1>2, <1>4, <1>5, <2>1
    <2>4. y[i] = L[k + (Len(b) - i + 1)]
        BY <1>3, <1>6, <2>1
    <2> QED
        BY <2>2, <2>3, <2>4
<1> HIDE DEF x, y, N
<1>8. SubSeq(x, 1, N) = SubSeq(y, 1, N)
    <2>1. 1 \in Int /\ N \in Int /\ \A i \in 1..N : x[i] \in Frame /\ y[i] \in Frame
        BY <1>3, <1>4, <1>5, <1>6, <1>7
    <2> DEFINE u == SubSeq(x, 1, N)
               v == SubSeq(y, 1, N)
    <2>2. /\ u \in Seq(Frame) /\ Len(u) = (IF 1 <= N THEN N - 1 + 1 ELSE 0)
          /\ \A i \in 1..(N - 1 + 1) : u[i] = x[1 + i - 1]
        BY <2>1, SubSeqProperties
    <2>3. /\ v \in Seq(Frame) /\ Len(v) = (IF 1 <= N THEN N - 1 + 1 ELSE 0)
          /\ \A i \in 1..(N - 1 + 1) : v[i] = y[1 + i - 1]
        BY <2>1, SubSeqProperties
    <2> HIDE DEF u, v
    <2>4. Len(u) = N /\ Len(v) = N /\ \A i \in 1..N : u[i] = v[i]
        BY <1>4, <1>7, <2>2, <2>3
    <2>5. u = v
        BY <2>2, <2>3, <2>4, SameFrames
    <2> QED
        BY <2>5 DEF u, v
<1>9. IsPrefix(x, y)
    BY <1>4, <1>5, <1>6, <1>8 DEF IsPrefix
<1> QED
    BY <1>9 DEF IsSuffix, x, y, a, b

(* Such an end holds the longest one within both limits, and is it when it    *)
(* does not hold too many frames.                                             *)
LEMMA EndHoldsLongestFit ==
    ASSUME RoomBufferAssumption, NEW L \in Seq(Frame), NEW w, NEW k, EndOf(w, L, k)
    PROVE  /\ IsSuffix(LongestFit(L), w)
           /\ Len(w) <= MaxFrames => w = LongestFit(L)
<1> DEFINE First(c) == Fits(DropFirst(L, c)) /\ \A j \in 0..(c - 1) : ~Fits(DropFirst(L, j))
           T == {c \in 0..Len(L) : Fits(DropFirst(L, c))}
           K == CHOOSE c \in 0..Len(L) : First(c)
<1>1. Len(L) \in Nat /\ k \in 0..Len(L) /\ w = DropFirst(L, k) /\ Bytes(w) <= MaxBytes
      /\ \A j \in 0..(k - 1) : ~Fits(DropFirst(L, j))
    BY DEF EndOf
<1>2. Len(L) \in T
    <2>1. Len(L) \in 0..Len(L)
        BY <1>1
    <2>2. DropFirst(L, Len(L)) \in Seq(Frame) /\ Len(DropFirst(L, Len(L))) = 0
        BY <1>1, <2>1, DropFirstProperties
    <2>3. DropFirst(L, Len(L)) = <<>>
        BY <2>2
    <2> QED
        BY <2>1, <2>2, <2>3, BytesEmpty DEF Fits, RoomBufferAssumption
<1>3. PICK c \in T : \A y \in 0..(c - 1) : y \notin T
    <2>1. T \subseteq Nat /\ T # {}
        BY <1>1, <1>2
    <2> HIDE DEF T
    <2> QED
        BY <2>1, Least
<1>4. c \in 0..Len(L) /\ First(c)
    BY <1>1, <1>3
<1>5. K \in 0..Len(L) /\ First(K)
    <2> HIDE DEF First
    <2> QED
        BY <1>4
<1>6. LongestFit(L) = DropFirst(L, K)
    BY DEF LongestFit
<1> HIDE DEF K
<1>7. K \in k..Len(L)
    BY <1>1, <1>5
<1>8. IsSuffix(LongestFit(L), w)
    BY <1>1, <1>6, <1>7, EndsAreSuffixes
<1>9. ASSUME Len(w) <= MaxFrames PROVE w = LongestFit(L)
    <2>1. Fits(DropFirst(L, k))
        BY <1>1, <1>9 DEF Fits
    <2>2. ~(k < K)
        BY <1>1, <1>5, <2>1
    <2>3. K = k
        BY <1>1, <1>7, <2>2
    <2> QED
        BY <1>1, <1>6, <2>3
<1> QED
    BY <1>8, <1>9

(* As long as the table of a room missed no frame, its buffer after any       *)
(* crashes and reloads holds the longest end of everything ever pushed that   *)
(* is within both limits, and nothing else unless prunes were missed.         *)
THEOREM RestartIsTransparent == Spec => []RestartTransparent
<1> USE RoomBufferAssumption
<1> DEFINE I == TotalInv /\ TableComplete /\ BufferComplete
<1>1. Init => I
    <2> SUFFICES ASSUME Init PROVE I
        OBVIOUS
    <2>1. ASSUME NEW r \in Rooms
          PROVE  log[r] = <<>> /\ frames[r] = <<>> /\ Stored(r) = 0 /\ RowsOf(r) = {}
        BY DEF Init, Stored, RowsOf
    <2>2. TableComplete
        BY <2>1 DEF TableComplete
    <2>3. BufferComplete
        <3> SUFFICES ASSUME NEW r \in Rooms
                     PROVE  \E k : EndOf(frames[r], log[r], k)
            BY DEF BufferComplete, EndOf
        <3> QED
            BY <2>1, EmptyIsEnd
    <2>4. TotalInv
        BY BytesEmpty DEF Init, TotalInv, TotalIsBytes, RoomBufferAssumption
    <2> QED
        BY <2>2, <2>3, <2>4
<1>2. BufferInv /\ I /\ [Next]_vars => I'
    BY NextTotal, NextTableComplete, NextBufferComplete DEF BufferInv
<1>3. BufferInv /\ I => RestartTransparent
    <2> SUFFICES ASSUME BufferInv, I, NEW r \in Rooms, r \notin lossy, phase = "up"
                 PROVE  /\ IsSuffix(LongestFit(log[r]), frames[r])
                        /\ Len(frames[r]) <= MaxFrames => frames[r] = LongestFit(log[r])
        BY DEF RestartTransparent
    <2>1. r \notin toLoad
        BY DEF BufferInv, Booting
    <2>2. PICK k : EndOf(frames[r], log[r], k)
        BY <2>1, BufferIsEnd
    <2>3. log[r] \in Seq(Frame)
        BY DEF BufferInv, TypeOK
    <2> QED
        BY <2>2, <2>3, EndHoldsLongestFit
<1> HIDE DEF I
<1> QED
    BY <1>1, <1>2, <1>3, BufferInvariant, PTL DEF Spec
=============================================================================
