----------------------------- MODULE RoomBuffer -----------------------------
(* The per-room catch-up buffer of the relay (buffer.go), the SQLite table    *)
(* that backs it (store.go) and the reload at start-up (hub.go, NewHub and    *)
(* restoreFromStore), with process crashes between any two database calls and *)
(* with database calls that fail.                                             *)
(*                                                                            *)
(* A frame is its position n among the frames pushed into its room and its    *)
(* size: the payload is opaque to the relay.  Each room's buffer has its own  *)
(* mutex, held from the append to the end of AppendFrame, so that rooms       *)
(* interleave at every database call and pushes into one room do not.         *)
EXTENDS Integers, Sequences, FiniteSets, SequencesExt

CONSTANTS Rooms,      (* rooms                                             *)
          Sizes,      (* frame sizes to push                               *)
          MaxFrames,  (* bufferMaxFrames, 64 in the code                   *)
          MaxBytes,   (* bufferMaxBytes, 512 KiB in the code               *)
          MaxPushes,  (* bound: frames pushed into each room               *)
          MaxFaults   (* bound: database errors and crashes, all together  *)

ASSUME RoomBufferAssumption ==
    /\ Sizes \subseteq Nat \ {0}
    /\ MaxFrames \in Nat \ {0}
    /\ MaxBytes \in Nat
    /\ MaxPushes \in Nat
    /\ MaxFaults \in Nat

Frame == [n : 1..MaxPushes, size : Sizes]
Row   == [id : Nat, room : Rooms, frame : Frame]

VARIABLES
    phase,     (* "down", "booting" (in NewHub) or "up"                    *)
    hasStore,  (* the buffers' store pointer is not nil                    *)
    toLoad,    (* rooms restoreFromStore has still to load                 *)
    frames,    (* RoomBuffer.frames of each room                           *)
    total,     (* RoomBuffer.total of each room                            *)
    pc,        (* the push in progress in each room: idle, insert, prune   *)
    rows,      (* the table room_frames                                    *)
    nextId,    (* its AUTOINCREMENT counter                                *)
    log,       (* auxiliary: every frame pushed into each room             *)
    lossy,     (* auxiliary: rooms whose table has missed a frame          *)
    missed,    (* auxiliary: prunes each room has missed since it pruned   *)
    faults     (* bound: faults so far                                     *)

memory == <<frames, total, pc>>
table  == <<rows, nextId>>
boot   == <<phase, hasStore, toLoad>>
aux    == <<log, lossy, missed, faults>>
vars   == <<boot, memory, table, aux>>

-----------------------------------------------------------------------------
Bytes(s) ==
    LET sum[i \in 0..Len(s)] == IF i = 0 THEN 0 ELSE sum[i - 1] + s[i].size
    IN sum[Len(s)]

(* Slip: the newest frames go first. *)
DropNewest(s, k) == SubSeq(s, 1, Len(s) - k)

DropFirst(s, k) == SubSeq(s, k + 1, Len(s))

(* The eviction loops stop at the first k at which `over' no longer holds. *)
FirstStop(over(_), k) == ~over(k) /\ \A j \in 0..(k - 1) : over(j)

(* The running total t of s once its first k frames are subtracted from it. *)
Left(s, t, k) == t - Bytes(SubSeq(s, 1, k))

(* Slip: Push forgets the byte limit. *)
PushOverCountOnly(s, t, k) == k < Len(s) /\ Len(s) - k > MaxFrames

(* Push's loop on s and the running total t: both limits. *)
PushOver(s, t, k) ==
    /\ k < Len(s)
    /\ Len(s) - k > MaxFrames \/ Left(s, t, k) > MaxBytes

(* Slip: the reload cuts by count, as the query's LIMIT would. *)
RestoreOverCount(s, t, k) == k < Len(s) /\ Len(s) - k > MaxFrames

(* restoreFromStore's loop: the byte limit only. *)
RestoreOver(s, t, k) == k < Len(s) /\ Left(s, t, k) > MaxBytes

(* What Snapshot hands to a joining client. *)
Snapshot(r) == frames[r]

RowsOf(r) == {x \in rows : x.room = r}

(* SELECT DISTINCT room *)
StoredRooms == {x.room : x \in rows}

(* Slips: LIMIT one too many; no WHERE room in the subquery. *)
NewestPlusOne(r) ==
    {x \in RowsOf(r) : Cardinality({y \in RowsOf(r) : y.id > x.id}) <= MaxFrames}
NewestOfAll(r) ==
    {x \in RowsOf(r) : Cardinality({y \in rows : y.id > x.id}) < MaxFrames}

(* SELECT id ... WHERE room = r ORDER BY id DESC LIMIT bufferMaxFrames *)
Newest(r) ==
    {x \in RowsOf(r) : Cardinality({y \in RowsOf(r) : y.id > x.id}) < MaxFrames}

(* Slip: LoadFrames reads in descending order of id. *)
ByIdDescending(S) ==
    {s \in [1..Cardinality(S) -> S] :
        \A i, j \in 1..Cardinality(S) : i < j => s[i].id > s[j].id}

(* The rows S in ascending order of id. *)
ById(S) ==
    {s \in [1..Cardinality(S) -> S] :
        \A i, j \in 1..Cardinality(S) : i < j => s[i].id < s[j].id}

-----------------------------------------------------------------------------
Init ==
    /\ phase = "up"
    /\ hasStore \in BOOLEAN
    /\ toLoad = {}
    /\ frames = [r \in Rooms |-> <<>>]
    /\ total = [r \in Rooms |-> 0]
    /\ pc = [r \in Rooms |-> "idle"]
    /\ rows = {}
    /\ nextId = 1
    /\ log = [r \in Rooms |-> <<>>]
    /\ lossy = {}
    /\ missed = [r \in Rooms |-> 0]
    /\ faults = 0

(* Push takes the buffer's mutex, appends and evicts; without a store it is  *)
(* done, with one it keeps the mutex for AppendFrame.                        *)
Push(r, size) ==
    LET f == [n |-> Len(log[r]) + 1, size |-> size]
        s == Append(frames[r], f)
        t == total[r] + size
    IN /\ phase = "up"
       /\ pc[r] = "idle"
       /\ Len(log[r]) < MaxPushes
       /\ \E k \in 0..Len(s) :
             /\ FirstStop(LAMBDA j : PushOver(s, t, j), k)
             /\ frames' = [frames EXCEPT ![r] = DropFirst(s, k)]
             /\ total' = [total EXCEPT ![r] = Left(s, t, k)]
       /\ log' = [log EXCEPT ![r] = Append(@, f)]
       /\ IF hasStore
          THEN pc' = [pc EXCEPT ![r] = "insert"] /\ UNCHANGED lossy
          ELSE lossy' = lossy \union {r} /\ UNCHANGED pc
       /\ UNCHANGED <<boot, table, missed, faults>>

(* AppendFrame's INSERT commits. *)
Insert(r) ==
    /\ pc[r] = "insert"
    /\ rows' = rows \union {[id |-> nextId, room |-> r, frame |-> Last(log[r])]}
    /\ nextId' = nextId + 1
    /\ pc' = [pc EXCEPT ![r] = "prune"]
    /\ UNCHANGED <<boot, frames, total, aux>>

(* The INSERT fails: AppendFrame returns and never prunes. *)
InsertFails(r) ==
    /\ pc[r] = "insert"
    /\ faults < MaxFaults
    /\ pc' = [pc EXCEPT ![r] = "idle"]
    /\ lossy' = lossy \union {r}
    /\ faults' = faults + 1
    /\ UNCHANGED <<boot, frames, total, table, log, missed>>

(* The DELETE commits and Push releases the mutex. *)
Prune(r) ==
    /\ pc[r] = "prune"
    /\ rows' = (rows \ RowsOf(r)) \union Newest(r)
    /\ pc' = [pc EXCEPT ![r] = "idle"]
    /\ missed' = [missed EXCEPT ![r] = 0]
    /\ UNCHANGED <<boot, frames, total, nextId, log, lossy, faults>>

(* The DELETE fails: a warning is logged and Push returns all the same. *)
PruneFails(r) ==
    /\ pc[r] = "prune"
    /\ faults < MaxFaults
    /\ pc' = [pc EXCEPT ![r] = "idle"]
    /\ missed' = [missed EXCEPT ![r] = @ + 1]
    /\ faults' = faults + 1
    /\ UNCHANGED <<boot, frames, total, table, log, lossy>>

-----------------------------------------------------------------------------
(* Slip: ids come from a counter in memory, 0 after a restart. *)
CrashLosesCounter ==
    /\ phase # "down"
    /\ faults < MaxFaults
    /\ phase' = "down"
    /\ toLoad' = {}
    /\ frames' = [r \in Rooms |-> <<>>]
    /\ total' = [r \in Rooms |-> 0]
    /\ pc' = [r \in Rooms |-> "idle"]
    /\ lossy' = lossy \union {r \in Rooms : pc[r] = "insert"}
    /\ missed' = [r \in Rooms |-> missed[r] + IF pc[r] = "prune" THEN 1 ELSE 0]
    /\ faults' = faults + 1
    /\ nextId' = 0
    /\ UNCHANGED <<hasStore, rows, log>>

(* The process dies at any point; only the table survives. *)
Crash ==
    /\ phase # "down"
    /\ faults < MaxFaults
    /\ phase' = "down"
    /\ toLoad' = {}
    /\ frames' = [r \in Rooms |-> <<>>]
    /\ total' = [r \in Rooms |-> 0]
    /\ pc' = [r \in Rooms |-> "idle"]
    /\ lossy' = lossy \union {r \in Rooms : pc[r] = "insert"}
    /\ missed' = [r \in Rooms |-> missed[r] + IF pc[r] = "prune" THEN 1 ELSE 0]
    /\ faults' = faults + 1
    /\ UNCHANGED <<hasStore, table, log>>

(* main opens the store, or runs without it, and NewHub asks it for its      *)
(* rooms: those with rows, or some of them when the query fails on its way.  *)
Boot ==
    /\ phase = "down"
    /\ phase' = "booting"
    /\ \/ /\ hasStore' = TRUE
          /\ toLoad' = StoredRooms
          /\ UNCHANGED <<lossy, faults>>
       \/ /\ faults < MaxFaults
          /\ hasStore' \in BOOLEAN
          /\ toLoad' \in SUBSET StoredRooms
          /\ ~hasStore' => toLoad' = {}
          /\ lossy' = lossy \union (StoredRooms \ toLoad')
          /\ faults' = faults + 1
    /\ UNCHANGED <<memory, table, log, missed>>

(* restoreFromStore loads a room: the rows LoadFrames read, in order of id,  *)
(* cut from the front to the byte limit.  A query that fails on its way      *)
(* yields the rows before the error, all of them lost when it fails at once. *)
LoadRoom(r) ==
    /\ phase = "booting"
    /\ r \in toLoad
    /\ toLoad' = toLoad \ {r}
    /\ \E q \in ById(RowsOf(r)), m \in 0..Cardinality(RowsOf(r)) :
          LET s == [i \in 1..m |-> q[i].frame]
              t == Bytes(s)
          IN /\ m < Cardinality(RowsOf(r)) => faults < MaxFaults
             /\ IF m < Cardinality(RowsOf(r))
                THEN faults' = faults + 1 /\ lossy' = lossy \union {r}
                ELSE UNCHANGED <<faults, lossy>>
             /\ \E k \in 0..m :
                   /\ FirstStop(LAMBDA j : RestoreOver(s, t, j), k)
                   /\ frames' = [frames EXCEPT ![r] = DropFirst(s, k)]
                   /\ total' = [total EXCEPT ![r] = Left(s, t, k)]
    /\ UNCHANGED <<phase, hasStore, pc, table, log, missed>>

(* NewHub returns and the server starts to serve. *)
Serve ==
    /\ phase = "booting"
    /\ toLoad = {}
    /\ phase' = "up"
    /\ UNCHANGED <<hasStore, toLoad, memory, table, aux>>

(* Nobody pushes: the server waits, with every mutex free. *)
Idle ==
    /\ phase = "up"
    /\ \A r \in Rooms : pc[r] = "idle"
    /\ UNCHANGED vars

Next ==
    \/ \E r \in Rooms :
          \/ \E size \in Sizes : Push(r, size)
          \/ Insert(r)
          \/ InsertFails(r)
          \/ Prune(r)
          \/ PruneFails(r)
          \/ LoadRoom(r)
    \/ Crash
    \/ Boot
    \/ Serve
    \/ Idle

Spec == Init /\ [][Next]_vars

-----------------------------------------------------------------------------
(* Type correctness.  `total' is left to TotalIsBytes, which fixes its value. *)
TypeOK ==
    /\ phase \in {"down", "booting", "up"}
    /\ hasStore \in BOOLEAN
    /\ toLoad \subseteq Rooms
    /\ frames \in [Rooms -> Seq(Frame)]
    /\ pc \in [Rooms -> {"idle", "insert", "prune"}]
    /\ rows \subseteq Row
    /\ nextId \in Nat \ {0}
    /\ log \in [Rooms -> Seq(Frame)]
    /\ lossy \subseteq Rooms
    /\ missed \in [Rooms -> Nat]
    /\ faults \in 0..MaxFaults

(* buffer.go: the running total is the size of what the buffer holds, through *)
(* every eviction and every reload, and never passes bufferMaxBytes.          *)
TotalIsBytes ==
    \A r \in Rooms : total[r] = Bytes(frames[r]) /\ total[r] <= MaxBytes

(* A joining device is caught up in push order and never sees a frame twice,  *)
(* whatever was evicted, lost or reloaded before it came.                     *)
SnapshotInOrder ==
    \A r \in Rooms : \A i, j \in DOMAIN Snapshot(r) :
        i < j => Snapshot(r)[i].n < Snapshot(r)[j].n

(* The longest suffix of the room's history that is within both limits.       *)
Fits(s) == Len(s) <= MaxFrames /\ Bytes(s) <= MaxBytes
LongestFit(s) ==
    LET k == CHOOSE k \in 0..Len(s) :
                Fits(DropFirst(s, k)) /\ \A j \in 0..(k - 1) : ~Fits(DropFirst(s, j))
    IN DropFirst(s, k)

(* store.go:12-13: as long as the table missed no frame, a restart cannot be  *)
(* told from no restart: the buffer holds the longest suffix of everything    *)
(* ever pushed that is within both limits, plus, when prunes were missed, the *)
(* older frames the table still had.                                          *)
RestartTransparent ==
    \A r \in Rooms \ lossy :
        phase = "up" =>
            /\ IsSuffix(LongestFit(log[r]), frames[r])
            /\ Len(frames[r]) <= MaxFrames => frames[r] = LongestFit(log[r])

(* The buffer outgrows its count limit only by the prunes that failed or that *)
(* a crash cut off, and the table only by those and the insert not yet pruned.*)
CountBounded ==
    \A r \in Rooms :
        /\ Len(frames[r]) <= MaxFrames + missed[r]
        /\ Cardinality(RowsOf(r)) <=
              MaxFrames + missed[r] + IF pc[r] = "prune" THEN 1 ELSE 0

(* Memory and table together implement the window of CatchUpLog. *)
Catch == INSTANCE CatchUpLog WITH window <- frames
CatchUpSpec == Catch!Spec

-----------------------------------------------------------------------------
(* The inductive invariant behind the theorems of RoomBufferProofs.           *)

(* The nth frame pushed into a room is numbered n. *)
LogNumbered == \A r \in Rooms : \A i \in 1..Len(log[r]) : log[r][i].n = i

(* f is a frame that was pushed into room r. *)
Logged(r, f) == f.n \in 1..Len(log[r]) /\ f = log[r][f.n]

FramesLogged == \A r \in Rooms : \A i \in 1..Len(frames[r]) : Logged(r, frames[r][i])

RowsLogged == \A x \in rows : Logged(x.room, x.frame)

(* Ids are unique, below the counter, and in push order within each room. *)
RowsOrdered ==
    /\ \A x \in rows : x.id < nextId
    /\ \A x, y \in rows : x.id = y.id => x = y
    /\ \A x, y \in rows : x.room = y.room /\ x.id < y.id => x.frame.n < y.frame.n

(* The frame a push is about to insert is newer than every row of its room. *)
InsertPending ==
    \A r \in Rooms : pc[r] = "insert" =>
        Len(log[r]) > 0 /\ \A x \in rows : x.room = r => x.frame.n < Len(log[r])

(* While the process is down or loading, nobody pushes, and what is not loaded *)
(* yet is empty.                                                               *)
Booting ==
    /\ phase # "up" => \A r \in Rooms : pc[r] = "idle"
    /\ phase = "down" => \A r \in Rooms : frames[r] = <<>>
    /\ \A r \in toLoad : phase = "booting" /\ frames[r] = <<>>

(* A push in progress has already evicted. *)
PushFits == \A r \in Rooms : pc[r] # "idle" => Len(frames[r]) <= MaxFrames

BufferInv ==
    /\ TypeOK
    /\ IsFiniteSet(rows)
    /\ LogNumbered
    /\ FramesLogged
    /\ SnapshotInOrder
    /\ RowsLogged
    /\ RowsOrdered
    /\ InsertPending
    /\ Booting
    /\ PushFits
    /\ CountBounded

(* What RestartTransparent rests on.  The frames pushed into a room that its  *)
(* table should have by now, all but the one a push is about to insert.       *)
Stored(r) == IF pc[r] = "insert" THEN Len(log[r]) - 1 ELSE Len(log[r])

(* A table that missed no frame has every frame after the mth, and either     *)
(* all of the room's or at least MaxFrames.                                   *)
TableComplete ==
    \A r \in Rooms \ lossy : \E m \in 0..Stored(r) :
        /\ \A x \in RowsOf(r) : x.frame.n > m
        /\ \A n \in (m + 1)..Stored(r) : \E x \in RowsOf(r) : x.frame.n = n
        /\ m = 0 \/ Stored(r) - m >= MaxFrames

(* A buffer that is loaded is the end of its room's log, within the byte      *)
(* limit, and no longer end is within both limits.                            *)
BufferComplete ==
    \A r \in Rooms \ (lossy \union toLoad) : phase # "down" =>
        \E k \in 0..Len(log[r]) :
            /\ frames[r] = DropFirst(log[r], k)
            /\ Bytes(frames[r]) <= MaxBytes
            /\ \A j \in 0..(k - 1) : ~Fits(DropFirst(log[r], j))
=============================================================================
