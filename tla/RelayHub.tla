------------------------------ MODULE RelayHub ------------------------------
(* The relay's hub (hub.go) and the WebSocket handlers that drive it (ws.go), *)
(* on one node without NATS: connections register, are replayed the room's    *)
(* buffer, broadcast frames, are slow, drop, reconnect under the same device  *)
(* id, and unregister, in every order the hub's lock allows.                  *)
(*                                                                            *)
(* A connection is one call of the handler, with its goroutines and its       *)
(* *Client; it is used once.  The room's buffer is abstracted to what         *)
(* RoomBuffer was shown to provide: a push keeps a suffix of at most          *)
(* MaxFrames frames, which one depends on frame sizes not modelled here, and  *)
(* a buffer reloaded at start-up holds any number of frames, MaxFrames and    *)
(* those of the prunes the table missed.                                      *)
EXTENDS Naturals, Sequences, FiniteSets, SequencesExt

CONSTANTS
    Conns,          (* connections                                            *)
    Devices,        (* device ids: JWT device_id, or client_id without a JWT  *)
    Rooms,          (* room names                                             *)
    NoConn,         (* absence of a client in the hub's map                   *)
    DeviceOf,       (* the device id each connection authenticates as         *)
    RoomOf,         (* the room each connection joins                         *)
    SenderIdOf,     (* the client id each connection puts in its frames       *)
    Authenticated,  (* the server has a token validator                       *)
    SendCap,        (* capacity of Client.Send, 128 in the code               *)
    MaxFrames,      (* bufferMaxFrames, 64 in the code                        *)
    Reloaded,       (* bound: how many frames a room may be reloaded with     *)
    FramesOf,       (* bound: how many frames each connection sends           *)
    Breakable       (* bound: the connections whose socket may break          *)

ASSUME RelayHubAssumption ==
    /\ NoConn \notin Conns
    /\ Conns \intersect Rooms = {}
    /\ DeviceOf \in [Conns -> Devices]
    /\ RoomOf \in [Conns -> Rooms]
    /\ Authenticated \in BOOLEAN
    /\ SendCap \in Nat
    /\ MaxFrames \in Nat
    /\ Reloaded \subseteq Nat
    /\ FramesOf \in [Conns -> Nat]
    /\ Breakable \subseteq Conns

(* The nth frame of a connection; a frame reloaded from the store, whoever    *)
(* sent it to an earlier process, is the nth frame of its room.               *)
Frame == [from : Conns \union Rooms, n : Nat \ {0}]
(* A frame on its way to a client, with how it got into the channel. *)
Entry == [frame : Frame, via : {"replay", "live"}]

VARIABLES
    clients,   (* Hub.clients                                                *)
    buffer,    (* what a joiner of each room is replayed                     *)
    pc,        (* where each connection's handler is                         *)
    alive,     (* the connection's socket works                              *)
    replay,    (* frames returned by Register and not yet replayed           *)
    todo,      (* clients deliverToRoom has still to serve                   *)
    sent,      (* number of frames each connection has sent                  *)
    send,      (* content of each Client.Send                                *)
    closed,    (* Client.Send is closed                                      *)
    writer,    (* the connection's writer goroutine: none, running, stopped  *)
    taken,     (* auxiliary: what each writer took from its channel so far    *)
    dropped,   (* auxiliary: entries each client lost to a full channel      *)
    pushed,    (* auxiliary: every frame pushed into each room               *)
    joined     (* auxiliary: [before, window] of the room at Register        *)

hub     == <<clients, buffer>>
handler == <<pc, alive, replay, todo, sent>>
channel == <<send, closed, writer>>
aux     == <<taken, dropped, pushed, joined>>
vars    == <<hub, handler, channel, aux>>

-----------------------------------------------------------------------------
(* The hub's RWMutex: readers are the deliveries in progress. *)
ReadLocked == \E c \in Conns : pc[c] = "deliver"
(* Slip: Register and Unregister do not take the lock. *)
NoLock     == TRUE
LockFree   == ~ReadLocked

Registered(c) == clients[DeviceOf[c]] = c

(* Slips: clients still in their replay are left out; no filter on the room.  *)
RecipientsServed(c) ==
    {x \in Conns : /\ Registered(x)
                   /\ pc[x] # "replay"
                   /\ RoomOf[x] = RoomOf[c]
                   /\ DeviceOf[x] # SenderIdOf[c]}
RecipientsAnyRoom(c) == {x \in Conns : Registered(x) /\ DeviceOf[x] # SenderIdOf[c]}

(* deliverToRoom's recipients of a frame from c. *)
Recipients(c) ==
    {x \in Conns : /\ Registered(x)
                   /\ RoomOf[x] = RoomOf[c]
                   /\ DeviceOf[x] # SenderIdOf[c]}

(* select { case x.Send <- e: default: } *)
TrySend(x, e) ==
    IF Len(send[x]) < SendCap
    THEN send' = [send EXCEPT ![x] = Append(@, e)] /\ UNCHANGED dropped
    ELSE dropped' = [dropped EXCEPT ![x] = @ \union {e}] /\ UNCHANGED send

Current(c) == [from |-> c, n |-> sent[c]]

-----------------------------------------------------------------------------
(* What restoreFromStore makes of the m frames of room r. *)
Restored(r, m) == [i \in 1..m |-> [from |-> r, n |-> i]]

Init ==
    /\ clients = [d \in Devices |-> NoConn]
    /\ \E m \in [Rooms -> Reloaded] : buffer = [r \in Rooms |-> Restored(r, m[r])]
    /\ pc = [c \in Conns |-> "idle"]
    /\ alive = [c \in Conns |-> TRUE]
    /\ replay = [c \in Conns |-> <<>>]
    /\ todo = [c \in Conns |-> {}]
    /\ sent = [c \in Conns |-> 0]
    /\ send = [c \in Conns |-> <<>>]
    /\ closed = [c \in Conns |-> FALSE]
    /\ writer = [c \in Conns |-> "none"]
    /\ taken = [c \in Conns |-> <<>>]
    /\ dropped = [c \in Conns |-> {}]
    /\ pushed = buffer
    /\ joined = [c \in Conns |-> [before |-> 0, window |-> <<>>]]

(* The handler accepted c and registers it: under the hub's lock it replaces  *)
(* whatever the map held for the device and copies the room's buffer.         *)
Register(c) ==
    /\ pc[c] = "idle"
    /\ LockFree
    /\ clients' = [clients EXCEPT ![DeviceOf[c]] = c]
    /\ replay' = [replay EXCEPT ![c] = buffer[RoomOf[c]]]
    /\ joined' = [joined EXCEPT ![c] =
                    [before |-> Len(pushed[RoomOf[c]]), window |-> buffer[RoomOf[c]]]]
    /\ pc' = [pc EXCEPT ![c] = "replay"]
    /\ UNCHANGED <<buffer, alive, todo, sent, channel, taken, dropped, pushed>>

(* Slip: the replay starts with the newest frame. *)
ReplayNewestFirst(c) ==
    /\ pc[c] = "replay"
    /\ replay[c] # <<>>
    /\ TrySend(c, [frame |-> Last(replay[c]), via |-> "replay"])
    /\ replay' = [replay EXCEPT ![c] = Front(@)]
    /\ UNCHANGED <<hub, pc, alive, todo, sent, closed, writer, taken, pushed, joined>>

(* One round of the replay loop; c is in the map, so live frames compete.     *)
ReplayOne(c) ==
    /\ pc[c] = "replay"
    /\ replay[c] # <<>>
    /\ TrySend(c, [frame |-> Head(replay[c]), via |-> "replay"])
    /\ replay' = [replay EXCEPT ![c] = Tail(@)]
    /\ UNCHANGED <<hub, pc, alive, todo, sent, closed, writer, taken, pushed, joined>>

(* The replay is over: the writer goroutine starts and the reader loop too.   *)
Serve(c) ==
    /\ pc[c] = "replay"
    /\ replay[c] = <<>>
    /\ pc' = [pc EXCEPT ![c] = "reading"]
    /\ writer' = [writer EXCEPT ![c] = "running"]
    /\ UNCHANGED <<hub, alive, replay, todo, sent, send, closed, aux>>

(* The reader gets a well-formed frame and calls Broadcast. *)
Read(c) ==
    /\ pc[c] = "reading"
    /\ alive[c]
    /\ sent[c] < FramesOf[c]
    /\ sent' = [sent EXCEPT ![c] = @ + 1]
    /\ pc' = [pc EXCEPT ![c] = "buffer"]
    /\ UNCHANGED <<hub, alive, replay, todo, channel, aux>>

(* Slip: `if' for `for': a push evicts one frame, however many are too many.  *)
BufferFrameOne(c) ==
    LET r == RoomOf[c]
        s == Append(buffer[r], Current(c))
    IN /\ pc[c] = "buffer"
       /\ LockFree
       /\ \E k \in 0..1 :
             /\ k = 0 => Len(s) <= MaxFrames
             /\ buffer' = [buffer EXCEPT ![r] = SubSeq(s, k + 1, Len(s))]
       /\ pushed' = [pushed EXCEPT ![r] = Append(@, Current(c))]
       /\ pc' = [pc EXCEPT ![c] = "fanout"]
       /\ UNCHANGED <<clients, alive, replay, todo, sent, channel, taken, dropped, joined>>

(* bufferFrame waits for the hub's write lock to find the room's buffer, and  *)
(* pushes.  The push comes after the unlock; nothing that needs the lock can  *)
(* tell it from a push under it.                                              *)
BufferFrame(c) ==
    LET r == RoomOf[c]
        s == Append(buffer[r], Current(c))
    IN /\ pc[c] = "buffer"
       /\ LockFree
       /\ \E k \in 0..Len(s) :
             /\ Len(s) - k <= MaxFrames
             /\ buffer' = [buffer EXCEPT ![r] = SubSeq(s, k + 1, Len(s))]
       /\ pushed' = [pushed EXCEPT ![r] = Append(@, Current(c))]
       /\ pc' = [pc EXCEPT ![c] = "fanout"]
       /\ UNCHANGED <<clients, alive, replay, todo, sent, channel, taken, dropped, joined>>

(* deliverToRoom takes the read lock: the map cannot change until it is done. *)
StartDeliver(c) ==
    /\ pc[c] = "fanout"
    /\ todo' = [todo EXCEPT ![c] = Recipients(c)]
    /\ pc' = [pc EXCEPT ![c] = "deliver"]
    /\ UNCHANGED <<hub, alive, replay, sent, channel, aux>>

(* Slip: a full channel is tried again, until there is room in it. *)
DeliverAgain(c, x) ==
    /\ pc[c] = "deliver"
    /\ x \in todo[c]
    /\ IF Len(send[x]) < SendCap
       THEN /\ TrySend(x, [frame |-> Current(c), via |-> "live"])
            /\ todo' = [todo EXCEPT ![c] = @ \ {x}]
       ELSE UNCHANGED <<send, dropped, todo>>
    /\ UNCHANGED <<hub, pc, alive, replay, sent, closed, writer, taken, pushed, joined>>

(* One round of its loop, in the map's random order. *)
DeliverOne(c, x) ==
    /\ pc[c] = "deliver"
    /\ x \in todo[c]
    /\ TrySend(x, [frame |-> Current(c), via |-> "live"])
    /\ todo' = [todo EXCEPT ![c] = @ \ {x}]
    /\ UNCHANGED <<hub, pc, alive, replay, sent, closed, writer, taken, pushed, joined>>

(* The read lock is released and the reader waits for the next frame. *)
EndDeliver(c) ==
    /\ pc[c] = "deliver"
    /\ todo[c] = {}
    /\ pc' = [pc EXCEPT ![c] = "reading"]
    /\ UNCHANGED <<hub, alive, replay, todo, sent, channel, aux>>

-----------------------------------------------------------------------------
(* The peer closes, the network drops, or the token's expiry closes the socket. *)
ConnLost(c) ==
    /\ c \in Breakable
    /\ pc[c] \notin {"idle", "gone"}
    /\ alive[c]
    /\ alive' = [alive EXCEPT ![c] = FALSE]
    /\ UNCHANGED <<hub, pc, replay, todo, sent, channel, aux>>

(* Slip: a failed read is passed over like a malformed frame. *)
ReadAgain(c) ==
    /\ pc[c] = "reading"
    /\ ~alive[c]
    /\ UNCHANGED vars

(* The reader loop ends, and with it the context of an authenticated handler. *)
ReadFails(c) ==
    /\ pc[c] = "reading"
    /\ ~alive[c]
    /\ pc' = [pc EXCEPT ![c] = "unregister"]
    /\ UNCHANGED <<hub, alive, replay, todo, sent, channel, aux>>

(* The deferred Unregister.  It tests that the map has a client under the id  *)
(* and not that the client is c.                                              *)
Unregister(c) ==
    /\ pc[c] = "unregister"
    /\ LockFree
    /\ IF clients[DeviceOf[c]] = NoConn
       THEN UNCHANGED <<clients, closed>>
       ELSE /\ clients' = [clients EXCEPT ![DeviceOf[c]] = NoConn]
            /\ closed' = [closed EXCEPT ![c] = TRUE]
    /\ pc' = [pc EXCEPT ![c] = "gone"]
    /\ UNCHANGED <<buffer, alive, replay, todo, sent, send, writer, aux>>

(* The writer goroutine hands a frame to the socket ... *)
WriteFrame(c) ==
    /\ writer[c] = "running"
    /\ send[c] # <<>>
    /\ alive[c]
    /\ taken' = [taken EXCEPT ![c] = Append(@, Head(send[c]))]
    /\ send' = [send EXCEPT ![c] = Tail(@)]
    /\ UNCHANGED <<hub, handler, closed, writer, dropped, pushed, joined>>

(* ... or fails to, and ends. *)
WriteFails(c) ==
    /\ writer[c] = "running"
    /\ send[c] # <<>>
    /\ ~alive[c]
    /\ taken' = [taken EXCEPT ![c] = Append(@, Head(send[c]))]
    /\ send' = [send EXCEPT ![c] = Tail(@)]
    /\ writer' = [writer EXCEPT ![c] = "stopped"]
    /\ UNCHANGED <<hub, handler, closed, dropped, pushed, joined>>

(* It also ends on a closed and drained channel and, in the authenticated     *)
(* handler only, when the handler's context is cancelled.                     *)
WriterStops(c) ==
    /\ writer[c] = "running"
    /\ \/ closed[c] /\ send[c] = <<>>
       \/ Authenticated /\ pc[c] \in {"unregister", "gone"}
    /\ writer' = [writer EXCEPT ![c] = "stopped"]
    /\ UNCHANGED <<hub, handler, send, closed, aux>>

(* Nobody connects or sends, and every handler waits for its socket. *)
Idle ==
    /\ \A c \in Conns : pc[c] \in {"idle", "reading", "gone"}
    /\ \A c \in Conns : pc[c] = "reading" => alive[c]
    /\ UNCHANGED vars

(* Steps a handler takes by itself, once a frame or an error has reached it. *)
Proceed(c) ==
    \/ ReplayOne(c)
    \/ Serve(c)
    \/ BufferFrame(c)
    \/ StartDeliver(c)
    \/ \E x \in Conns : DeliverOne(c, x)
    \/ EndDeliver(c)
    \/ ReadFails(c)
    \/ Unregister(c)

Next ==
    \/ \E c \in Conns :
          \/ Register(c)
          \/ Read(c)
          \/ Proceed(c)
          \/ ConnLost(c)
          \/ WriteFrame(c)
          \/ WriteFails(c)
          \/ WriterStops(c)
    \/ Idle

Spec == Init /\ [][Next]_vars

(* The scheduler runs every goroutine that can run, and Go's RWMutex lets no  *)
(* stream of readers starve a writer.  Nothing makes peers connect, send or   *)
(* drop, and nothing makes them read: WriteFrame may block for ever.          *)
Fairness ==
    \A c \in Conns :
        /\ WF_vars(Proceed(c))
        /\ WF_vars(WriteFails(c) \/ WriterStops(c))

FairSpec == Spec /\ Fairness

-----------------------------------------------------------------------------
TypeOK ==
    /\ clients \in [Devices -> Conns \union {NoConn}]
    /\ buffer \in [Rooms -> Seq(Frame)]
    /\ pc \in [Conns -> {"idle", "replay", "reading", "buffer", "fanout", "deliver",
                        "unregister", "gone"}]
    /\ alive \in [Conns -> BOOLEAN]
    /\ replay \in [Conns -> Seq(Frame)]
    /\ todo \in [Conns -> SUBSET Conns]
    /\ sent \in [Conns -> Nat]
    /\ send \in [Conns -> Seq(Entry)]
    /\ closed \in [Conns -> BOOLEAN]
    /\ writer \in [Conns -> {"none", "running", "stopped"}]
    /\ taken \in [Conns -> Seq(Entry)]
    /\ dropped \in [Conns -> SUBSET Entry]
    /\ pushed \in [Rooms -> Seq(Frame)]
    /\ joined \in [Conns -> [before : Nat, window : Seq(Frame)]]

(* What got through c's channel so far, in order. *)
Stream(c) == taken[c] \o send[c]

(* A send on a closed channel panics and takes the whole relay down.  hub.go  *)
(* closes a client's channel in Unregister while deliveries of other handlers *)
(* and, under a shared device id, other handlers' Unregister are under way:   *)
(* no delivery and no replay ever meets a closed channel.                     *)
NoSendOnClosed ==
    \A c \in Conns :
        /\ pc[c] = "replay" => ~closed[c]
        /\ \A x \in todo[c] : ~closed[x]

(* f has gone through c's channel, or was dropped at it. *)
Passed(c, f, via) ==
    [frame |-> f, via |-> via] \in ToSet(Stream(c)) \union dropped[c]

(* f was pushed, and its fan-out has not come to c yet. *)
InFlight(c, f) ==
    /\ f.from \in Conns
    /\ f.n = sent[f.from]
    /\ \/ pc[f.from] = "fanout"
       \/ c \in todo[f.from]

(* The frames pushed into c's room since c registered. *)
Owed(c) ==
    {pushed[RoomOf[c]][i] : i \in (joined[c].before + 1)..Len(pushed[RoomOf[c]])}

LiveCovered(c, f) ==
    SenderIdOf[f.from] = DeviceOf[c] \/ InFlight(c, f) \/ Passed(c, f, "live")

ReplayCovered(c, f) == f \in ToSet(replay[c]) \/ Passed(c, f, "replay")

(* hub.go:69-70, :129: the copy of the buffer and the entry in the map leave  *)
(* no gap.  A client in the map misses no frame pushed since it registered    *)
(* and none of the buffer it joined with: each has gone through its channel,  *)
(* is still to be replayed or delivered, was dropped from a full channel or   *)
(* is one the hub takes for the client's own.                                 *)
Accounted ==
    \A c \in Conns : Registered(c) =>
        /\ \A f \in Owed(c) : LiveCovered(c, f)
        /\ \A f \in ToSet(joined[c].window) : ReplayCovered(c, f)

(* Frames of one sender reach a client in the order they were sent, each at   *)
(* most once, on the live path; and so do the frames of the replay.           *)
StreamInOrder ==
    \A c \in Conns : \A i, j \in DOMAIN Stream(c) :
        LET a == Stream(c)[i] b == Stream(c)[j]
        IN i < j /\ a.via = b.via /\ a.frame.from = b.frame.from
              => a.frame.n < b.frame.n

(* PENTEST.md 2.1: nothing but frames pushed into a client's room ever        *)
(* reaches the client, on the live path or from the buffer.                   *)
RoomIsolation ==
    \A c \in Conns : \A e \in ToSet(Stream(c)) \union dropped[c] :
        e.frame \in ToSet(pushed[RoomOf[c]])

(* Frames of before the restart only. *)
AllRestored(s) == \A f \in ToSet(s) : f.from \in Rooms

(* ws.go:73-80: the channel holds more than a buffer may, so the replay loses *)
(* a frame only when live frames took its place, or when the buffer was still *)
(* as it was reloaded, with more prunes missed than the channel has to spare  *)
(* and nobody in the room since the relay restarted.                          *)
CatchUpFits ==
    \A c \in Conns :
        (\E e \in dropped[c] : e.via = "replay")
            => \/ \E e \in ToSet(Stream(c)) : e.via = "live"
               \/ Len(joined[c].window) > SendCap /\ AllRestored(joined[c].window)

(* hub.go:129: Broadcast delivers to all clients in the room: the device of a *)
(* connection in the map, working and served, does not leave the map that     *)
(* Broadcast walks, though another of its connections may take the place.     *)
DeviceReachable ==
    [][\A c \in Conns :
          /\ Registered(c)
          /\ pc[c] \in {"replay", "reading", "buffer", "fanout", "deliver"}
          /\ alive[c]
          => clients'[DeviceOf[c]] # NoConn]_vars

(* hub.go:167-171: a delivery never waits for a slow client: whatever the     *)
(* others do, a frame that was read is fanned out and the reader comes back.  *)
BroadcastCompletes ==
    \A c \in Conns : pc[c] = "buffer" ~> pc[c] = "reading"

(* A connection that broke is cleaned up: its handler ends and its writer     *)
(* goroutine with it.                                                         *)
ConnectionEnds ==
    \A c \in Conns :
        ~alive[c] ~> pc[c] = "gone" /\ writer[c] = "stopped"

-----------------------------------------------------------------------------
(* The inductive invariant from which RelayHubProofs derives NoSendOnClosed   *)
(* and Accounted.                                                             *)

(* A handler past its first Read has a frame to deliver. *)
SendersCounted ==
    \A c \in Conns : pc[c] \in {"buffer", "fanout", "deliver"} => sent[c] > 0

(* The read lock pins the map: a delivery's recipients stay registered. *)
RecipientsPinned ==
    \A c, x \in Conns : x \in todo[c] => pc[c] = "deliver" /\ Registered(x)

(* Only the connection's own Unregister closes its channel, whichever client *)
(* it found in the map; a connection registers once, so it stays out of it.  *)
ClosedIsGone ==
    \A c \in Conns : closed[c] => pc[c] = "gone" /\ ~Registered(c)

(* A room holds frames of its own connections and of its past only. *)
HomeOf(f) == IF f.from \in Conns THEN RoomOf[f.from] ELSE f.from

PushedInRoom ==
    \A r \in Rooms : \A i \in 1..Len(pushed[r]) : HomeOf(pushed[r][i]) = r

HubInv ==
    /\ TypeOK
    /\ SendersCounted
    /\ RecipientsPinned
    /\ ClosedIsGone
    /\ PushedInRoom
    /\ Accounted

-----------------------------------------------------------------------------
(* The invariant from which RelayHubProofs derives RoomIsolation: where the   *)
(* frames of a room can be.                                                   *)

(* The frame a sender has in hand was pushed into its room. *)
InHandPushed ==
    \A c \in Conns :
        pc[c] \in {"fanout", "deliver"} => Current(c) \in ToSet(pushed[RoomOf[c]])

(* The map may change between deliveries, the recipients' rooms do not. *)
RecipientsInRoom ==
    \A c, x \in Conns : x \in todo[c] => RoomOf[x] = RoomOf[c]

BufferPushed == \A r \in Rooms : ToSet(buffer[r]) \subseteq ToSet(pushed[r])

ReplayPushed == \A c \in Conns : ToSet(replay[c]) \subseteq ToSet(pushed[RoomOf[c]])

RoomInv ==
    /\ InHandPushed
    /\ RecipientsInRoom
    /\ BufferPushed
    /\ ReplayPushed
    /\ RoomIsolation

-----------------------------------------------------------------------------
(* The invariant from which RelayHubProofs derives CatchUpFits and            *)
(* StreamInOrder.                                                             *)

(* Nobody is served before it registers. *)
IdleIsEmpty ==
    \A c \in Conns :
        pc[c] = "idle" =>
            ~Registered(c) /\ taken[c] = <<>> /\ send[c] = <<>> /\ dropped[c] = {}

AllReplayed(c) == \A e \in ToSet(Stream(c)) : e.via = "replay"

(* A buffer of before the restart shrinks to the limit with the first push;   *)
(* until a live frame comes, what was replayed and what is left are a buffer. *)
Limited(s) == Len(s) <= MaxFrames \/ AllRestored(s)

ReplayFits ==
    /\ \A r \in Rooms : Limited(buffer[r])
    /\ \A c \in Conns :
          /\ Limited(joined[c].window)
          /\ pc[c] = "replay" /\ AllReplayed(c)
                => Len(Stream(c)) + Len(replay[c]) <= Len(joined[c].window)

InSendOrder(s) ==
    \A i, j \in 1..Len(s) : i < j /\ s[i].from = s[j].from => s[i].n < s[j].n

(* The nth frame of c is older than one c has read and not pushed yet.        *)
OlderThan(c, n) == n <= sent[c] /\ (pc[c] = "buffer" => n < sent[c])

BufferInOrder ==
    \A r \in Rooms :
        /\ InSendOrder(buffer[r])
        /\ \A f \in ToSet(buffer[r]) : f.from \in Conns => OlderThan(f.from, f.n)

ReplayInOrder ==
    \A c \in Conns :
        /\ InSendOrder(replay[c])
        /\ \A e \in ToSet(Stream(c)), f \in ToSet(replay[c]) :
              e.via = "replay" /\ e.frame.from = f.from => e.frame.n < f.n

(* A frame in its sender's hand is newer than what a client it goes to got.   *)
LiveBehind ==
    \A c \in Conns : \A e \in ToSet(Stream(c)) : e.via = "live" =>
        LET s == e.frame.from
        IN /\ s \in Conns
           /\ e.frame.n <= sent[s]
           /\ pc[s] \in {"buffer", "fanout"} \/ c \in todo[s] => e.frame.n < sent[s]

StreamInv ==
    /\ IdleIsEmpty
    /\ ReplayFits
    /\ BufferInOrder
    /\ ReplayInOrder
    /\ LiveBehind
    /\ StreamInOrder
=============================================================================
