------------------------------- MODULE WebStore -------------------------------
(* The synchronising half of web-app/src/hooks/useVersaStore.ts, with          *)
(* wasm/versaEngine.ts: one browser tab that keeps its edits over reloads and  *)
(* sign-outs, and connects to the relay again and again.  React renders what a *)
(* timer, a socket or a promise changed in a later task, and what a click      *)
(* changed at once; the continuations of an await run before either.           *)
EXTENDS Naturals, FiniteSets

CONSTANTS
    Edits,      \* what this tab's user does
    Remote,     \* what other devices do
    Slots,      \* bound: runs of the connect effect that are alive together
    NoSlot,     \* null, or a socket that was closed, in wsRef
    MaxFaults   \* bound: failures, warnings, expiries, reloads, sign-outs and
                \* sign-ins answered without a refresh token

ASSUME WebStoreAssumption ==
    /\ Edits \intersect Remote = {}
    /\ NoSlot \notin Slots
    /\ MaxFaults \in Nat

VARIABLES
    snapshot,   \* localStorage[SNAPSHOT_KEY], as the edits in it
    stored,     \* localStorage[QUEUE_KEY]
    engine,     \* state of the promise that getEngine memoizes
    doc,        \* edits in the engine
    token,      \* the session's access token: none, accepted or expired
    renewable,  \* whether localStorage holds a refresh token
    refreshing, \* whether a refresh of the session is under way
    mounted,    \* whether TaskList is on the screen
    retry,      \* retryCount: zero or more
    changed,    \* whether a dependency changed since the effect ran
    didRefresh, \* didRefreshRef
    queue,      \* queueRef
    wsRef,      \* slot of the socket in wsRef
    connected,
    fx,         \* slot -> a run of the connect effect, with its socket
    wire,       \* slot -> edits sent on its socket and not arrived
    renewing,   \* sockets whose message handler waits for a refresh
    relay,      \* edits that reached the relay
    made,       \* history: edits the user made
    unsaved,    \* history: edits whose snapshot could not be written
    unread,     \* history: stored edits that a load passed over and the engine lacks
    asked,      \* history: refreshes by the effect since one was last allowed
    faults

disk    == <<snapshot, stored>>
session == <<token, renewable, refreshing>>
hook    == <<mounted, retry, changed, didRefresh, queue, wsRef, connected>>
runs    == <<fx, wire, renewing>>
history == <<made, unsaved, unread, asked>>
vars    == <<disk, engine, doc, session, hook, runs, relay, history, faults>>

AnyEdit == Edits \union Remote

(* owner: "page" is the run in force, "past" one cancelled by its successor,  *)
(* "gone" one cancelled when TaskList left the screen.                        *)
Run ==
    [owner: {"none", "page", "past", "gone"},
     stage: {"engine", "refresh", "connecting", "open", "backoff", "stopped"},
     tok: {"none", "good", "expired"}]

Idle == [owner |-> "none", stage |-> "stopped", tok |-> "none"]

TypeOK ==
    /\ snapshot \subseteq AnyEdit /\ stored \subseteq Edits
    /\ engine \in {"none", "loading", "ready", "broken"}
    /\ doc \subseteq AnyEdit
    /\ token \in {"none", "good", "expired"}
    /\ renewable \in BOOLEAN /\ refreshing \in BOOLEAN /\ mounted \in BOOLEAN
    /\ retry \in {0, 1} /\ changed \in BOOLEAN /\ didRefresh \in BOOLEAN
    /\ queue \subseteq Edits
    /\ wsRef \in Slots \union {NoSlot}
    /\ connected \in BOOLEAN
    /\ fx \in [Slots -> Run]
    /\ wire \in [Slots -> SUBSET AnyEdit]
    /\ renewing \subseteq Slots
    /\ relay \subseteq AnyEdit
    /\ made \subseteq Edits /\ unsaved \subseteq AnyEdit /\ unread \subseteq AnyEdit
    /\ asked \in Nat /\ faults \in 0..MaxFaults

Init ==
    /\ snapshot = {} /\ stored = {}
    /\ engine = "none" /\ doc = {}
    /\ token = "none" /\ renewable = FALSE /\ refreshing = FALSE
    /\ mounted = FALSE /\ retry = 0 /\ changed = FALSE /\ didRefresh = FALSE
    /\ queue = {} /\ wsRef = NoSlot /\ connected = FALSE
    /\ fx = [s \in Slots |-> Idle] /\ wire = [s \in Slots |-> {}] /\ renewing = {}
    /\ relay = {}
    /\ made = {} /\ unsaved = {} /\ unread = {} /\ asked = 0
    /\ faults = 0

Fault == faults < MaxFaults /\ faults' = faults + 1

Free(f) == {s \in Slots : f[s] = Idle}
At(stage) == {s \in Slots : fx[s].owner # "none" /\ fx[s].stage = stage}
InForce(s) == fx[s].owner = "page"

-----------------------------------------------------------------------------
(* Storage.  A read or write that fails is passed over; in a step that reads  *)
(* or writes twice one fault covers both.                                     *)

saveSnapshot(d) ==
    \/ snapshot' = d /\ unsaved' = unsaved \ d /\ UNCHANGED faults
    \/ Fault /\ unsaved' = unsaved \union (d \ snapshot) /\ UNCHANGED snapshot

(* Slip: the stored document is not merged into the engine.                   *)
LoadNothing(d) == doc' = d /\ UNCHANGED unread

(* The stored document merged into an engine that holds d.  A stored document *)
(* that cannot be read, decoded or merged leaves the engine as it is.         *)
loadSnapshot(d) ==
    \/ doc' = d \union snapshot /\ unread' = unread \ snapshot
    \/ faults' # faults /\ doc' = d /\ unread' = unread \union (snapshot \ d)

loadQueue == queue' \in {stored} \union (IF faults' = faults THEN {} ELSE {{}})

(* A queue that cannot be written stays as it was.                            *)
saveQueue(q) == stored' \in {q} \union (IF faults' = faults THEN {} ELSE {stored})

clearQueue == stored' = {}

-----------------------------------------------------------------------------
(* The connect effect.                                                        *)

(* Slip: didRefreshRef is read and never set.                                 *)
ProceedForgetful(f, s) ==
    LET first == retry > 0 /\ ~didRefresh
        waits == first /\ (renewable \/ refreshing)
    IN /\ fx' = [f EXCEPT ![s].stage = IF waits THEN "refresh" ELSE "connecting"]
       /\ wsRef' = IF waits THEN NoSlot ELSE s
       /\ refreshing' = (refreshing \/ waits)
       /\ asked' = IF first THEN asked + 1 ELSE asked
       /\ UNCHANGED didRefresh

(* The run in slot s once it has the engine: a refresh first, or the socket.  *)
(* Without a refresh token refresh() answers null at once and the run goes on *)
(* with the token it has.                                                     *)
Proceed(f, s) ==
    LET first == retry > 0 /\ ~didRefresh
        waits == first /\ (renewable \/ refreshing)
    IN /\ fx' = [f EXCEPT ![s].stage = IF waits THEN "refresh" ELSE "connecting"]
       /\ wsRef' = IF waits THEN NoSlot ELSE s
       /\ refreshing' = (refreshing \/ waits)
       /\ asked' = IF first THEN asked + 1 ELSE asked
       /\ didRefresh' = (didRefresh \/ first)

(* The effect's body in a free slot of f, up to its first await that lasts.   *)
Start(f) ==
    \E s \in {CHOOSE s \in Free(f) : TRUE} :
        LET new == [f EXCEPT ![s] =
                       [owner |-> "page", stage |-> "engine", tok |-> token]]
        IN CASE engine = "ready" ->
                  /\ loadSnapshot(doc)
                  /\ Proceed(new, s)
                  /\ UNCHANGED engine
             [] engine = "broken" ->
                  /\ fx' = [new EXCEPT ![s].stage = "stopped"]
                  /\ wsRef' = NoSlot
                  /\ UNCHANGED <<engine, doc, unread, didRefresh, refreshing, asked>>
             [] OTHER ->
                  /\ engine' = "loading"
                  /\ fx' = new
                  /\ wsRef' = NoSlot
                  /\ UNCHANGED <<doc, unread, didRefresh, refreshing, asked>>

(* Slip: the cleanup forgets the socket.                                      *)
CancelOnly(by) ==
    [s \in Slots |->
        IF fx[s].owner # "page" THEN fx[s]
        ELSE IF fx[s].stage \in {"backoff", "stopped"} THEN Idle
        ELSE [fx[s] EXCEPT !.owner = by]]

(* The runs after the cleanup: the one in force is cancelled, the socket in   *)
(* wsRef is closed.  A cancelled run that awaits something goes on.           *)
Cancelled(by) ==
    [s \in Slots |->
        IF s = wsRef THEN Idle
        ELSE IF fx[s].owner # "page" THEN fx[s]
        ELSE IF fx[s].stage \in {"backoff", "stopped"} THEN Idle
        ELSE [fx[s] EXCEPT !.owner = by]]

(* What the closed sockets still had to send arrives, or does not.            *)
Flush(f) ==
    LET closed == {s \in Slots : f[s] = Idle}
    IN /\ relay' \in {relay, relay \union UNION {wire[s] : s \in closed}}
       /\ wire' = [s \in Slots |-> IF s \in closed THEN {} ELSE wire[s]]
       /\ renewing' = renewing \ closed

(* TaskList on the screen: the hook's state is new, its queue the stored one. *)
Mount ==
    /\ token # "none" /\ ~mounted
    /\ Free(fx) # {}
    /\ mounted' = TRUE /\ retry' = 0 /\ changed' = FALSE
    /\ Fault \/ UNCHANGED faults
    /\ loadQueue
    /\ connected' = FALSE
    /\ Start(fx)
    /\ UNCHANGED <<disk, token, renewable, wire, renewing, relay, made, unsaved>>

(* Passive effects after a render in which the token or retryCount changed.   *)
Rerun ==
    /\ mounted /\ token # "none" /\ changed
    /\ changed' = FALSE
    /\ Free(Cancelled("past")) # {}
    /\ Fault \/ UNCHANGED faults
    /\ Start(Cancelled("past"))
    /\ Flush(Cancelled("past"))
    /\ UNCHANGED <<disk, token, renewable, mounted, retry, queue, connected, made, unsaved>>

Leave ==
    /\ mounted' = FALSE /\ retry' = 0 /\ changed' = FALSE /\ didRefresh' = FALSE
    /\ queue' = {} /\ wsRef' = NoSlot /\ connected' = FALSE
    /\ asked' = 0
    /\ fx' = Cancelled("gone")
    /\ Flush(Cancelled("gone"))

(* App replaces TaskList once the session has no token.                       *)
Unmount ==
    /\ mounted /\ token = "none"
    /\ Leave
    /\ UNCHANGED <<disk, engine, doc, session, made, unsaved, unread, faults>>

SignOut ==
    /\ mounted /\ token # "none"
    /\ Fault
    /\ token' = "none" /\ renewable' = FALSE
    /\ Leave
    /\ UNCHANGED <<disk, engine, doc, refreshing, made, unsaved, unread>>

SignIn ==
    /\ token = "none" /\ ~mounted /\ ~refreshing
    /\ token' = "good"
    /\ \/ renewable' = TRUE /\ UNCHANGED faults
       \/ renewable' = FALSE /\ Fault
    /\ UNCHANGED <<disk, engine, doc, refreshing, hook, runs, relay, history>>

(* The page's memory is gone; the storage stays.                              *)
Reload ==
    /\ Fault
    /\ engine' = "none" /\ doc' = {}
    /\ refreshing' = FALSE
    /\ mounted' = FALSE /\ retry' = 0 /\ changed' = FALSE /\ didRefresh' = FALSE
    /\ queue' = {} /\ wsRef' = NoSlot /\ connected' = FALSE
    /\ asked' = 0
    /\ fx' = [s \in Slots |-> Idle]
    /\ Flush([s \in Slots |-> Idle])
    /\ UNCHANGED <<disk, token, renewable, made, unsaved, unread>>

(* The engine is there: every run that awaited it continues.  All of them are *)
(* first runs of a mounted hook, which never refresh.                         *)
EngineLoads ==
    /\ engine = "loading"
    /\ engine' = "ready"
    /\ Fault \/ UNCHANGED faults
    /\ loadSnapshot({})
    /\ LET on == At("engine")
       IN /\ fx' = [s \in Slots |->
                       IF s \in on THEN [fx[s] EXCEPT !.stage = "connecting"] ELSE fx[s]]
          /\ wsRef' = IF \E s \in on : fx[s].owner # "gone"
                      THEN CHOOSE s \in on : fx[s].owner # "gone" ELSE wsRef
    /\ UNCHANGED <<disk, session, mounted, retry, changed, didRefresh, queue, connected,
                   wire, renewing, relay, made, unsaved, asked>>

(* The rejected promise is kept: getEngine rejects until the page is reloaded. *)
EngineFails ==
    /\ engine = "loading"
    /\ Fault
    /\ engine' = "broken"
    /\ fx' = [s \in Slots |-> IF s \notin At("engine") THEN fx[s]
                              ELSE IF InForce(s) THEN [fx[s] EXCEPT !.stage = "stopped"]
                              ELSE Idle]
    /\ UNCHANGED <<disk, doc, session, hook, wire, renewing, relay, history>>

-----------------------------------------------------------------------------
(* The socket's handlers.                                                     *)

(* Slip: the queue is taken to hold all that the relay lacks.                 *)
OpensWithQueue(s) ==
    /\ s \in At("connecting") /\ InForce(s) /\ fx[s].tok = "good"
    /\ fx' = [fx EXCEPT ![s].stage = "open"]
    /\ didRefresh' = FALSE /\ asked' = 0
    /\ retry' = 0 /\ changed' = (changed \/ retry > 0)
    /\ connected' = TRUE
    /\ wire' = [wire EXCEPT ![s] = queue]
    /\ queue' = {} /\ clearQueue
    /\ UNCHANGED <<snapshot, engine, doc, session, mounted, wsRef, renewing, relay,
                   made, unsaved, unread, faults>>

(* onopen of the run in force.  Everything the page knows goes on the wire.   *)
SocketOpens(s) ==
    /\ s \in At("connecting") /\ InForce(s) /\ fx[s].tok = "good"
    /\ fx' = [fx EXCEPT ![s].stage = "open"]
    /\ didRefresh' = FALSE /\ asked' = 0
    /\ retry' = 0 /\ changed' = (changed \/ retry > 0)
    /\ connected' = TRUE
    /\ wire' = [wire EXCEPT ![s] = doc \union queue]
    /\ queue' = {} /\ clearQueue
    /\ UNCHANGED <<snapshot, engine, doc, session, mounted, wsRef, renewing, relay,
                   made, unsaved, unread, faults>>

(* onopen of a cancelled run returns at once; the socket stays.               *)
StrayOpens(s) ==
    /\ s \in At("connecting") /\ ~InForce(s) /\ fx[s].tok = "good"
    /\ fx' = [fx EXCEPT ![s].stage = "open"]
    /\ UNCHANGED <<disk, engine, doc, session, hook, wire, renewing, relay, history, faults>>

(* Slip: only a clean close shows.                                            *)
ClosedQuietly(s, code) ==
    /\ fx' = [fx EXCEPT ![s] = IF ~InForce(s) THEN Idle
                               ELSE [@ EXCEPT !.stage = IF code = "clean" THEN "stopped" ELSE "backoff"]]
    /\ connected' = (connected /\ (InForce(s) => code # "clean"))
    /\ didRefresh' = (didRefresh /\ (InForce(s) => code # "auth"))
    /\ asked' = IF InForce(s) /\ code = "auth" THEN 0 ELSE asked
    /\ wsRef' = IF InForce(s) \/ wsRef # s THEN wsRef ELSE NoSlot
    /\ wire' = [wire EXCEPT ![s] = {}]
    /\ renewing' = renewing \ {s}
    /\ UNCHANGED <<disk, engine, doc, session, mounted, retry, changed, queue, relay,
                   made, unsaved, unread>>

(* onclose.  "clean" is 1000 or 1001, "auth" 1008 or 4001, "lost" any other.  *)
Closed(s, code) ==
    /\ fx' = [fx EXCEPT ![s] = IF ~InForce(s) THEN Idle
                               ELSE [@ EXCEPT !.stage = IF code = "clean" THEN "stopped" ELSE "backoff"]]
    /\ connected' = (connected /\ ~InForce(s))
    /\ didRefresh' = (didRefresh /\ (InForce(s) => code # "auth"))
    /\ asked' = IF InForce(s) /\ code = "auth" THEN 0 ELSE asked
    /\ wsRef' = IF InForce(s) \/ wsRef # s THEN wsRef ELSE NoSlot
    /\ wire' = [wire EXCEPT ![s] = {}]
    /\ renewing' = renewing \ {s}
    /\ UNCHANGED <<disk, engine, doc, session, mounted, retry, changed, queue, relay,
                   made, unsaved, unread>>

(* The relay answers 401 to an expired token: the browser reports code 1006.  *)
Refused(s) ==
    /\ s \in At("connecting") /\ fx[s].tok = "expired"
    /\ Closed(s, "lost")
    /\ UNCHANGED faults

(* The relay closes a connection whose token has expired with code 1008.      *)
CutOff(s) ==
    /\ s \in At("open") /\ fx[s].tok = "expired"
    /\ Closed(s, "auth")
    /\ UNCHANGED faults

Breaks(s) ==
    /\ Fault
    /\ \/ s \in At("connecting") \union At("open") /\ Closed(s, "lost")
       \/ s \in At("open") /\ Closed(s, "clean")

RetryTimer(s) ==
    /\ s \in At("backoff")
    /\ retry' = 1 /\ changed' = TRUE
    /\ UNCHANGED <<disk, engine, doc, session, mounted, didRefresh, queue, wsRef, connected,
                   runs, relay, history, faults>>

(* A frame of another device.  One that does not merge changes nothing.       *)
Receive(s, e) ==
    /\ s \in At("open") /\ InForce(s)
    /\ e \notin doc
    /\ doc' = doc \union {e}
    /\ saveSnapshot(doc')
    /\ UNCHANGED <<stored, engine, session, hook, runs, relay, made, unread, asked>>

(* token_expiring_soon: the handler waits for a refresh.  Without a refresh   *)
(* token it gets null at once, and nothing is sent.                           *)
Warned(s) ==
    /\ s \in At("open") /\ InForce(s)
    /\ renewable \/ refreshing
    /\ Fault
    /\ renewing' = renewing \union {s}
    /\ refreshing' = TRUE
    /\ UNCHANGED <<disk, engine, doc, token, renewable, hook, fx, wire, relay, history>>

(* Every run and handler that awaits the refresh continues: the runs connect, *)
(* with the new token or the one they have, a handler sends "reauth".         *)
Resume(t) ==
    LET on == At("refresh")
        own == {s \in on : fx[s].owner # "gone"}
    IN /\ fx' = [s \in Slots |->
                    IF s \in on
                    THEN [fx[s] EXCEPT !.stage = "connecting", !.tok = IF t = "none" THEN @ ELSE t]
                    ELSE IF s \in renewing /\ t # "none" THEN [fx[s] EXCEPT !.tok = t]
                    ELSE fx[s]]
       /\ wsRef' = IF own = {} THEN wsRef ELSE CHOOSE s \in own : TRUE
       /\ renewing' = {}
       /\ refreshing' = FALSE
       /\ token' = t

RefreshSucceeds ==
    /\ refreshing
    /\ Resume("good")
    /\ renewable' \in {renewable, TRUE}
    /\ changed' = mounted
    /\ UNCHANGED <<disk, engine, doc, mounted, retry, didRefresh, queue, connected, wire,
                   relay, history, faults>>

RefreshFails ==
    /\ refreshing
    /\ Fault
    /\ Resume("none")
    /\ renewable' = FALSE
    /\ UNCHANGED <<disk, engine, doc, mounted, retry, changed, didRefresh, queue, connected,
                   wire, relay, history>>

-----------------------------------------------------------------------------
(* The user, the relay and time.                                              *)

(* Slip: the snapshot is queued in the diff's place.                          *)
QueueSnapshot(e) ==
    IF wsRef # NoSlot /\ fx[wsRef].stage = "open"
    THEN /\ wire' = [wire EXCEPT ![wsRef] = @ \union {e}]
         /\ UNCHANGED <<queue, stored>>
    ELSE /\ queue' = queue \union doc'
         /\ saveQueue(queue')
         /\ UNCHANGED wire

sendDiff(e) ==
    IF wsRef # NoSlot /\ fx[wsRef].stage = "open"
    THEN /\ wire' = [wire EXCEPT ![wsRef] = @ \union {e}]
         /\ UNCHANGED <<queue, stored>>
    ELSE /\ queue' = queue \union {e}
         /\ saveQueue(queue')
         /\ UNCHANGED wire

(* The end of every operation on tasks and lists.                             *)
Edit(e) ==
    /\ mounted /\ engine = "ready"
    /\ e \notin made
    /\ made' = made \union {e}
    /\ doc' = doc \union {e}
    /\ saveSnapshot(doc')
    /\ sendDiff(e)
    /\ UNCHANGED <<engine, session, mounted, retry, changed, didRefresh, wsRef, connected,
                   fx, renewing, relay, unread, asked>>

Deliver(s) ==
    /\ s \in At("open") /\ wire[s] # {}
    /\ relay' = relay \union wire[s]
    /\ wire' = [wire EXCEPT ![s] = {}]
    /\ UNCHANGED <<disk, engine, doc, session, hook, fx, renewing, history, faults>>

Expire ==
    /\ token = "good"
    /\ Fault
    /\ token' = "expired"
    /\ fx' = [s \in Slots |-> IF fx[s].tok = "good" THEN [fx[s] EXCEPT !.tok = "expired"]
                              ELSE fx[s]]
    /\ UNCHANGED <<disk, engine, doc, renewable, refreshing, hook, wire, renewing, relay,
                   history>>

Next ==
    \/ Mount \/ Rerun \/ Unmount \/ SignOut \/ SignIn \/ Reload
    \/ EngineLoads \/ EngineFails \/ RefreshSucceeds \/ RefreshFails \/ Expire
    \/ \E s \in Slots :
          \/ SocketOpens(s) \/ StrayOpens(s) \/ Refused(s) \/ CutOff(s) \/ Breaks(s)
          \/ RetryTimer(s) \/ Warned(s) \/ Deliver(s)
          \/ \E e \in Remote : Receive(s, e)
    \/ \E e \in Edits : Edit(e)

Spec == Init /\ [][Next]_vars

(* The browser runs what is due, and fetches and connections settle.          *)
FairSpec ==
    /\ Spec
    /\ WF_vars(Mount) /\ WF_vars(Rerun) /\ WF_vars(Unmount)
    /\ WF_vars(EngineLoads) /\ WF_vars(RefreshSucceeds)
    /\ \A s \in Slots :
          WF_vars(SocketOpens(s) \/ Refused(s)) /\ WF_vars(RetryTimer(s)) /\ WF_vars(Deliver(s))

-----------------------------------------------------------------------------
(* Properties.                                                                *)

(* useVersaStore.ts:107-108: "Only refresh once per reconnect cycle", over     *)
(* every order of retries, refreshes, re-runs of the effect and expiries.      *)
OneRefreshPerCycle == asked <= 1

(* useVersaStore.ts:118-120,190-193: `cancelled' is not looked at again after  *)
(* the awaits, and only wsRef's socket is closed: still the page never keeps a *)
(* second socket, except one that a run creates after TaskList left the screen.*)
OneSocket ==
    LET sockets == At("connecting") \union At("open")
    IN /\ \A s, r \in {x \in sockets : fx[x].owner # "gone"} : s = r
       /\ \A s \in sockets : fx[s].owner # "gone" => InForce(s) /\ wsRef = s

(* TaskList.tsx:134 with useVersaStore.ts:127,174: "live" is on the screen     *)
(* only while the run in force has a socket that is open or being opened.      *)
LiveMeansSocket ==
    connected => \E s \in At("connecting") \union At("open") : InForce(s)

(* useVersaStore.ts:32-47,100: over reloads, sign-outs and half-loaded engines *)
(* an edit is missing from the stored snapshot only if a write of it failed or *)
(* a load that failed ("non-fatal") left the engine without it.                *)
EditsSurvive == made \subseteq snapshot \union unsaved \union unread

(* The page cannot connect any more: nobody is signed in, the engine is gone,  *)
(* the relay closed cleanly ("don't retry"), or the relay refuses the token    *)
(* and the one refresh of this reconnect cycle is behind it.                   *)
Stranded ==
    \/ token = "none" \/ engine = "broken"
    \/ \E s \in At("stopped") : InForce(s)
    \/ token = "expired" /\ didRefresh /\ ~refreshing

(* README.md:3 ("sync instantly when connected"), useVersaStore.ts:128-132,    *)
(* 186: what the snapshot holds reaches the relay, though the queue is emptied *)
(* before a socket that may fail has sent it, unless the page is stranded or   *)
(* the snapshot could not be loaded.                                           *)
EditsReachRelay ==
    \A e \in Edits : e \in snapshot ~> e \in relay \/ e \in unread \/ Stranded

(* useVersaStore.ts:179-182: "Auth rejection - force a refresh on the next     *)
(* attempt": a page that is refused for its token refreshes it, if it can.     *)
RejectionForcesRefresh ==
    (renewable /\ \E s \in At("backoff") : InForce(s) /\ fx[s].tok = "expired")
        ~> (refreshing \/ token # "expired" \/ ~mounted)
=============================================================================
