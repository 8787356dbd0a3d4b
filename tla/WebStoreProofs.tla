---------------------------- MODULE WebStoreProofs ----------------------------
(* Proofs about WebStore for any edits, slots and number of faults.           *)
EXTENDS WebStore, TLAPS

-----------------------------------------------------------------------------
(* One refresh per cycle.  The ref that remembers a refresh is set wherever   *)
(* one is counted, and cleared only where the count starts again.             *)

RefreshInv ==
    /\ asked \in {0, 1}
    /\ asked = 1 => didRefresh = TRUE

LEMMA ProceedOnce ==
    ASSUME NEW f, NEW s, RefreshInv, Proceed(f, s) PROVE RefreshInv'
<1>1. CASE retry > 0 /\ ~didRefresh
    <2>1. didRefresh' = TRUE
        BY Zenon, <1>1 DEF Proceed
    <2>2. asked' = asked + 1
        BY <1>1 DEF Proceed
    <2>3. asked = 0
        BY <1>1 DEF RefreshInv
    <2> QED BY <2>1, <2>2, <2>3 DEF RefreshInv
<1>2. CASE ~(retry > 0 /\ ~didRefresh)
    <2>1. didRefresh = TRUE => didRefresh' = TRUE
        BY Zenon, <1>2 DEF Proceed
    <2>2. asked' = asked
        BY <1>2 DEF Proceed
    <2> QED BY <2>1, <2>2 DEF RefreshInv
<1> QED BY <1>1, <1>2

LEMMA StartOnce ==
    ASSUME NEW f, RefreshInv, Start(f) PROVE RefreshInv'
<1>1. PICK s \in {CHOOSE s \in Free(f) : TRUE} :
        LET new == [f EXCEPT ![s] = [owner |-> "page", stage |-> "engine", tok |-> token]]
        IN \/ engine = "ready" /\ Proceed(new, s)
           \/ UNCHANGED <<didRefresh, refreshing, asked>>
    BY Zenon DEF Start
<1>2. CASE UNCHANGED <<didRefresh, refreshing, asked>>
    BY <1>2 DEF RefreshInv
<1>3. CASE \E new : Proceed(new, s)
    BY <1>3, ProceedOnce
<1> QED BY <1>1, <1>2, <1>3

LEMMA ClosedOnce ==
    ASSUME NEW s, NEW code, RefreshInv, Closed(s, code) PROVE RefreshInv'
<1>1. CASE InForce(s) /\ code = "auth"
    BY <1>1 DEF Closed, RefreshInv
<1>2. CASE ~(InForce(s) /\ code = "auth")
    <2>1. asked' = asked
        BY <1>2 DEF Closed
    <2>2. didRefresh = TRUE => didRefresh' = TRUE
        BY <1>2 DEF Closed
    <2> QED BY <2>1, <2>2 DEF RefreshInv
<1> QED BY <1>1, <1>2

LEMMA RefreshInvariant == Spec => []RefreshInv
<1>1. Init => RefreshInv
    BY DEF Init, RefreshInv
<1>2. RefreshInv /\ [Next]_vars => RefreshInv'
  <2> SUFFICES ASSUME RefreshInv, [Next]_vars PROVE RefreshInv'
    OBVIOUS
  <2>1. CASE UNCHANGED <<didRefresh, asked>>
    BY <2>1 DEF RefreshInv
  <2>2. CASE asked' = 0
    BY <2>2 DEF RefreshInv
  <2>3. CASE Mount
    BY <2>3, StartOnce DEF Mount
  <2>4. CASE Rerun
    BY <2>4, StartOnce DEF Rerun
  <2>5. CASE Unmount \/ SignOut \/ Reload
    BY <2>5, <2>2 DEF Unmount, SignOut, Reload, Leave
  <2>6. CASE SignIn \/ EngineLoads \/ EngineFails \/ RefreshSucceeds \/ RefreshFails \/ Expire
    BY <2>6, <2>1 DEF SignIn, EngineLoads, EngineFails, RefreshSucceeds, RefreshFails, Expire,
                      hook, history
  <2>7. ASSUME NEW s \in Slots,
               \/ SocketOpens(s) \/ StrayOpens(s) \/ RetryTimer(s) \/ Warned(s) \/ Deliver(s)
               \/ \E e \in Remote : Receive(s, e)
        PROVE  RefreshInv'
    BY <2>7, <2>1, <2>2 DEF SocketOpens, StrayOpens, RetryTimer, Warned, Deliver, Receive,
                            hook, history
  <2>8. ASSUME NEW s \in Slots, Refused(s) \/ CutOff(s) \/ Breaks(s) PROVE RefreshInv'
    BY <2>8, ClosedOnce DEF Refused, CutOff, Breaks
  <2>9. ASSUME NEW e \in Edits, Edit(e) PROVE RefreshInv'
    BY <2>9, <2>1 DEF Edit
  <2>10. CASE UNCHANGED vars
    BY <2>10, <2>1 DEF vars, hook, history
  <2> QED BY <2>3, <2>4, <2>5, <2>6, <2>7, <2>8, <2>9, <2>10 DEF Next
<1> QED BY <1>1, <1>2, PTL DEF Spec

(* useVersaStore.ts:107-120,126,181: no order of retries, expiries, closes,   *)
(* sign-outs and re-runs of the effect asks twice in one reconnect cycle.     *)
THEOREM RefreshesOnce == Spec => []OneRefreshPerCycle
<1>1. RefreshInv => OneRefreshPerCycle
    BY DEF RefreshInv, OneRefreshPerCycle
<1> QED BY <1>1, RefreshInvariant, PTL

-----------------------------------------------------------------------------
(* Nothing is written over.  A run of the effect that is past its await of    *)
(* the engine shows that the engine is there, and an engine that is there     *)
(* holds what the storage holds, but for what a failed load left out: so a    *)
(* snapshot written from it loses nothing else.                               *)

Stages == {"engine", "refresh", "connecting", "open", "backoff", "stopped"}

Awake(r) == r.owner # "none" /\ r.stage \in {"refresh", "connecting", "open", "backoff"}

(* Every awake run of f has the engine. *)
HaveEngine(f) == \A s \in Slots : Awake(f[s]) => engine = "ready"

DocHoldsSnapshot == engine = "ready" => snapshot \subseteq doc \union unread

SurviveInv ==
    /\ token \in {"none", "good", "expired"}
    /\ fx \in [Slots -> Run]
    /\ HaveEngine(fx)
    /\ DocHoldsSnapshot
    /\ EditsSurvive

LEMMA IdleSleeps == Idle \in Run /\ ~Awake(Idle)
BY DEF Idle, Run, Awake

(* What changing one field does to a run. *)
LEMMA StageChange ==
    ASSUME NEW r \in Run, NEW x \in Stages
    PROVE  /\ [r EXCEPT !.stage = x] \in Run
           /\ [r EXCEPT !.stage = x].owner = r.owner
           /\ [r EXCEPT !.stage = x].stage = x
BY DEF Run, Stages

LEMMA OwnerChange ==
    ASSUME NEW r \in Run, NEW by \in {"past", "gone"}, r.owner # "none"
    PROVE  /\ [r EXCEPT !.owner = by] \in Run
           /\ Awake([r EXCEPT !.owner = by]) => Awake(r)
BY DEF Run, Awake

LEMMA TokChange ==
    ASSUME NEW r \in Run, NEW t \in {"none", "good", "expired"}
    PROVE  /\ [r EXCEPT !.tok = t] \in Run
           /\ Awake([r EXCEPT !.tok = t]) => Awake(r)
BY DEF Run, Awake

LEMMA CancelledRuns ==
    ASSUME fx \in [Slots -> Run], NEW by \in {"past", "gone"}
    PROVE  /\ Cancelled(by) \in [Slots -> Run]
           /\ HaveEngine(fx) => HaveEngine(Cancelled(by))
<1>1. ASSUME NEW s \in Slots
      PROVE  Cancelled(by)[s] \in Run /\ (Awake(Cancelled(by)[s]) => Awake(fx[s]))
  <2>1. CASE Cancelled(by)[s] = Idle \/ Cancelled(by)[s] = fx[s]
    BY <2>1, IdleSleeps
  <2>2. CASE fx[s].owner = "page" /\ Cancelled(by)[s] = [fx[s] EXCEPT !.owner = by]
    <3>1. fx[s] \in Run /\ fx[s].owner # "none"
        BY <2>2
    <3> DEFINE r == fx[s]
    <3>2. [r EXCEPT !.owner = by] \in Run /\ (Awake([r EXCEPT !.owner = by]) => Awake(r))
        BY <3>1, OwnerChange
    <3> QED BY <2>2, <3>2
  <2> QED BY <2>1, <2>2 DEF Cancelled
<1>2. Cancelled(by) = [s \in Slots |-> Cancelled(by)[s]]
    BY DEF Cancelled
<1>3. Cancelled(by) \in [Slots -> Run]
    BY <1>1, <1>2
<1>4. HaveEngine(fx) => HaveEngine(Cancelled(by))
    BY <1>1 DEF HaveEngine
<1> QED BY <1>3, <1>4

(* A load leaves in the engine, or on the record, all that is stored. *)
LEMMA LoadAccounts ==
    ASSUME NEW d, loadSnapshot(d)
    PROVE  snapshot \subseteq doc' \union unread' /\ unread \subseteq snapshot \union unread'
BY DEF loadSnapshot

(* What starts in a free slot has no engine yet, or has loaded the storage. *)
LEMMA StartedRuns ==
    ASSUME NEW f \in [Slots -> Run], Start(f), SurviveInv, HaveEngine(f)
    PROVE  /\ fx' \in [Slots -> Run]
           /\ HaveEngine(fx)'
           /\ engine' = "ready" => engine = "ready" /\ snapshot \subseteq doc' \union unread'
           /\ unread \subseteq snapshot \union unread'
<1>1. PICK s \in {CHOOSE s \in Free(f) : TRUE} :
        LET new == [f EXCEPT ![s] = [owner |-> "page", stage |-> "engine", tok |-> token]]
        IN CASE engine = "ready" ->
                  /\ loadSnapshot(doc)
                  /\ Proceed(new, s)
                  /\ UNCHANGED engine
             [] engine = "broken" ->
                  /\ fx' = [new EXCEPT ![s].stage = "stopped"]
                  /\ wsRef' = NoSlot
                  /\ UNCHANGED <<engine, doc, unread, didRefresh, refreshing, asked>>
             [] OTHER ->
                  /\ engine' = "loading"
                  /\ fx' = new
                  /\ wsRef' = NoSlot
                  /\ UNCHANGED <<doc, unread, didRefresh, refreshing, asked>>
    BY Zenon DEF Start
<1> DEFINE run == [owner |-> "page", stage |-> "engine", tok |-> token]
           new == [f EXCEPT ![s] = run]
<1>2. run \in Run /\ ~Awake(run)
    BY DEF SurviveInv, Run, Awake
<1>3. new \in [Slots -> Run] /\ \A r \in Slots : Awake(new[r]) => Awake(f[r])
    BY <1>2
<1>4. ASSUME NEW x \in Stages
      PROVE  /\ [new EXCEPT ![s].stage = x] \in [Slots -> Run]
             /\ \A r \in Slots : Awake([new EXCEPT ![s].stage = x][r]) => Awake(new[r]) \/ r = s
  <2>1. s \in Slots => [new[s] EXCEPT !.stage = x] \in Run
    BY <1>3, StageChange
  <2> QED BY <1>3, <2>1
<1>5. CASE engine = "ready"
  <2>1. loadSnapshot(doc) /\ engine' = engine /\ Proceed(new, s)
    BY <1>1, <1>5
  <2>2. fx' \in [Slots -> Run]
    BY <2>1, <1>4 DEF Proceed, Stages
  <2> QED BY <1>5, <2>1, <2>2, LoadAccounts DEF HaveEngine
<1>6. CASE engine = "broken"
  <2>1. fx' = [new EXCEPT ![s].stage = "stopped"] /\ engine' = engine
        /\ unread' = unread
    BY <1>1, <1>6
  <2>2. fx' \in [Slots -> Run]
    BY <2>1, <1>4 DEF Stages
  <2>3. ASSUME NEW r \in Slots PROVE ~Awake(fx'[r])
    <3>1. ~Awake(f[r])
        BY <1>6 DEF HaveEngine
    <3>2. CASE r = s
        BY <2>1, <3>2, <1>3 DEF Awake
    <3>3. CASE r # s
        BY <2>1, <3>1, <3>3, <1>3
    <3> QED BY <3>2, <3>3
  <2> QED BY <1>6, <2>1, <2>2, <2>3 DEF HaveEngine
<1>7. CASE engine # "ready" /\ engine # "broken"
  <2>1. fx' = new /\ engine' = "loading" /\ unread' = unread
    BY <1>1, <1>7
  <2> QED BY <1>3, <1>7, <2>1 DEF HaveEngine
<1> QED BY <1>5, <1>6, <1>7

LEMMA ClosedRuns ==
    ASSUME SurviveInv, NEW s \in Slots, NEW code, Closed(s, code), Awake(fx[s])
    PROVE  fx' \in [Slots -> Run] /\ HaveEngine(fx)'
<1>1. engine' = engine /\ engine = "ready"
    BY DEF Closed, SurviveInv, HaveEngine
<1>2. [fx[s] EXCEPT !.stage = IF code = "clean" THEN "stopped" ELSE "backoff"] \in Run
    BY StageChange DEF SurviveInv, Stages
<1>3. fx' \in [Slots -> Run]
    BY <1>2, IdleSleeps DEF Closed, SurviveInv
<1> QED BY <1>1, <1>3 DEF HaveEngine

LEMMA ResumedRuns ==
    ASSUME SurviveInv, NEW t \in {"none", "good"}, Resume(t), engine' = engine
    PROVE  fx' \in [Slots -> Run] /\ HaveEngine(fx)'
<1>1. ASSUME NEW s \in Slots
      PROVE  fx'[s] \in Run /\ (Awake(fx'[s]) => engine = "ready")
  <2>1. fx[s] \in Run /\ (Awake(fx[s]) => engine = "ready")
    BY DEF SurviveInv, HaveEngine
  <2>2. CASE s \in At("refresh")
    <3> DEFINE u == IF t = "none" THEN fx[s].tok ELSE t
    <3>1. fx'[s] = [fx[s] EXCEPT !.stage = "connecting", !.tok = u]
        BY <2>2 DEF Resume
    <3>2. fx'[s] \in Run
        BY <2>1, <3>1 DEF Run
    <3>3. Awake(fx[s])
        BY <2>2 DEF At, Awake
    <3> QED BY <2>1, <3>2, <3>3
  <2>3. CASE s \notin At("refresh") /\ s \in renewing /\ t # "none"
    <3>1. fx'[s] = [fx[s] EXCEPT !.tok = t]
        BY <2>3 DEF Resume
    <3> QED BY ZenonT(60), <2>1, <3>1, TokChange
  <2>4. CASE fx'[s] = fx[s]
    BY <2>1, <2>4
  <2> QED BY <2>2, <2>3, <2>4 DEF Resume
<1>2. fx' = [s \in Slots |-> fx'[s]]
    BY DEF Resume
<1>3. fx' \in [Slots -> Run]
    BY <1>1, <1>2
<1> QED BY <1>1, <1>3 DEF HaveEngine

(* A snapshot written from an engine that holds what is stored, but for what  *)
(* loads left out.                                                            *)
LEMMA SnapshotGrows ==
    ASSUME NEW d, snapshot \subseteq d \union unread, saveSnapshot(d), unread' = unread, NEW e,
           made \subseteq snapshot \union unsaved \union unread
    PROVE  /\ snapshot' \subseteq d \union unread'
           /\ made \subseteq snapshot' \union unsaved' \union unread'
           /\ e \in d => e \in snapshot' \union unsaved'
BY DEF saveSnapshot

(* The engine, its runs and the storage agree in every state.                 *)
LEMMA SurviveInvariant == Spec => []SurviveInv
<1>1. Init => SurviveInv
    BY IdleSleeps DEF Init, SurviveInv, HaveEngine, DocHoldsSnapshot, EditsSurvive
<1>2. SurviveInv /\ [Next]_vars => SurviveInv'
  <2> SUFFICES ASSUME SurviveInv, [Next]_vars PROVE SurviveInv'
    OBVIOUS
  <2> USE DEF SurviveInv
  <2>0. ASSUME fx' \in [Slots -> Run], HaveEngine(fx)', token' \in {"none", "good", "expired"},
               UNCHANGED <<snapshot, made, unsaved, unread>>,
               engine' = "ready" => engine = "ready" /\ doc \subseteq doc'
        PROVE  SurviveInv'
    BY <2>0 DEF DocHoldsSnapshot, EditsSurvive
  <2>1. CASE UNCHANGED <<fx, engine>> /\ UNCHANGED <<snapshot, doc, made, unsaved, unread>>
             /\ token' \in {"none", "good", "expired"}
    BY <2>1 DEF DocHoldsSnapshot, EditsSurvive, HaveEngine
  <2>2. ASSUME NEW f \in [Slots -> Run], Start(f), HaveEngine(f),
               UNCHANGED <<snapshot, made, unsaved, token>>
        PROVE  SurviveInv'
    <3>1. /\ fx' \in [Slots -> Run] /\ HaveEngine(fx)'
          /\ engine' = "ready" => snapshot \subseteq doc' \union unread'
          /\ unread \subseteq snapshot \union unread'
        BY <2>2, StartedRuns
    <3> QED BY <2>2, <3>1 DEF DocHoldsSnapshot, EditsSurvive
  <2>3. CASE Mount \/ Rerun
    <3>1. Cancelled("past") \in [Slots -> Run] /\ HaveEngine(Cancelled("past"))
        BY CancelledRuns
    <3>2. Start(fx) \/ Start(Cancelled("past"))
        BY <2>3 DEF Mount, Rerun
    <3>3. UNCHANGED <<snapshot, made, unsaved, token>>
        BY <2>3 DEF Mount, Rerun, disk
    <3> QED BY <2>2, <3>1, <3>2, <3>3
  <2>4. CASE Unmount \/ SignOut
    <3>1. fx' = Cancelled("gone") /\ UNCHANGED <<engine, doc, snapshot, made, unsaved, unread>>
        BY <2>4 DEF Unmount, SignOut, Leave, disk
    <3>2. token' \in {"none", "good", "expired"}
        BY <2>4 DEF Unmount, SignOut, session
    <3>3. fx' \in [Slots -> Run] /\ HaveEngine(fx)'
        BY <3>1, CancelledRuns DEF HaveEngine
    <3> QED BY <3>1, <3>2, <3>3, <2>0
  <2>5. CASE Reload
    BY <2>5, IdleSleeps DEF Reload, disk, HaveEngine, DocHoldsSnapshot, EditsSurvive
  <2>6. CASE SignIn
    BY <2>6, <2>1 DEF SignIn, disk, runs, history
  <2>7. CASE EngineLoads
    <3>1. ASSUME NEW s \in Slots PROVE fx'[s] \in Run
      <4>1. CASE s \in At("engine")
        <5>1. [fx[s] EXCEPT !.stage = "connecting"] \in Run
            BY StageChange DEF Stages
        <5> QED BY <2>7, <4>1, <5>1 DEF EngineLoads
      <4>2. CASE s \notin At("engine")
        BY <2>7, <4>2 DEF EngineLoads
      <4> QED BY <4>1, <4>2
    <3>2. fx' = [s \in Slots |-> fx'[s]]
        BY <2>7 DEF EngineLoads
    <3>3. fx' \in [Slots -> Run]
        BY <3>1, <3>2
    <3>4. engine' = "ready" /\ loadSnapshot({}) /\ UNCHANGED <<snapshot, made, unsaved, token>>
        BY <2>7 DEF EngineLoads, disk, session
    <3>5. snapshot \subseteq doc' \union unread' /\ unread \subseteq snapshot \union unread'
        BY <3>4, LoadAccounts
    <3> QED BY <3>3, <3>4, <3>5 DEF HaveEngine, DocHoldsSnapshot, EditsSurvive
  <2>8. CASE EngineFails
    <3>1. ASSUME NEW s \in Slots PROVE fx'[s] \in Run /\ ~Awake(fx'[s])
      <4>1. ~Awake(fx[s])
        BY <2>8 DEF EngineFails, HaveEngine
      <4>2. CASE fx'[s] = [fx[s] EXCEPT !.stage = "stopped"]
        <5>1. [fx[s] EXCEPT !.stage = "stopped"] \in Run
            BY StageChange DEF Stages
        <5>2. [fx[s] EXCEPT !.stage = "stopped"].stage = "stopped"
            BY StageChange DEF Stages
        <5> QED BY <4>2, <5>1, <5>2 DEF Awake
      <4>3. CASE fx'[s] = Idle \/ fx'[s] = fx[s]
        BY <4>1, <4>3, IdleSleeps
      <4> QED BY <2>8, <4>2, <4>3 DEF EngineFails
    <3>2. fx' = [s \in Slots |-> fx'[s]]
        BY <2>8 DEF EngineFails
    <3>3. fx' \in [Slots -> Run]
        BY <3>1, <3>2
    <3>4. engine' = "broken" /\ UNCHANGED <<snapshot, made, unsaved, unread, token>>
        BY <2>8 DEF EngineFails, disk, session, history
    <3> QED BY <3>1, <3>3, <3>4, <2>0 DEF HaveEngine
  <2>9. CASE RefreshSucceeds \/ RefreshFails
    <3>1. \E t \in {"none", "good"} : Resume(t)
        BY <2>9 DEF RefreshSucceeds, RefreshFails
    <3>2. UNCHANGED <<engine, doc, snapshot, made, unsaved, unread>>
        BY <2>9 DEF RefreshSucceeds, RefreshFails, disk, history
    <3>3. fx' \in [Slots -> Run] /\ HaveEngine(fx)'
        BY <3>1, <3>2, ResumedRuns
    <3>4. token' \in {"none", "good", "expired"}
        BY <3>1 DEF Resume
    <3> QED BY <3>2, <3>3, <3>4, <2>0
  <2>10. CASE Expire
    <3>1. ASSUME NEW s \in Slots PROVE fx'[s] \in Run /\ (Awake(fx'[s]) => Awake(fx[s]))
        BY <2>10, TokChange DEF Expire
    <3>2. fx' = [s \in Slots |-> fx'[s]]
        BY <2>10 DEF Expire
    <3>3. fx' \in [Slots -> Run]
        BY <3>1, <3>2
    <3>4. UNCHANGED <<engine, doc, snapshot, made, unsaved, unread>> /\ token' = "expired"
        BY <2>10 DEF Expire, disk, history
    <3> QED BY <3>1, <3>3, <3>4, <2>0 DEF HaveEngine
  <2>11. ASSUME NEW s \in Slots, SocketOpens(s) \/ StrayOpens(s) PROVE SurviveInv'
    <3>1. fx' = [fx EXCEPT ![s].stage = "open"] /\ s \in At("connecting")
          /\ UNCHANGED <<engine, doc, snapshot, made, unsaved, unread, token>>
        BY <2>11 DEF SocketOpens, StrayOpens, disk, session, history
    <3>2. engine = "ready"
        BY <3>1 DEF At, Awake, HaveEngine
    <3>3. [fx[s] EXCEPT !.stage = "open"] \in Run
        BY StageChange DEF Stages
    <3> QED BY <3>1, <3>2, <3>3, <2>0 DEF HaveEngine
  <2>12. ASSUME NEW s \in Slots, Refused(s) \/ CutOff(s) \/ Breaks(s) PROVE SurviveInv'
    <3>1. Awake(fx[s]) /\ \E code : Closed(s, code)
        BY <2>12 DEF Refused, CutOff, Breaks, At, Awake
    <3>2. UNCHANGED <<engine, doc, snapshot, made, unsaved, unread, token>>
        BY <3>1 DEF Closed, disk, session
    <3> QED BY <3>1, <3>2, <2>0, ClosedRuns
  <2>13. ASSUME NEW s \in Slots, RetryTimer(s) \/ Warned(s) \/ Deliver(s) PROVE SurviveInv'
    BY <2>13, <2>1 DEF RetryTimer, Warned, Deliver, disk, session, runs, history
  <2>14. ASSUME NEW s \in Slots, NEW e \in Remote, Receive(s, e) PROVE SurviveInv'
    <3>1. engine = "ready" /\ UNCHANGED <<fx, engine, token, made, unread>>
        BY <2>14 DEF Receive, At, Awake, HaveEngine, session, runs
    <3>2. doc' = doc \union {e} /\ saveSnapshot(doc')
        BY <2>14 DEF Receive
    <3>3. /\ snapshot' \subseteq doc' \union unread'
          /\ made \subseteq snapshot' \union unsaved' \union unread'
        BY <3>1, <3>2, SnapshotGrows DEF DocHoldsSnapshot, EditsSurvive
    <3> QED BY <3>1, <3>3 DEF HaveEngine, DocHoldsSnapshot, EditsSurvive
  <2>15. ASSUME NEW e \in Edits, Edit(e) PROVE SurviveInv'
    <3>1. engine = "ready" /\ UNCHANGED <<fx, engine, token, unread>>
          /\ made' = made \union {e}
        BY <2>15 DEF Edit, session
    <3>2. doc' = doc \union {e} /\ saveSnapshot(doc')
        BY <2>15 DEF Edit
    <3>3. /\ snapshot' \subseteq doc' \union unread'
          /\ made' \subseteq snapshot' \union unsaved' \union unread'
        BY <3>1, <3>2, SnapshotGrows DEF DocHoldsSnapshot, EditsSurvive
    <3> QED BY <3>1, <3>3 DEF HaveEngine, DocHoldsSnapshot, EditsSurvive
  <2>16. CASE UNCHANGED vars
    BY <2>16, <2>1 DEF vars, disk, session, runs, history
  <2> QED BY <2>2, <2>3, <2>4, <2>5, <2>6, <2>7, <2>8, <2>9, <2>10, <2>11, <2>12, <2>13,
             <2>14, <2>15, <2>16 DEF Next
<1> QED BY <1>1, <1>2, PTL DEF Spec

(* useVersaStore.ts:32-47,100 with 186: whatever fails, reloads, signs out or *)
(* arrives, an edit the user made is in the stored snapshot, unless the write *)
(* of it failed or a load of the snapshot that held it did.                   *)
THEOREM EditsAreKept == Spec => []EditsSurvive
<1>1. SurviveInv => EditsSurvive
    BY DEF SurviveInv
<1> QED BY <1>1, SurviveInvariant, PTL

-----------------------------------------------------------------------------
(* One socket.  One run is in force at a time, wsRef is its slot once it has  *)
(* a socket, and no dependency changes while it awaits the engine or a        *)
(* refresh: so a re-run never leaves a cancelled run behind that awaits.      *)

OneInForce ==
    /\ \A s \in Slots : fx[s].owner # "past"
    /\ \A s, r \in Slots : InForce(s) /\ InForce(r) => s = r
    /\ \A s \in Slots : InForce(s) => mounted = TRUE

RefIsInForce ==
    /\ \A s \in Slots : InForce(s) /\ fx[s].stage \in {"connecting", "open"} => wsRef = s
    /\ wsRef # NoSlot => wsRef \in Slots /\ InForce(wsRef)

AwaitsUndisturbed ==
    \A s \in Slots : InForce(s) /\ fx[s].stage \in {"engine", "refresh"} => changed = FALSE

(* A run awaits the engine while it loads only, and waits for its timer, or   *)
(* stops, only when in force.                                                 *)
StagesFit ==
    \A s \in Slots : fx[s].owner # "none" =>
        /\ fx[s].stage = "engine" => engine = "loading"
        /\ fx[s].stage \in {"backoff", "stopped"} => InForce(s)

RefreshHasEngine == refreshing = TRUE => engine = "ready"

HasSocket == \E s \in Slots : InForce(s) /\ fx[s].stage \in {"connecting", "open"}

LiveIsSettled == connected = TRUE => retry = 0 /\ HasSocket

SocketInv ==
    /\ OneInForce
    /\ RefIsInForce
    /\ AwaitsUndisturbed
    /\ StagesFit
    /\ RefreshHasEngine
    /\ LiveIsSettled

(* The runs a cleanup leaves behind. *)
Settled(f) ==
    \A s \in Slots :
        /\ f[s].owner \in {"none", "gone"}
        /\ f[s].owner = "gone" =>
               /\ f[s].stage \notin {"backoff", "stopped"}
               /\ f[s].stage = "engine" => engine = "loading"

LEMMA CancelledSettled ==
    ASSUME SurviveInv, SocketInv, NEW by \in {"past", "gone"}, by = "past" => changed = TRUE
    PROVE  Settled(Cancelled(by))
<1> DEFINE g == Cancelled(by)
<1> SUFFICES ASSUME NEW s \in Slots
             PROVE  /\ g[s].owner \in {"none", "gone"}
                    /\ g[s].owner = "gone" =>
                           /\ g[s].stage \notin {"backoff", "stopped"}
                           /\ g[s].stage = "engine" => engine = "loading"
    BY DEF Settled
<1> DEFINE r == fx[s]
<1>1. r \in Run
    BY DEF SurviveInv
<1>2. CASE g[s] = Idle
    BY <1>2 DEF Idle
<1>3. CASE r.owner # "page" /\ g[s] = r
    BY <1>1, <1>3 DEF SocketInv, OneInForce, StagesFit, InForce, Run
<1>4. CASE /\ s # wsRef /\ r.owner = "page" /\ r.stage \notin {"backoff", "stopped"}
           /\ g[s] = [r EXCEPT !.owner = by]
    <2>1. r.stage \in {"engine", "refresh"}
        BY <1>1, <1>4 DEF SocketInv, RefIsInForce, InForce, Run
    <2>2. by = "gone"
        BY <1>4, <2>1 DEF SocketInv, AwaitsUndisturbed, InForce
    <2>3. r.stage = "engine" => engine = "loading"
        BY <1>4 DEF SocketInv, StagesFit
    <2>4. [r EXCEPT !.owner = by].owner = by /\ [r EXCEPT !.owner = by].stage = r.stage
        BY <1>1 DEF Run
    <2> HIDE DEF r
    <2> QED BY <1>4, <2>1, <2>2, <2>3, <2>4
<1> QED BY <1>2, <1>3, <1>4 DEF Cancelled

(* What Start does, field by field. *)
LEMMA StartFields ==
    ASSUME NEW f \in [Slots -> Run], Start(f), Free(f) # {}
    PROVE  \E s \in Slots :
              /\ f[s] = Idle
              /\ \A r \in Slots \ {s} : fx'[r] = f[r]
              /\ fx'[s].owner = "page"
              /\ \/ /\ fx'[s].stage = "refresh" /\ retry > 0 /\ wsRef' = NoSlot
                    /\ engine = "ready" /\ engine' = "ready"
                 \/ /\ fx'[s].stage = "connecting" /\ wsRef' = s
                    /\ engine = "ready" /\ engine' = "ready"
                 \/ /\ fx'[s].stage = "stopped" /\ wsRef' = NoSlot
                    /\ engine = "broken" /\ engine' = "broken" /\ refreshing' = refreshing
                 \/ /\ fx'[s].stage = "engine" /\ wsRef' = NoSlot
                    /\ engine # "ready" /\ engine' = "loading" /\ refreshing' = refreshing
<1>1. PICK s \in {CHOOSE s \in Free(f) : TRUE} :
        LET new == [f EXCEPT ![s] = [owner |-> "page", stage |-> "engine", tok |-> token]]
        IN CASE engine = "ready" ->
                  /\ loadSnapshot(doc)
                  /\ Proceed(new, s)
                  /\ UNCHANGED engine
             [] engine = "broken" ->
                  /\ fx' = [new EXCEPT ![s].stage = "stopped"]
                  /\ wsRef' = NoSlot
                  /\ UNCHANGED <<engine, doc, unread, didRefresh, refreshing, asked>>
             [] OTHER ->
                  /\ engine' = "loading"
                  /\ fx' = new
                  /\ wsRef' = NoSlot
                  /\ UNCHANGED <<doc, unread, didRefresh, refreshing, asked>>
    BY Zenon DEF Start
<1> DEFINE run == [owner |-> "page", stage |-> "engine", tok |-> token]
           new == [f EXCEPT ![s] = run]
<1>2. s \in Slots /\ f[s] = Idle
    BY DEF Free
<1>3. new[s] = run /\ \A r \in Slots \ {s} : new[r] = f[r]
    BY <1>2
<1>4. ASSUME NEW x
      PROVE  /\ [new EXCEPT ![s].stage = x][s].owner = "page"
             /\ [new EXCEPT ![s].stage = x][s].stage = x
             /\ \A r \in Slots \ {s} : [new EXCEPT ![s].stage = x][r] = f[r]
    BY <1>2
<1>5. CASE engine = "ready"
  <2>1. Proceed(new, s) /\ engine' = engine
    BY <1>1, <1>5
  <2> DEFINE waits == (retry > 0 /\ ~didRefresh) /\ (renewable \/ refreshing)
  <2>2. CASE waits
    <3>1. fx' = [new EXCEPT ![s].stage = "refresh"] /\ wsRef' = NoSlot /\ retry > 0
        BY <2>1, <2>2 DEF Proceed
    <3> QED BY <1>2, <1>4, <1>5, <2>1, <3>1
  <2>3. CASE ~waits
    <3>1. fx' = [new EXCEPT ![s].stage = "connecting"] /\ wsRef' = s
        BY <2>1, <2>3 DEF Proceed
    <3> QED BY <1>2, <1>4, <1>5, <2>1, <3>1
  <2> QED BY <2>2, <2>3
<1>6. CASE engine = "broken"
  <2>1. /\ fx' = [new EXCEPT ![s].stage = "stopped"] /\ wsRef' = NoSlot
        /\ engine' = engine /\ refreshing' = refreshing
    BY <1>1, <1>6
  <2> QED BY <1>2, <1>4, <1>6, <2>1
<1>7. CASE engine # "ready" /\ engine # "broken"
  <2>1. fx' = new /\ wsRef' = NoSlot /\ engine' = "loading" /\ refreshing' = refreshing
    BY <1>1, <1>7
  <2> QED BY <1>2, <1>3, <1>7, <2>1
<1> QED BY <1>5, <1>6, <1>7

LEMMA StartedSockets ==
    ASSUME NEW f \in [Slots -> Run], Start(f), Free(f) # {}, Settled(f), SocketInv,
           mounted' = TRUE, changed' = FALSE,
           connected' = TRUE => retry = 0 /\ retry' = 0 /\ engine = "ready"
    PROVE  SocketInv'
<1>1. PICK s \in Slots :
              /\ f[s] = Idle
              /\ \A r \in Slots \ {s} : fx'[r] = f[r]
              /\ fx'[s].owner = "page"
              /\ \/ /\ fx'[s].stage = "refresh" /\ retry > 0 /\ wsRef' = NoSlot
                    /\ engine = "ready" /\ engine' = "ready"
                 \/ /\ fx'[s].stage = "connecting" /\ wsRef' = s
                    /\ engine = "ready" /\ engine' = "ready"
                 \/ /\ fx'[s].stage = "stopped" /\ wsRef' = NoSlot
                    /\ engine = "broken" /\ engine' = "broken" /\ refreshing' = refreshing
                 \/ /\ fx'[s].stage = "engine" /\ wsRef' = NoSlot
                    /\ engine # "ready" /\ engine' = "loading" /\ refreshing' = refreshing
    BY StartFields
<1>2. \A r \in Slots \ {s} : fx'[r].owner \in {"none", "gone"}
    BY <1>1 DEF Settled
<1>3. OneInForce'
    BY <1>1, <1>2 DEF OneInForce, InForce
<1>4. RefIsInForce'
    BY <1>1, <1>2 DEF RefIsInForce, InForce
<1>5. AwaitsUndisturbed'
    BY DEF AwaitsUndisturbed
<1>6. StagesFit'
    BY <1>1, <1>2 DEF StagesFit, Settled, InForce
<1>7. RefreshHasEngine'
    BY <1>1 DEF SocketInv, RefreshHasEngine
<1>8. LiveIsSettled'
    BY <1>1 DEF LiveIsSettled, HasSocket, InForce
<1> QED BY <1>3, <1>4, <1>5, <1>6, <1>7, <1>8 DEF SocketInv

(* Steps that move no run and no socket. *)
LEMMA SocketsKept ==
    ASSUME SocketInv,
           \A s \in Slots : fx'[s].owner = fx[s].owner /\ fx'[s].stage = fx[s].stage,
           UNCHANGED <<wsRef, changed, mounted, engine, connected, retry>>,
           refreshing' = TRUE => engine = "ready"
    PROVE  SocketInv'
<1> USE DEF SocketInv, InForce
<1>1. OneInForce' /\ RefIsInForce' /\ AwaitsUndisturbed'
    BY DEF OneInForce, RefIsInForce, AwaitsUndisturbed
<1>2. StagesFit' /\ RefreshHasEngine' /\ LiveIsSettled'
    BY DEF StagesFit, RefreshHasEngine, LiveIsSettled, HasSocket
<1> QED BY <1>1, <1>2

(* After a cleanup with nothing started, the screen is left. *)
LEMMA LeftSockets ==
    ASSUME SocketInv, Settled(fx'), wsRef' = NoSlot, connected' = FALSE, changed' = FALSE,
           engine' = engine, refreshing' = refreshing
    PROVE  SocketInv'
<1>1. \A s \in Slots : fx'[s].owner \in {"none", "gone"}
    BY DEF Settled
<1>2. OneInForce' /\ RefIsInForce' /\ AwaitsUndisturbed'
    BY <1>1 DEF OneInForce, RefIsInForce, AwaitsUndisturbed, InForce
<1>3. StagesFit'
    BY <1>1 DEF StagesFit, Settled, InForce
<1>4. RefreshHasEngine' /\ LiveIsSettled'
    BY DEF SocketInv, RefreshHasEngine, LiveIsSettled
<1> QED BY <1>2, <1>3, <1>4 DEF SocketInv

(* A socket that closes takes a run that is not in force with it; the run in  *)
(* force waits for its timer, or stops.                                       *)
LEMMA ClosedSockets ==
    ASSUME SurviveInv, SocketInv, NEW s \in Slots, NEW code, Closed(s, code),
           fx[s].stage \in {"connecting", "open"}
    PROVE  SocketInv'
<1>1. UNCHANGED <<engine, mounted, retry, changed, refreshing>>
    BY DEF Closed, session
<1>2. \A r \in Slots \ {s} : fx'[r] = fx[r]
    BY DEF Closed, SurviveInv
<1>3. CASE InForce(s)
  <2>1. /\ fx'[s].owner = "page" /\ fx'[s].stage \in {"stopped", "backoff"}
        /\ wsRef' = wsRef /\ wsRef = s
    <3> DEFINE r == fx[s]
               x == IF code = "clean" THEN "stopped" ELSE "backoff"
    <3>1. r \in Run /\ r.owner = "page"
        BY <1>3 DEF SurviveInv, InForce
    <3>2. fx'[s] = [r EXCEPT !.stage = x]
        BY <1>3 DEF Closed, SurviveInv
    <3>3. wsRef' = wsRef /\ wsRef = s
        BY <1>3 DEF Closed, SocketInv, RefIsInForce
    <3>4. x \in Stages
        BY DEF Stages
    <3> HIDE DEF r
    <3>5. [r EXCEPT !.stage = x].owner = "page" /\ [r EXCEPT !.stage = x].stage = x
        BY <3>1, <3>4, StageChange
    <3> QED BY <3>2, <3>3, <3>5
  <2>2. connected' = FALSE
    BY <1>3 DEF Closed
  <2>3. OneInForce' /\ RefIsInForce' /\ AwaitsUndisturbed'
    BY <1>1, <1>2, <1>3, <2>1
       DEF SocketInv, OneInForce, RefIsInForce, AwaitsUndisturbed, InForce
  <2>4. StagesFit' /\ RefreshHasEngine' /\ LiveIsSettled'
    BY <1>1, <1>2, <1>3, <2>1, <2>2
       DEF SocketInv, StagesFit, RefreshHasEngine, LiveIsSettled, InForce
  <2> QED BY <2>3, <2>4 DEF SocketInv
<1>4. CASE ~InForce(s)
  <2>1. fx'[s] = Idle
    BY <1>4 DEF Closed, SurviveInv
  <2>2. wsRef' = wsRef /\ (connected' = TRUE => connected = TRUE)
    BY <1>4 DEF Closed, SocketInv, RefIsInForce
  <2>3. OneInForce' /\ RefIsInForce' /\ AwaitsUndisturbed'
    BY <1>1, <1>2, <1>4, <2>1, <2>2
       DEF SocketInv, OneInForce, RefIsInForce, AwaitsUndisturbed, InForce, Idle
  <2>4. StagesFit' /\ RefreshHasEngine'
    BY <1>1, <1>2, <1>4, <2>1
       DEF SocketInv, StagesFit, RefreshHasEngine, InForce, Idle
  <2>5. LiveIsSettled'
    BY <1>1, <1>2, <1>4, <2>1, <2>2 DEF SocketInv, LiveIsSettled, HasSocket, InForce
  <2> QED BY <2>3, <2>4, <2>5 DEF SocketInv
<1> QED BY <1>3, <1>4

(* The runs that waited connect, and the one in force takes wsRef over.       *)
LEMMA ResumedSockets ==
    ASSUME SurviveInv, SocketInv, NEW t \in {"none", "good"}, Resume(t),
           UNCHANGED <<engine, mounted, retry, connected>>,
           changed' = changed \/ refreshing = TRUE
    PROVE  SocketInv'
<1>1. ASSUME NEW s \in Slots
      PROVE  /\ fx'[s].owner = fx[s].owner
             /\ fx'[s].stage = IF s \in At("refresh") THEN "connecting" ELSE fx[s].stage
  <2> DEFINE r == fx[s]
             u == IF t = "none" THEN r.tok ELSE t
  <2>1. r \in Run
    BY DEF SurviveInv
  <2>2. CASE s \in At("refresh")
    <3>1. fx'[s] = [r EXCEPT !.stage = "connecting", !.tok = u]
        BY <2>2 DEF Resume
    <3> HIDE DEF r, u
    <3>2. /\ [r EXCEPT !.stage = "connecting", !.tok = u].owner = r.owner
          /\ [r EXCEPT !.stage = "connecting", !.tok = u].stage = "connecting"
        BY <2>1 DEF Run
    <3> QED BY <2>2, <3>1, <3>2 DEF r
  <2>3. CASE s \notin At("refresh") /\ fx'[s] = [r EXCEPT !.tok = t]
    <3> HIDE DEF r
    <3>1. [r EXCEPT !.tok = t].owner = r.owner /\ [r EXCEPT !.tok = t].stage = r.stage
        BY <2>1 DEF Run
    <3> QED BY <2>3, <3>1 DEF r
  <2>4. CASE s \notin At("refresh") /\ fx'[s] = r
    BY <2>4
  <2> QED BY <2>2, <2>3, <2>4 DEF Resume
<1>2. refreshing' = FALSE
    BY DEF Resume
<1>3. \A s \in Slots : s \in At("refresh") <=> fx[s].owner # "none" /\ fx[s].stage = "refresh"
    BY DEF At
<1> DEFINE own == {s \in At("refresh") : fx[s].owner # "gone"}
<1>4. \A s \in own : s \in Slots /\ InForce(s) /\ fx[s].stage = "refresh"
    BY <1>3 DEF SocketInv, OneInForce, SurviveInv, Run, InForce, At
<1>5. \A s \in Slots : InForce(s) /\ fx[s].stage = "refresh" => s \in own
    BY <1>3 DEF InForce
<1>6. wsRef' = IF own = {} THEN wsRef ELSE CHOOSE s \in own : TRUE
    BY DEF Resume
<1> HIDE DEF own
<1>7. OneInForce'
    BY <1>1 DEF SocketInv, OneInForce, InForce
<1>8. RefIsInForce'
  <2>1. CASE own = {}
    <3>1. wsRef' = wsRef
        BY <1>6, <2>1
    <3>2. \A s \in Slots : InForce(s) => fx'[s].stage = fx[s].stage
        BY <1>1, <1>3, <1>5, <2>1
    <3> QED BY <1>1, <3>1, <3>2 DEF SocketInv, RefIsInForce, InForce
  <2>2. CASE own # {}
    <3>1. wsRef' \in own
        BY <1>6, <2>2
    <3> QED BY <1>1, <1>4, <3>1 DEF SocketInv, OneInForce, RefIsInForce, InForce
  <2> QED BY <2>1, <2>2
<1>9. AwaitsUndisturbed'
  <2> SUFFICES ASSUME NEW s \in Slots, InForce(s)', fx'[s].stage \in {"engine", "refresh"}
               PROVE  changed' = FALSE
    BY DEF AwaitsUndisturbed
  <2>1. InForce(s) /\ fx[s].stage = "engine"
    BY <1>1, <1>3 DEF InForce
  <2>2. engine = "loading"
    BY <2>1 DEF SocketInv, StagesFit, InForce
  <2>3. changed' = changed /\ changed = FALSE
    BY <2>1, <2>2 DEF SocketInv, RefreshHasEngine, AwaitsUndisturbed
  <2> QED BY <2>3
<1>10. StagesFit' /\ RefreshHasEngine'
    BY <1>1, <1>2 DEF SocketInv, StagesFit, RefreshHasEngine, InForce
<1>11. LiveIsSettled'
    BY <1>1 DEF SocketInv, LiveIsSettled, HasSocket, InForce
<1> QED BY <1>7, <1>8, <1>9, <1>10, <1>11 DEF SocketInv

(* The runs that awaited the engine connect, or end with it.                  *)
LEMMA LoadedSockets ==
    ASSUME SurviveInv, SocketInv, EngineLoads PROVE SocketInv'
<1>1. ASSUME NEW s \in Slots
      PROVE  /\ fx'[s].owner = fx[s].owner
             /\ fx'[s].stage = IF s \in At("engine") THEN "connecting" ELSE fx[s].stage
  <2> DEFINE r == fx[s]
  <2>1. r \in Run
    BY DEF SurviveInv
  <2>2. fx'[s] = IF s \in At("engine") THEN [r EXCEPT !.stage = "connecting"] ELSE r
    BY DEF EngineLoads
  <2> HIDE DEF r
  <2>3. /\ [r EXCEPT !.stage = "connecting"].owner = r.owner
        /\ [r EXCEPT !.stage = "connecting"].stage = "connecting"
    BY <2>1, StageChange DEF Stages
  <2> QED BY <2>2, <2>3 DEF r
<1>2. /\ UNCHANGED <<refreshing, mounted, retry, changed, connected>>
      /\ engine = "loading" /\ engine' = "ready"
    BY DEF EngineLoads, session
<1>3. \A s \in Slots : s \in At("engine") <=> fx[s].owner # "none" /\ fx[s].stage = "engine"
    BY DEF At
<1> DEFINE own == {s \in At("engine") : fx[s].owner # "gone"}
<1>4. \A s \in own : s \in Slots /\ InForce(s) /\ fx[s].stage = "engine"
    BY <1>3 DEF SocketInv, OneInForce, SurviveInv, Run, InForce, At
<1>5. \A s \in Slots : InForce(s) /\ fx[s].stage = "engine" => s \in own
    BY <1>3 DEF InForce
<1>6. (wsRef' = wsRef /\ own = {}) \/ wsRef' \in own
    BY DEF EngineLoads
<1> HIDE DEF own
<1>7. OneInForce'
    BY <1>1, <1>2 DEF SocketInv, OneInForce, InForce
<1>8. RefIsInForce'
  <2>1. CASE wsRef' = wsRef /\ own = {}
    <3>1. \A s \in Slots : InForce(s) => fx'[s].stage = fx[s].stage
        BY <1>1, <1>3, <1>5, <2>1
    <3> QED BY <1>1, <2>1, <3>1 DEF SocketInv, RefIsInForce, InForce
  <2>2. CASE wsRef' \in own
    BY <1>1, <1>4, <2>2 DEF SocketInv, OneInForce, RefIsInForce, InForce
  <2> QED BY <1>6, <2>1, <2>2
<1>9. AwaitsUndisturbed'
    BY <1>1, <1>2 DEF SocketInv, AwaitsUndisturbed, InForce
<1>10. StagesFit' /\ RefreshHasEngine'
    BY <1>1, <1>2, <1>3 DEF SocketInv, StagesFit, RefreshHasEngine, InForce
<1>11. LiveIsSettled'
    BY <1>1, <1>2 DEF SocketInv, LiveIsSettled, HasSocket, InForce
<1> QED BY <1>7, <1>8, <1>9, <1>10, <1>11 DEF SocketInv

LEMMA FailedSockets ==
    ASSUME SurviveInv, SocketInv, EngineFails PROVE SocketInv'
<1>1. /\ UNCHANGED <<refreshing, mounted, retry, changed, connected, wsRef>>
      /\ engine = "loading" /\ engine' = "broken"
    BY DEF EngineFails, session, hook
<1>2. ASSUME NEW s \in Slots
      PROVE  \/ fx'[s] = fx[s] /\ (fx[s].owner # "none" => fx[s].stage # "engine")
             \/ /\ InForce(s) /\ fx[s].stage = "engine"
                /\ fx'[s].owner = "page" /\ fx'[s].stage = "stopped"
             \/ ~InForce(s) /\ fx'[s].owner = "none"
  <2> DEFINE r == fx[s]
  <2>1. r \in Run
    BY DEF SurviveInv
  <2>2. CASE s \in At("engine") /\ InForce(s)
    <3>1. fx'[s] = [r EXCEPT !.stage = "stopped"]
        BY <2>2 DEF EngineFails
    <3>2. r.owner = "page" /\ r.stage = "engine"
        BY <2>2 DEF InForce, At
    <3> HIDE DEF r
    <3>3. /\ [r EXCEPT !.stage = "stopped"].owner = r.owner
          /\ [r EXCEPT !.stage = "stopped"].stage = "stopped"
        BY <2>1, StageChange DEF Stages
    <3> QED BY <2>2, <3>1, <3>2, <3>3 DEF r
  <2>3. CASE s \in At("engine") /\ ~InForce(s)
    BY <2>3 DEF EngineFails, Idle
  <2>4. CASE s \notin At("engine")
    BY <2>4 DEF EngineFails, At
  <2> QED BY <2>2, <2>3, <2>4
<1>3. OneInForce'
    BY <1>1, <1>2 DEF SocketInv, OneInForce, InForce
<1>4. RefIsInForce'
    BY <1>1, <1>2 DEF SocketInv, RefIsInForce, InForce
<1>5. AwaitsUndisturbed'
    BY <1>1, <1>2 DEF SocketInv, AwaitsUndisturbed, InForce
<1>6. StagesFit' /\ RefreshHasEngine'
    BY <1>1, <1>2 DEF SocketInv, StagesFit, RefreshHasEngine, InForce
<1>7. LiveIsSettled'
    BY <1>1, <1>2 DEF SocketInv, LiveIsSettled, HasSocket, InForce
<1> QED BY <1>3, <1>4, <1>5, <1>6, <1>7 DEF SocketInv

(* A socket that opens was the one in wsRef, or belongs to a run that TaskList *)
(* left behind.                                                               *)
LEMMA OpenedSockets ==
    ASSUME SurviveInv, SocketInv, NEW s \in Slots, SocketOpens(s) \/ StrayOpens(s)
    PROVE  SocketInv'
<1> DEFINE q == fx[s]
<1>1. q \in Run /\ q.stage = "connecting" /\ q.owner # "none"
    BY DEF SurviveInv, SocketOpens, StrayOpens, At
<1>2. fx' = [fx EXCEPT ![s].stage = "open"]
    BY DEF SocketOpens, StrayOpens
<1>3. /\ fx'[s].owner = fx[s].owner /\ fx'[s].stage = "open"
      /\ \A r \in Slots \ {s} : fx'[r] = fx[r]
  <2>1. fx'[s] = [q EXCEPT !.stage = "open"] /\ \A r \in Slots \ {s} : fx'[r] = fx[r]
    BY <1>2 DEF SurviveInv
  <2> HIDE DEF q
  <2>2. [q EXCEPT !.stage = "open"].owner = q.owner /\ [q EXCEPT !.stage = "open"].stage = "open"
    BY <1>1, StageChange DEF Stages
  <2> QED BY <2>1, <2>2 DEF q
<1>4. UNCHANGED <<engine, refreshing, mounted, wsRef>>
    BY DEF SocketOpens, StrayOpens, session, hook
<1>5. OneInForce' /\ RefIsInForce'
    BY <1>1, <1>3, <1>4 DEF SocketInv, OneInForce, RefIsInForce, InForce
<1>6. StagesFit' /\ RefreshHasEngine'
    BY <1>1, <1>3, <1>4 DEF SocketInv, StagesFit, RefreshHasEngine, InForce
<1>7. CASE SocketOpens(s)
  <2>1. InForce(s) /\ connected' = TRUE /\ retry' = 0
    BY <1>7 DEF SocketOpens
  <2>2. AwaitsUndisturbed'
    BY <1>3, <2>1 DEF SocketInv, OneInForce, AwaitsUndisturbed, InForce
  <2>3. LiveIsSettled'
    BY <1>3, <2>1 DEF LiveIsSettled, HasSocket, InForce
  <2> QED BY <1>5, <1>6, <2>2, <2>3 DEF SocketInv
<1>8. CASE StrayOpens(s)
  <2>1. UNCHANGED <<changed, connected, retry>>
    BY <1>8 DEF StrayOpens, hook
  <2>2. AwaitsUndisturbed' /\ LiveIsSettled'
    BY <1>3, <2>1 DEF SocketInv, AwaitsUndisturbed, LiveIsSettled, HasSocket, InForce
  <2> QED BY <1>5, <1>6, <2>2 DEF SocketInv
<1> QED BY <1>7, <1>8

(* The timer of the run in force is the only one.                             *)
LEMMA RetriedSockets ==
    ASSUME SocketInv, NEW s \in Slots, RetryTimer(s) PROVE SocketInv'
<1>1. /\ fx[s].stage = "backoff" /\ InForce(s)
      /\ UNCHANGED <<fx, engine, refreshing, mounted, wsRef, connected>>
    BY DEF RetryTimer, At, SocketInv, StagesFit, session, runs
<1>2. OneInForce' /\ RefIsInForce' /\ StagesFit' /\ RefreshHasEngine'
    BY <1>1 DEF SocketInv, OneInForce, RefIsInForce, StagesFit, RefreshHasEngine, InForce
<1>3. AwaitsUndisturbed'
    BY <1>1 DEF SocketInv, OneInForce, AwaitsUndisturbed, InForce
<1>4. connected' # TRUE
    BY <1>1 DEF SocketInv, OneInForce, LiveIsSettled, HasSocket
<1>5. LiveIsSettled'
    BY <1>4 DEF LiveIsSettled
<1> QED BY <1>2, <1>3, <1>5 DEF SocketInv

LEMMA NextSockets ==
    ASSUME WebStoreAssumption, SurviveInv, SocketInv, [Next]_vars PROVE SocketInv'
<1>1. CASE Mount
  <2>1. /\ Free(fx) # {} /\ Start(fx) /\ mounted' = TRUE /\ changed' = FALSE
        /\ connected' = FALSE /\ mounted = FALSE
    BY <1>1 DEF Mount
  <2>2. Settled(fx)
    BY <2>1 DEF Settled, SocketInv, OneInForce, StagesFit, InForce, SurviveInv, Run
  <2> QED BY <2>1, <2>2, StartedSockets DEF SurviveInv
<1>2. CASE Rerun
  <2>1. /\ mounted' = TRUE /\ changed = TRUE /\ changed' = FALSE
        /\ Free(Cancelled("past")) # {} /\ Start(Cancelled("past"))
        /\ connected' = connected /\ retry' = retry
    BY <1>2 DEF Rerun
  <2>2. Settled(Cancelled("past")) /\ Cancelled("past") \in [Slots -> Run]
    BY <2>1, CancelledSettled, CancelledRuns DEF SurviveInv
  <2>3. connected' = TRUE => retry = 0 /\ retry' = 0 /\ engine = "ready"
    BY <2>1 DEF SocketInv, LiveIsSettled, HasSocket, InForce, SurviveInv, HaveEngine, Awake
  <2> QED BY <2>1, <2>2, <2>3, StartedSockets
<1>3. CASE Unmount \/ SignOut
  <2>1. /\ fx' = Cancelled("gone") /\ wsRef' = NoSlot /\ connected' = FALSE
        /\ changed' = FALSE /\ engine' = engine /\ refreshing' = refreshing
    BY <1>3 DEF Unmount, SignOut, Leave, session
  <2>2. Settled(Cancelled("gone"))
    BY CancelledSettled
  <2> QED BY <2>1, <2>2, LeftSockets
<1>4. CASE Reload
  <2>1. /\ \A s \in Slots : fx'[s].owner = "none"
        /\ wsRef' = NoSlot /\ connected' = FALSE /\ refreshing' = FALSE
    BY <1>4 DEF Reload, Idle
  <2>2. OneInForce' /\ RefIsInForce' /\ AwaitsUndisturbed'
    BY <2>1 DEF OneInForce, RefIsInForce, AwaitsUndisturbed, InForce
  <2>3. StagesFit' /\ RefreshHasEngine' /\ LiveIsSettled'
    BY <2>1 DEF StagesFit, RefreshHasEngine, LiveIsSettled
  <2> QED BY <2>2, <2>3 DEF SocketInv
<1>5. CASE SignIn
    BY <1>5, SocketsKept DEF SignIn, hook, runs, SocketInv, RefreshHasEngine
<1>6. CASE EngineLoads \/ EngineFails
    BY <1>6, LoadedSockets, FailedSockets
<1>7. CASE RefreshSucceeds
    BY <1>7, ResumedSockets DEF RefreshSucceeds
<1>8. CASE RefreshFails
    BY <1>8, ResumedSockets DEF RefreshFails
<1>9. CASE Expire
  <2>1. ASSUME NEW s \in Slots
        PROVE  fx'[s].owner = fx[s].owner /\ fx'[s].stage = fx[s].stage
    <3> DEFINE r == fx[s]
    <3>1. r \in Run
        BY DEF SurviveInv
    <3>2. fx'[s] = r \/ fx'[s] = [r EXCEPT !.tok = "expired"]
        BY <1>9 DEF Expire
    <3> HIDE DEF r
    <3>3. /\ [r EXCEPT !.tok = "expired"].owner = r.owner
          /\ [r EXCEPT !.tok = "expired"].stage = r.stage
        BY <3>1 DEF Run
    <3> QED BY <3>2, <3>3 DEF r
  <2> QED BY <1>9, <2>1, SocketsKept DEF Expire, hook, SocketInv, RefreshHasEngine
<1>10. ASSUME NEW s \in Slots, SocketOpens(s) \/ StrayOpens(s) PROVE SocketInv'
    BY <1>10, OpenedSockets
<1>11. ASSUME NEW s \in Slots, Refused(s) \/ CutOff(s) \/ Breaks(s) PROVE SocketInv'
    BY <1>11, ClosedSockets DEF Refused, CutOff, Breaks, At
<1>12. ASSUME NEW s \in Slots, RetryTimer(s) PROVE SocketInv'
    BY <1>12, RetriedSockets
<1>13. ASSUME NEW s \in Slots, Warned(s) PROVE SocketInv'
  <2>1. engine = "ready"
    BY <1>13 DEF Warned, At, SurviveInv, HaveEngine, Awake
  <2> QED BY <1>13, <2>1, SocketsKept DEF Warned, hook
<1>14. ASSUME NEW s \in Slots, Deliver(s) \/ \E e \in Remote : Receive(s, e)
       PROVE  SocketInv'
    BY <1>14, SocketsKept
       DEF Deliver, Receive, session, hook, runs, SocketInv, RefreshHasEngine
<1>15. ASSUME NEW e \in Edits, Edit(e) PROVE SocketInv'
    BY <1>15, SocketsKept DEF Edit, session, SocketInv, RefreshHasEngine
<1>16. CASE UNCHANGED vars
    BY <1>16, SocketsKept DEF vars, session, hook, runs, SocketInv, RefreshHasEngine
<1> QED BY <1>1, <1>2, <1>3, <1>4, <1>5, <1>6, <1>7, <1>8, <1>9, <1>10, <1>11, <1>12, <1>13,
           <1>14, <1>15, <1>16 DEF Next

LEMMA SocketInvariant == Spec => []SocketInv
<1>1. Init => SocketInv
  <2> SUFFICES ASSUME Init PROVE SocketInv
    OBVIOUS
  <2>1. /\ \A s \in Slots : fx[s].owner = "none"
        /\ wsRef = NoSlot /\ connected = FALSE /\ refreshing = FALSE
    BY DEF Init, Idle
  <2> QED BY <2>1 DEF SocketInv, OneInForce, RefIsInForce, AwaitsUndisturbed, StagesFit,
                      RefreshHasEngine, LiveIsSettled, InForce
<1>2. SurviveInv /\ SocketInv /\ [Next]_vars => SocketInv'
    BY WebStoreAssumption, NextSockets
<1> QED BY <1>1, <1>2, SurviveInvariant, PTL DEF Spec

(* useVersaStore.ts:118-120,190-193: no order of re-runs, awaits and closes   *)
(* leaves the page with two sockets, or with one that wsRef does not name.    *)
THEOREM SocketIsOne == Spec => []OneSocket
<1>1. SurviveInv /\ SocketInv => OneSocket
  <2> SUFFICES ASSUME SurviveInv, SocketInv PROVE OneSocket
    OBVIOUS
  <2> DEFINE sockets == At("connecting") \union At("open")
  <2>1. \A s \in sockets : fx[s].owner # "gone" =>
            s \in Slots /\ InForce(s) /\ wsRef = s
    BY DEF At, SocketInv, OneInForce, RefIsInForce, InForce, SurviveInv, Run
  <2> QED BY <2>1 DEF OneSocket
<1> QED BY <1>1, SurviveInvariant, SocketInvariant, PTL

(* TaskList.tsx:134: "live" is never on the screen of a page whose run in     *)
(* force has no socket, whatever closed it and whatever re-ran the effect.    *)
THEOREM LiveTellsTheTruth == Spec => []LiveMeansSocket
<1>1. SocketInv => LiveMeansSocket
    BY DEF SocketInv, LiveIsSettled, HasSocket, LiveMeansSocket, At, InForce
<1> QED BY <1>1, SocketInvariant, PTL

-----------------------------------------------------------------------------
(* Type correctness: what the edits are, and what the hook's fields hold.     *)

EditsType ==
    /\ snapshot \subseteq AnyEdit /\ stored \subseteq Edits
    /\ doc \subseteq AnyEdit /\ queue \subseteq Edits
    /\ wire \in [Slots -> SUBSET AnyEdit]
    /\ relay \subseteq AnyEdit
    /\ made \subseteq Edits /\ unsaved \subseteq AnyEdit /\ unread \subseteq AnyEdit

FieldsType ==
    /\ engine \in {"none", "loading", "ready", "broken"}
    /\ renewable \in BOOLEAN /\ refreshing \in BOOLEAN /\ mounted \in BOOLEAN
    /\ retry \in {0, 1} /\ changed \in BOOLEAN /\ didRefresh \in BOOLEAN
    /\ connected \in BOOLEAN
    /\ renewing \subseteq Slots
    /\ faults \in 0..MaxFaults

LEMMA SaveType ==
    ASSUME EditsType, NEW d \in SUBSET AnyEdit, saveSnapshot(d)
    PROVE  snapshot' \subseteq AnyEdit /\ unsaved' \subseteq AnyEdit
BY DEF saveSnapshot, EditsType

LEMMA FlushType ==
    ASSUME EditsType, NEW f, Flush(f)
    PROVE  /\ relay' \subseteq AnyEdit
           /\ wire' \in [Slots -> SUBSET AnyEdit]
           /\ renewing' \subseteq renewing
<1> DEFINE closed == {s \in Slots : f[s] = Idle}
<1>1. /\ relay' \in {relay, relay \union UNION {wire[s] : s \in closed}}
      /\ wire' = [s \in Slots |-> IF s \in closed THEN {} ELSE wire[s]]
      /\ renewing' = renewing \ closed
    BY DEF Flush
<1>2. \A s \in Slots : wire[s] \subseteq AnyEdit
    BY DEF EditsType
<1>3. UNION {wire[s] : s \in closed} \subseteq AnyEdit
    BY <1>2
<1> HIDE DEF closed
<1> QED BY <1>1, <1>2, <1>3 DEF EditsType

LEMMA LoadType ==
    ASSUME EditsType, NEW d \in SUBSET AnyEdit, loadSnapshot(d)
    PROVE  doc' \subseteq AnyEdit /\ unread' \subseteq AnyEdit
BY DEF loadSnapshot, EditsType

LEMMA StartType ==
    ASSUME EditsType, NEW f, Start(f)
    PROVE  doc' \subseteq AnyEdit /\ unread' \subseteq AnyEdit
<1>1. loadSnapshot(doc) \/ UNCHANGED <<doc, unread>>
    BY DEF Start
<1>2. doc \in SUBSET AnyEdit
    BY DEF EditsType
<1> QED BY <1>1, <1>2, LoadType DEF EditsType

LEMMA NextEditsType ==
    ASSUME SurviveInv, SocketInv, EditsType, [Next]_vars PROVE EditsType'
<1>0. ASSUME UNCHANGED <<snapshot, stored, doc, queue, wire, relay, made, unsaved, unread>>
      PROVE  EditsType'
    BY <1>0 DEF EditsType
<1>1. CASE Mount
    BY <1>1, StartType DEF Mount, EditsType, disk, loadQueue
<1>2. CASE Rerun
  <2>1. Start(Cancelled("past")) /\ Flush(Cancelled("past"))
        /\ UNCHANGED <<snapshot, stored, queue, made, unsaved>>
    BY <1>2 DEF Rerun, disk
  <2> QED BY <2>1, StartType, FlushType DEF EditsType
<1>3. CASE Unmount \/ SignOut
  <2>1. Flush(Cancelled("gone")) /\ queue' = {}
        /\ UNCHANGED <<snapshot, stored, doc, made, unsaved, unread>>
    BY <1>3 DEF Unmount, SignOut, Leave, disk
  <2> QED BY <2>1, FlushType DEF EditsType
<1>4. CASE Reload
  <2>1. Flush([s \in Slots |-> Idle]) /\ queue' = {} /\ doc' = {}
        /\ UNCHANGED <<snapshot, stored, made, unsaved, unread>>
    BY <1>4 DEF Reload, disk
  <2> QED BY <2>1, FlushType DEF EditsType
<1>5. CASE SignIn \/ EngineFails \/ RefreshSucceeds \/ RefreshFails \/ Expire
    BY <1>5, <1>0 DEF SignIn, EngineFails, RefreshSucceeds, RefreshFails, Expire,
                      disk, hook, runs, history
<1>6. CASE EngineLoads
  <2>1. /\ loadSnapshot({})
        /\ UNCHANGED <<snapshot, stored, queue, wire, relay, made, unsaved>>
    BY <1>6 DEF EngineLoads, disk
  <2> QED BY <2>1, LoadType DEF EditsType
<1>7. ASSUME NEW s \in Slots, SocketOpens(s) PROVE EditsType'
  <2>1. /\ wire' = [wire EXCEPT ![s] = doc \union queue] /\ queue' = {} /\ stored' = {}
        /\ UNCHANGED <<snapshot, doc, relay, made, unsaved, unread>>
    BY <1>7 DEF SocketOpens, clearQueue
  <2> QED BY <2>1 DEF EditsType, AnyEdit
<1>8. ASSUME NEW s \in Slots, StrayOpens(s) \/ RetryTimer(s) \/ Warned(s) PROVE EditsType'
    BY <1>8, <1>0 DEF StrayOpens, RetryTimer, Warned, disk, hook, runs, history
<1>9. ASSUME NEW s \in Slots, Refused(s) \/ CutOff(s) \/ Breaks(s) PROVE EditsType'
  <2>1. PICK code : Closed(s, code)
    BY <1>9 DEF Refused, CutOff, Breaks
  <2>2. wire' = [wire EXCEPT ![s] = {}]
        /\ UNCHANGED <<snapshot, stored, doc, queue, relay, made, unsaved, unread>>
    BY <2>1 DEF Closed, disk
  <2> QED BY <2>2 DEF EditsType
<1>10. ASSUME NEW s \in Slots, Deliver(s) PROVE EditsType'
  <2>1. /\ wire' = [wire EXCEPT ![s] = {}] /\ relay' = relay \union wire[s]
        /\ UNCHANGED <<snapshot, stored, doc, queue, made, unsaved, unread>>
    BY <1>10 DEF Deliver, disk, hook, history
  <2>2. wire[s] \subseteq AnyEdit
    BY DEF EditsType
  <2> QED BY <2>1, <2>2 DEF EditsType
<1>11. ASSUME NEW s \in Slots, NEW e \in Remote, Receive(s, e) PROVE EditsType'
  <2>1. doc' = doc \union {e} /\ saveSnapshot(doc')
        /\ UNCHANGED <<stored, queue, wire, relay, made, unread>>
    BY <1>11 DEF Receive, hook, runs
  <2>2. doc' \in SUBSET AnyEdit
    BY <2>1 DEF EditsType, AnyEdit
  <2> QED BY <2>1, <2>2, SaveType DEF EditsType
<1>12. ASSUME NEW e \in Edits, Edit(e) PROVE EditsType'
  <2>1. doc' = doc \union {e} /\ made' = made \union {e} /\ saveSnapshot(doc') /\ sendDiff(e)
        /\ UNCHANGED <<relay, unread>>
    BY <1>12 DEF Edit
  <2>2. doc' \in SUBSET AnyEdit /\ made' \subseteq Edits
    BY <2>1 DEF EditsType, AnyEdit
  <2>3. snapshot' \subseteq AnyEdit /\ unsaved' \subseteq AnyEdit
    BY <2>1, <2>2, SaveType
  <2>4. CASE wsRef # NoSlot /\ fx[wsRef].stage = "open"
    <3>1. wire' = [wire EXCEPT ![wsRef] = @ \union {e}] /\ UNCHANGED <<queue, stored>>
        BY <2>1, <2>4 DEF sendDiff
    <3>2. wsRef \in Slots /\ wire[wsRef] \union {e} \subseteq AnyEdit
        BY <2>4 DEF SocketInv, RefIsInForce, EditsType, AnyEdit
    <3> QED BY <2>1, <2>2, <2>3, <3>1, <3>2 DEF EditsType
  <2>5. CASE ~(wsRef # NoSlot /\ fx[wsRef].stage = "open")
    <3>1. queue' = queue \union {e} /\ saveQueue(queue') /\ UNCHANGED wire
        BY <2>1, <2>5 DEF sendDiff
    <3>2. queue' \subseteq Edits
        BY <3>1 DEF EditsType
    <3>3. stored' = queue' \/ stored' = stored
        BY <3>1 DEF saveQueue
    <3> QED BY <2>1, <2>2, <2>3, <3>1, <3>2, <3>3 DEF EditsType
  <2> QED BY <2>4, <2>5
<1>13. CASE UNCHANGED vars
    BY <1>13, <1>0 DEF vars, disk, hook, runs, history
<1> QED BY <1>1, <1>2, <1>3, <1>4, <1>5, <1>6, <1>7, <1>8, <1>9, <1>10, <1>11, <1>12, <1>13
        DEF Next

LEMMA FaultType == ASSUME FieldsType, Fault PROVE faults' \in 0..MaxFaults
BY WebStoreAssumption DEF FieldsType, Fault

LEMMA StartFieldsType ==
    ASSUME FieldsType, NEW f, Start(f)
    PROVE  /\ engine' \in {"none", "loading", "ready", "broken"}
           /\ refreshing' \in BOOLEAN /\ didRefresh' \in BOOLEAN
<1>1. \/ engine' = engine /\ \E new, s : Proceed(new, s)
      \/ engine' \in {engine, "loading"} /\ UNCHANGED <<didRefresh, refreshing>>
    BY DEF Start
<1>2. ASSUME NEW new, NEW s, Proceed(new, s)
      PROVE  refreshing' \in BOOLEAN /\ didRefresh' \in BOOLEAN
    BY Zenon, <1>2 DEF Proceed
<1> QED BY <1>1, <1>2 DEF FieldsType

LEMMA NextFieldsType ==
    ASSUME SurviveInv, EditsType, FieldsType, [Next]_vars PROVE FieldsType'
<1> USE DEF FieldsType
<1>1. CASE Mount
    BY <1>1, StartFieldsType, FaultType DEF Mount
<1>2. CASE Rerun
  <2>1. /\ Start(Cancelled("past")) /\ Flush(Cancelled("past")) /\ changed' = FALSE
        /\ UNCHANGED <<renewable, mounted, retry, connected>> /\ (Fault \/ UNCHANGED faults)
    BY <1>2 DEF Rerun
  <2> QED BY <2>1, StartFieldsType, FlushType, FaultType
<1>3. CASE Unmount \/ SignOut
  <2>1. /\ mounted' = FALSE /\ retry' = 0 /\ changed' = FALSE /\ didRefresh' = FALSE
        /\ connected' = FALSE /\ Flush(Cancelled("gone")) /\ UNCHANGED <<engine, refreshing>>
        /\ renewable' \in {FALSE, renewable}
        /\ Fault \/ UNCHANGED faults
    BY <1>3 DEF Unmount, SignOut, Leave, session
  <2> QED BY <2>1, FlushType, FaultType
<1>4. CASE Reload
  <2>1. /\ mounted' = FALSE /\ retry' = 0 /\ changed' = FALSE /\ didRefresh' = FALSE
        /\ connected' = FALSE /\ Flush([s \in Slots |-> Idle])
        /\ engine' = "none" /\ refreshing' = FALSE /\ renewable' = renewable /\ Fault
    BY <1>4 DEF Reload
  <2> QED BY <2>1, FlushType, FaultType
<1>5. CASE SignIn \/ EngineLoads \/ EngineFails
    BY <1>5, FaultType DEF SignIn, EngineLoads, EngineFails, session, hook, runs
<1>6. CASE RefreshSucceeds
    BY <1>6 DEF RefreshSucceeds, Resume
<1>7. CASE RefreshFails
    BY <1>7, FaultType DEF RefreshFails, Resume
<1>8. CASE Expire
    BY <1>8, FaultType DEF Expire, hook
<1>9. ASSUME NEW s \in Slots, SocketOpens(s) PROVE FieldsType'
  <2>1. changed' \in BOOLEAN
    BY <1>9 DEF SocketOpens
  <2> QED BY <1>9, <2>1 DEF SocketOpens, session
<1>10. ASSUME NEW s \in Slots, StrayOpens(s) PROVE FieldsType'
    BY <1>10 DEF StrayOpens, hook, session
<1>11. ASSUME NEW s \in Slots, Refused(s) \/ CutOff(s) \/ Breaks(s) PROVE FieldsType'
  <2>1. PICK code : Closed(s, code) /\ (Fault \/ UNCHANGED faults)
    BY <1>11 DEF Refused, CutOff, Breaks
  <2>2. connected' \in BOOLEAN /\ didRefresh' \in BOOLEAN
    BY <2>1 DEF Closed
  <2>3. renewing' \subseteq Slots /\ UNCHANGED <<engine, renewable, refreshing, mounted, retry, changed>>
    BY <2>1 DEF Closed, session
  <2> QED BY <2>1, <2>2, <2>3, FaultType
<1>12. ASSUME NEW s \in Slots, RetryTimer(s) \/ Warned(s) \/ Deliver(s) PROVE FieldsType'
    BY ZenonT(60), <1>12, FaultType DEF RetryTimer, Warned, Deliver, session, hook, runs
<1>13. ASSUME NEW d, saveSnapshot(d) PROVE faults' \in 0..MaxFaults
    BY <1>13, FaultType DEF saveSnapshot
<1>14. ASSUME NEW s \in Slots, NEW e \in Remote, Receive(s, e) PROVE FieldsType'
    BY <1>14, <1>13 DEF Receive, session, hook, runs
<1>15. ASSUME NEW e \in Edits, Edit(e) PROVE FieldsType'
    BY <1>15, <1>13 DEF Edit, session
<1>16. CASE UNCHANGED vars
    BY <1>16 DEF vars, session, hook, runs
<1> QED BY <1>1, <1>2, <1>3, <1>4, <1>5, <1>6, <1>7, <1>8, <1>9, <1>10, <1>11, <1>12,
           <1>14, <1>15, <1>16 DEF Next

(* useVersaStore.ts:16-267: through every failure, reload and sign-out the    *)
(* queue holds edits of this user only, and the relay, the engine and the     *)
(* storage nothing that nobody did.                                           *)
THEOREM StoreTypeCorrect == Spec => []TypeOK
<1>1. Init => EditsType /\ FieldsType
  <2> SUFFICES ASSUME Init PROVE EditsType /\ FieldsType
    OBVIOUS
  <2>1. EditsType
    BY DEF Init, EditsType
  <2>2. 0 \in 0..MaxFaults
    BY WebStoreAssumption
  <2>3. FieldsType
    BY <2>2 DEF Init, FieldsType
  <2> QED BY <2>1, <2>3
<1>2. SurviveInv /\ SocketInv /\ EditsType /\ [Next]_vars => EditsType'
    BY NextEditsType
<1>3. SurviveInv /\ EditsType /\ FieldsType /\ [Next]_vars => FieldsType'
    BY NextFieldsType
<1>4. SurviveInv /\ SocketInv /\ RefreshInv /\ EditsType /\ FieldsType => TypeOK
  <2> SUFFICES ASSUME SurviveInv, SocketInv, RefreshInv, EditsType, FieldsType PROVE TypeOK
    OBVIOUS
  <2>1. wsRef \in Slots \union {NoSlot}
    BY DEF SocketInv, RefIsInForce
  <2>2. asked \in Nat
    BY DEF RefreshInv
  <2> QED BY <2>1, <2>2 DEF TypeOK, SurviveInv, EditsType, FieldsType
<1> QED BY <1>1, <1>2, <1>3, <1>4, SurviveInvariant, SocketInvariant, RefreshInvariant, PTL
        DEF Spec
=============================================================================
