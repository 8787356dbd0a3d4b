------------------------------- MODULE BenchRun -------------------------------
(* web-app/src/components/BenchPage.tsx: a run connects two sockets, sends one *)
(* frame a round and waits for it on the other socket for at most 3 s, takes  *)
(* percentiles and starts three animations that the next run may overtake.    *)
EXTENDS Naturals, Sequences, FiniteSets, SequencesExt

CONSTANTS
    Rounds,     \* rounds of a run
    Every,      \* a median is shown every so many rounds
    Latencies,  \* what a round measures, in units of time
    Timeout,    \* what a round that gives up counts as
    Cols,       \* columns of the conflict demo
    Steps,      \* steps of a column
    NoStat,
    MaxRuns     \* bound: clicks on "Run Benchmark"

ASSUME BenchAssumption ==
    /\ Rounds \in Nat \ {0} /\ Every \in Nat \ {0} /\ Steps \in Nat \ {0} /\ MaxRuns \in Nat
    /\ Latencies \subseteq Nat /\ Timeout \in Nat /\ \A l \in Latencies : l < Timeout
    /\ NoStat \notin Nat

VARIABLES
    running,    \* the button is disabled
    phase,      \* where the current run is
    run,        \* number of the current run
    sockets,    \* sockets not closed: run, end and whether it has opened
    refused,    \* runs that could not connect
    round,      \* the round under way
    net,        \* frames between the sockets, oldest first, by their round
    samples,    \* versaLatencies; frame is the one that arrived, 0 for none
    stats,      \* the medians on the screen
    conflict,   \* column -> its steps and whether its result shows
    animators   \* animations under way

screen == <<running, stats>>
wires  == <<sockets, net>>
vars   == <<screen, phase, run, wires, refused, round, samples, conflict, animators>>

Ends == {"sender", "receiver"}
Sample == [round: 1..Rounds, frame: 0..Rounds, ms: Latencies \union {Timeout}]
Socket == [run: 1..MaxRuns, end: Ends, up: {"yes", "no"}]
Column == [steps: [1..Steps -> {"idle", "active", "done"}], result: {"none", "shown"}]
Stats == [versa: Nat \union {NoStat}, rest: Nat \union {NoStat}]

TypeOK ==
    /\ running \in BOOLEAN
    /\ phase \in {"ready", "connecting", "waiting", "pause", "finish", "broken"}
    /\ run \in 0..MaxRuns
    /\ sockets \subseteq Socket /\ refused \subseteq 1..MaxRuns
    /\ round \in 0..Rounds
    /\ net \in Seq(1..Rounds)
    /\ samples \in Seq(Sample) /\ Len(samples) <= Rounds
    /\ stats \in Stats
    /\ conflict \in [Cols -> Column]
    /\ animators \subseteq [run: 1..MaxRuns, col: Cols, step: 1..Steps, doing: {"no", "yes"}]

initConflict == [c \in Cols |-> [steps |-> [i \in 1..Steps |-> "idle"], result |-> "none"]]

NoStats == [versa |-> NoStat, rest |-> NoStat]

Init ==
    /\ running = FALSE /\ phase = "ready" /\ run = 0
    /\ sockets = {} /\ refused = {} /\ round = 0
    /\ net = <<>> /\ samples = <<>>
    /\ stats = NoStats
    /\ conflict = initConflict /\ animators = {}

-----------------------------------------------------------------------------
(* Figures.                                                                   *)

(* The numbers of arr in ascending order.                                     *)
Sorted(arr) ==
    LET p == CHOOSE p \in [1..Len(arr) -> 1..Len(arr)] :
                \A i, j \in 1..Len(arr) : i < j => p[i] # p[j] /\ arr[p[i]] <= arr[p[j]]
    IN [i \in 1..Len(arr) |-> arr[p[i]]]

(* Slip: the index is rounded down.                                           *)
PercentileDown(arr, p) == Sorted(arr)[Max({1, (p * Len(arr)) \div 100})]

(* Nearest rank, counted from one.                                            *)
percentile(arr, p) == Sorted(arr)[Max({1, (p * Len(arr) + 99) \div 100})]

Times(s) == [i \in 1..Len(s) |-> s[i].ms]

(* The samples of s that are not timeouts, in order.                          *)
Answered(s) ==
    LET upTo[i \in 0..Len(s)] ==
          IF i = 0 THEN <<>>
          ELSE IF s[i].frame = 0 THEN upTo[i - 1] ELSE Append(upTo[i - 1], s[i])
    IN upTo[Len(s)]

(* REST and GraphQL times are those of the rounds that did not give up, each  *)
(* longer by a constant.                                                      *)
Medians(s) == [versa |-> percentile(Times(s), 50), rest |-> percentile(Times(Answered(s)), 50)]

-----------------------------------------------------------------------------
(* Connecting.                                                                *)

Click ==
    /\ ~running /\ run < MaxRuns
    /\ running' = TRUE /\ phase' = "connecting"
    /\ run' = run + 1
    /\ stats' = NoStats /\ conflict' = initConflict
    /\ sockets' = sockets \union {[run |-> run', end |-> e, up |-> "no"] : e \in Ends}
    /\ round' = 0 /\ net' = <<>> /\ samples' = <<>>
    /\ UNCHANGED <<refused, animators>>

SocketOpens(s) ==
    /\ s.up = "no"
    /\ sockets' = (sockets \ {s}) \union {[s EXCEPT !.up = "yes"]}
    /\ UNCHANGED <<screen, phase, run, net, refused, round, samples, conflict, animators>>

(* One of the sockets fails: the run is over, the other socket is not closed. *)
ConnectFails(s) ==
    /\ phase = "connecting" /\ s.run = run /\ s.up = "no"
    /\ sockets' = sockets \ {s}
    /\ refused' = refused \union {run}
    /\ running' = FALSE /\ phase' = "ready"
    /\ UNCHANGED <<run, net, round, samples, stats, conflict, animators>>

(* 5 s are over: a socket that opens later stays open.                        *)
ConnectTimesOut ==
    /\ phase = "connecting" /\ \E s \in sockets : s.run = run /\ s.up = "no"
    /\ refused' = refused \union {run}
    /\ running' = FALSE /\ phase' = "ready"
    /\ UNCHANGED <<run, wires, round, samples, stats, conflict, animators>>

-----------------------------------------------------------------------------
(* Rounds.                                                                    *)

(* The frame is sent, or dropped with a socket that is closing, and           *)
(* waitForMessage puts its handler in the last one's place.                   *)
BeginRound ==
    /\ round' = round + 1
    /\ net' \in {net, Append(net, round')}
    /\ phase' = "waiting"

Connected ==
    /\ phase = "connecting"
    /\ \A s \in sockets : s.run = run => s.up = "yes"
    /\ BeginRound
    /\ UNCHANGED <<screen, run, sockets, refused, samples, conflict, animators>>

(* The handler takes the first frame that comes, of whatever round.           *)
Arrive ==
    /\ phase = "waiting" /\ net # <<>>
    /\ net' = Tail(net)
    /\ \E ms \in Latencies :
          samples' = Append(samples, [round |-> round, frame |-> Head(net), ms |-> ms])
    /\ stats' = IF round % Every = 0 THEN Medians(samples') ELSE stats
    /\ phase' = "pause"
    /\ UNCHANGED <<running, run, sockets, refused, round, conflict, animators>>

(* Between rounds the handler's promise is settled: the frame is lost.        *)
ArriveLate ==
    /\ phase = "pause" /\ net # <<>>
    /\ net' = Tail(net)
    /\ UNCHANGED <<screen, phase, run, sockets, refused, round, samples, conflict, animators>>

(* The relay drops a frame, or the connection its frames.                     *)
Lose ==
    /\ net # <<>>
    /\ net' = Tail(net)
    /\ phase = "waiting"
    /\ UNCHANGED <<screen, phase, run, sockets, refused, round, samples, conflict, animators>>

(* Slip: the round that gives up is counted with those that were answered.    *)
GiveUpAnswered ==
    /\ phase = "waiting"
    /\ samples' = Append(samples, [round |-> round, frame |-> round, ms |-> Timeout])
    /\ IF round < Rounds THEN BeginRound ELSE phase' = "finish" /\ UNCHANGED <<round, net>>
    /\ UNCHANGED <<screen, run, sockets, refused, conflict, animators>>

(* 3 s without a frame: the next round begins at once.                        *)
GiveUp ==
    /\ phase = "waiting"
    /\ samples' = Append(samples, [round |-> round, frame |-> 0, ms |-> Timeout])
    /\ IF round < Rounds THEN BeginRound ELSE phase' = "finish" /\ UNCHANGED <<round, net>>
    /\ UNCHANGED <<screen, run, sockets, refused, conflict, animators>>

(* Slip: one round too many.                                                  *)
PausedOneMore ==
    /\ phase = "pause"
    /\ IF round <= Rounds THEN BeginRound ELSE phase' = "finish" /\ UNCHANGED <<round, net>>
    /\ UNCHANGED <<screen, run, sockets, refused, samples, conflict, animators>>

(* The 20 ms after a round.                                                   *)
Paused ==
    /\ phase = "pause"
    /\ IF round < Rounds THEN BeginRound ELSE phase' = "finish" /\ UNCHANGED <<round, net>>
    /\ UNCHANGED <<screen, run, sockets, refused, samples, conflict, animators>>

(* One animateCol for each column, all under way together.                    *)
Animations == {[run |-> run, col |-> c, step |-> 1, doing |-> "no"] : c \in Cols}

(* Slip: the receiver's socket is not closed.                                 *)
FinishHalf ==
    /\ phase = "finish" /\ Answered(samples) # <<>>
    /\ sockets' = {s \in sockets : s.run # run \/ s.end = "receiver"}
    /\ stats' = Medians(samples)
    /\ running' = FALSE /\ phase' = "ready"
    /\ animators' = animators \union Animations
    /\ UNCHANGED <<run, net, refused, round, samples, conflict>>

(* Slip: the button is enabled with the animations' end in mind, never here.  *)
FinishDisabled ==
    /\ phase = "finish" /\ Answered(samples) # <<>>
    /\ sockets' = {s \in sockets : s.run # run}
    /\ stats' = Medians(samples)
    /\ phase' = "ready"
    /\ animators' = animators \union Animations
    /\ UNCHANGED <<running, run, net, refused, round, samples, conflict>>

(* The button is enabled before the animations, which it does not wait for.   *)
Finish ==
    /\ phase = "finish" /\ Answered(samples) # <<>>
    /\ sockets' = {s \in sockets : s.run # run}
    /\ stats' = Medians(samples)
    /\ running' = FALSE /\ phase' = "ready"
    /\ animators' = animators \union Animations
    /\ UNCHANGED <<run, net, refused, round, samples, conflict>>

(* No round was answered: the percentile of nothing is undefined, and `fmt'   *)
(* throws on it before the button is enabled.                                 *)
FinishThrows ==
    /\ phase = "finish" /\ Answered(samples) = <<>>
    /\ sockets' = {s \in sockets : s.run # run}
    /\ phase' = "broken"
    /\ UNCHANGED <<screen, run, net, refused, round, samples, conflict, animators>>

-----------------------------------------------------------------------------
(* animateCol.                                                                *)

Begin(a) ==
    /\ a.doing = "no"
    /\ conflict' = [conflict EXCEPT ![a.col].steps[a.step] = "active"]
    /\ animators' = (animators \ {a}) \union {[a EXCEPT !.doing = "yes"]}
    /\ UNCHANGED <<screen, phase, run, wires, refused, round, samples>>

(* Slip: the last step is left active when the result is shown.               *)
EndEarly(a) ==
    /\ a.doing = "yes"
    /\ IF a.step < Steps
       THEN /\ conflict' = [conflict EXCEPT ![a.col].steps[a.step] = "done"]
            /\ animators' = (animators \ {a}) \union
                   {[a EXCEPT !.doing = "no", !.step = @ + 1]}
       ELSE /\ conflict' = [conflict EXCEPT ![a.col].result = "shown"]
            /\ animators' = animators \ {a}
    /\ UNCHANGED <<screen, phase, run, wires, refused, round, samples>>

End(a) ==
    /\ a.doing = "yes"
    /\ IF a.step < Steps
       THEN /\ conflict' = [conflict EXCEPT ![a.col].steps[a.step] = "done"]
            /\ animators' = (animators \ {a}) \union
                   {[a EXCEPT !.doing = "no", !.step = @ + 1]}
       ELSE /\ conflict' = [conflict EXCEPT ![a.col].steps[a.step] = "done",
                                            ![a.col].result = "shown"]
            /\ animators' = animators \ {a}
    /\ UNCHANGED <<screen, phase, run, wires, refused, round, samples>>

Next ==
    \/ Click \/ ConnectTimesOut \/ Connected \/ Arrive \/ ArriveLate \/ Lose
    \/ GiveUp \/ Paused \/ Finish \/ FinishThrows
    \/ \E s \in sockets : SocketOpens(s) \/ ConnectFails(s)
    \/ \E a \in animators : Begin(a) \/ End(a)

Spec == Init /\ [][Next]_vars

(* Timers go off.  Nothing is asked of the network or of the user.            *)
FairSpec ==
    /\ Spec
    /\ WF_vars(Connected \/ ConnectTimesOut)
    /\ WF_vars(GiveUp) /\ WF_vars(Paused)
    /\ WF_vars(Finish) /\ WF_vars(FinishThrows)

-----------------------------------------------------------------------------
(* Properties.                                                                *)

GaveUp(s) == Cardinality({i \in 1..Len(s) : s[i].frame = 0})

(* BenchPage.tsx:59-64,219-220: a round measures its own frame or an older    *)
(* one, and lags by no more rounds than have given up so far.                 *)
LagIsBounded ==
    \A i \in 1..Len(samples) : samples[i].frame # 0 =>
        /\ samples[i].frame <= samples[i].round
        /\ samples[i].round - samples[i].frame <= GaveUp(SubSeq(samples, 1, i))

(* BenchPage.tsx:220-227,252-268: a median that is on the screen is one of    *)
(* the times it stands for, with fewer than half of them below it and fewer   *)
(* than half, or just half, above.                                            *)
IsMedian(m, arr) ==
    /\ m \in {arr[i] : i \in 1..Len(arr)}
    /\ 2 * Cardinality({i \in 1..Len(arr) : arr[i] < m}) < Len(arr)
    /\ 2 * Cardinality({i \in 1..Len(arr) : arr[i] > m}) <= Len(arr)

MediansAreMedians ==
    stats # NoStats =>
        \E n \in 1..Len(samples) :
            /\ n = Len(samples) \/ n % Every = 0
            /\ IsMedian(stats.versa, Times(SubSeq(samples, 1, n)))
            /\ IsMedian(stats.rest, Times(Answered(SubSeq(samples, 1, n))))

(* BenchPage.tsx:193-202,263-264: a socket that outlives its run belongs to a *)
(* run that could not connect.                                                *)
SocketsReleased ==
    \A s \in sockets : s.run \in refused \/ (s.run = run /\ running)

(* BenchPage.tsx:90-110,182,282-288: when runs and animations have ended, a   *)
(* column that shows a result has all its steps done, although animations of  *)
(* two runs may have worked on it - unless a run that could not connect reset *)
(* it under an animation of the run before.                                   *)
ColumnsSettle ==
    animators = {} /\ ~running => \A c \in Cols :
        conflict[c].result = "shown" /\ run \notin refused =>
            \A i \in 1..Steps : conflict[c].steps[i] = "done"

(* BenchPage.tsx:178,200,282: a run ends and the button is enabled again,     *)
(* unless no round at all was answered.                                       *)
RunEnds == running ~> (~running \/ phase = "broken")

-----------------------------------------------------------------------------
(* The inductive invariants behind the theorems of BenchRunProofs.            *)

(* A median that is on the screen while a run goes on was taken after so many *)
(* rounds; one that stays after the run stands for all of it.                 *)
StatsInv ==
    stats # NoStats =>
        /\ phase # "connecting"
        /\ \E n \in 1..Len(samples) :
             /\ n % Every = 0 \/ (phase = "ready" /\ n = Len(samples))
             /\ IsMedian(stats.versa, Times(SubSeq(samples, 1, n)))
             /\ IsMedian(stats.rest, Times(Answered(SubSeq(samples, 1, n))))

(* A step that is active is being worked on, and once a run has ended that    *)
(* could connect, a step that is idle lies ahead of one of its animations.    *)
StepsInv ==
    /\ run = 0 => conflict = initConflict /\ animators = {} /\ ~running
    /\ \A c \in Cols, i \in 1..Steps :
          /\ conflict[c].steps[i] = "active" =>
                \E a \in animators : a.col = c /\ a.step = i /\ a.doing = "yes"
          /\ run # 0 /\ ~running /\ run \notin refused /\ conflict[c].steps[i] = "idle" =>
                \E a \in animators :
                    a.run = run /\ a.col = c
                    /\ (a.step < i \/ (a.step = i /\ a.doing = "no"))
=============================================================================
