---------------------------- MODULE BenchRunProofs ----------------------------
(* Proofs about BenchRun for any number of rounds, runs and latencies.        *)
EXTENDS BenchRun, FiniteSetTheorems, SequenceTheorems, TLAPS

-----------------------------------------------------------------------------
(* Sockets.                                                                   *)

SocketInv ==
    /\ sockets \subseteq [run: Nat, end: Ends, up: {"yes", "no"}]
    /\ run \in Nat
    /\ SocketsReleased

(* BenchPage.tsx:193-202,263-264: whatever connects late or not at all, only  *)
(* a run that could not connect leaves a socket behind.                       *)
THEOREM SocketsAreReleased == Spec => []SocketsReleased
<1>1. Init => SocketInv
    BY DEF Init, SocketInv, SocketsReleased
<1>2. SocketInv /\ [Next]_vars => SocketInv'
  <2> SUFFICES ASSUME SocketInv, [Next]_vars PROVE SocketInv'
    OBVIOUS
  <2> USE DEF SocketInv, SocketsReleased
  <2>1. CASE Click
    <3>1. run' = run + 1 /\ running' /\ UNCHANGED refused
        BY <2>1 DEF Click
    <3>2. \A s \in sockets : s.run \in refused
        BY <2>1 DEF Click
    <3>3. \A s \in sockets' : s \in sockets \/ (s.run = run' /\ \E e \in Ends :
                                    s = [run |-> run', end |-> e, up |-> "no"])
        BY <2>1 DEF Click
    <3>4. sockets' \subseteq [run: Nat, end: Ends, up: {"yes", "no"}]
        BY <3>1, <3>3
    <3> QED BY <3>1, <3>2, <3>3, <3>4
  <2>2. ASSUME NEW s \in sockets, SocketOpens(s) PROVE SocketInv'
    <3>1. /\ [s EXCEPT !.up = "yes"] \in [run: Nat, end: Ends, up: {"yes", "no"}]
          /\ [s EXCEPT !.up = "yes"].run = s.run
        OBVIOUS
    <3>2. sockets' = (sockets \ {s}) \union {[s EXCEPT !.up = "yes"]}
          /\ UNCHANGED <<run, running, refused>>
        BY <2>2 DEF SocketOpens, screen
    <3> QED BY <3>1, <3>2
  <2>3. ASSUME NEW s \in sockets, ConnectFails(s) PROVE SocketInv'
    BY <2>3 DEF ConnectFails
  <2>4. CASE ConnectTimesOut
    BY <2>4 DEF ConnectTimesOut, wires
  <2>5. CASE Finish
    BY <2>5 DEF Finish
  <2>6. CASE FinishThrows
    BY <2>6 DEF FinishThrows, screen
  <2>7. CASE UNCHANGED <<running, run, sockets, refused>>
    BY <2>7
  <2>8. CASE \/ Connected \/ Arrive \/ ArriveLate \/ Lose \/ GiveUp \/ Paused
             \/ \E a \in animators : Begin(a) \/ End(a)
    BY <2>8, <2>7 DEF Connected, Arrive, ArriveLate, Lose, GiveUp, Paused, Begin, End,
                      screen, wires
  <2>9. CASE UNCHANGED vars
    BY <2>9, <2>7 DEF vars, screen, wires
  <2> QED BY <2>1, <2>2, <2>3, <2>4, <2>5, <2>6, <2>8, <2>9 DEF Next
<1>3. SocketInv => SocketsReleased
    BY DEF SocketInv
<1> QED BY <1>1, <1>2, <1>3, PTL DEF Spec

-----------------------------------------------------------------------------
(* Rounds that give up.                                                       *)

Samples == Seq([round: Nat, frame: Nat, ms: Nat])

LEMMA GaveUpIsNat == ASSUME NEW s \in Samples PROVE GaveUp(s) \in Nat
<1>1. IsFiniteSet(1..Len(s))
    BY FS_Interval DEF Samples
<1>2. IsFiniteSet({i \in 1..Len(s) : s[i].frame = 0})
    BY <1>1, FS_Subset
<1> QED BY <1>2, FS_CardinalityType DEF GaveUp

LEMMA GaveUpAppend ==
    ASSUME NEW s \in Samples, NEW x \in [round: Nat, frame: Nat, ms: Nat]
    PROVE  GaveUp(Append(s, x)) = GaveUp(s) + (IF x.frame = 0 THEN 1 ELSE 0)
<1> DEFINE old == {i \in 1..Len(s) : s[i].frame = 0}
           new == {i \in 1..Len(Append(s, x)) : Append(s, x)[i].frame = 0}
<1>0. GaveUp(s) = Cardinality(old) /\ GaveUp(Append(s, x)) = Cardinality(new)
    BY DEF GaveUp
<1>1. IsFiniteSet(old) /\ Cardinality(old) \in Nat
  <2>1. IsFiniteSet(1..Len(s))
    BY FS_Interval DEF Samples
  <2>2. IsFiniteSet(old)
    BY <2>1, FS_Subset
  <2> QED BY <2>2, FS_CardinalityType
<1>2. Len(s) \in Nat /\ Len(Append(s, x)) = Len(s) + 1 /\ Append(s, x)[Len(s) + 1] = x
      /\ \A i \in 1..Len(s) : Append(s, x)[i] = s[i]
    BY DEF Samples
<1>3. CASE x.frame = 0
    <2>1. new = old \union {Len(s) + 1} /\ Len(s) + 1 \notin old
        BY <1>2, <1>3
    <2>2. Cardinality(new) = Cardinality(old) + 1
        BY <1>1, <2>1, FS_AddElement
    <2> QED BY <1>0, <1>3, <2>2
<1>4. CASE x.frame # 0
    <2>1. new = old
        BY <1>2, <1>4
    <2>2. Cardinality(new) = Cardinality(old)
        BY <2>1, Zenon
    <2>3. GaveUp(Append(s, x)) = GaveUp(s) /\ GaveUp(s) \in Nat
        BY <1>0, <1>1, <2>2
    <2> HIDE DEF old, new
    <2> QED BY <1>4, <2>3
<1> QED BY <1>3, <1>4

-----------------------------------------------------------------------------
(* The lag.  A frame under way is younger than all that were taken, which are *)
(* as many as the rounds that did not give up: so its round is at least the   *)
(* number of those and one.                                                   *)

Increasing(q) == \A i, j \in 1..Len(q) : i < j => q[i] < q[j]

(* The frames of q, in round r with the samples s. *)
Young(q, r, s) ==
    /\ q \in Seq(Nat \ {0})
    /\ Increasing(q)
    /\ \A i \in 1..Len(q) : q[i] <= r /\ q[i] + GaveUp(s) >= Len(s) + 1

LagOf(s, i) ==
    s[i].frame # 0 =>
        /\ s[i].frame <= s[i].round
        /\ s[i].round - s[i].frame <= GaveUp(SubSeq(s, 1, i))

LagInv ==
    /\ round \in Nat
    /\ samples \in Samples
    /\ Young(net, round, samples)
    /\ phase = "connecting" => round = 0 /\ samples = <<>> /\ net = <<>>
    /\ phase = "waiting" => Len(samples) + 1 = round
    /\ phase = "pause" => Len(samples) = round
    /\ LagIsBounded

LEMMA YoungTail ==
    ASSUME NEW q, NEW r \in Nat, NEW s \in Samples, Young(q, r, s), q # <<>>
    PROVE  /\ Young(Tail(q), r, s)
           /\ Head(q) \in Nat \ {0} /\ Head(q) <= r /\ Head(q) + GaveUp(s) >= Len(s) + 1
           /\ \A i \in 1..Len(Tail(q)) : Tail(q)[i] > Head(q)
<1>1. q \in Seq(Nat \ {0}) /\ Len(q) \in Nat /\ Len(q) > 0 /\ Head(q) = q[1]
    BY DEF Young
<1>2. /\ Tail(q) \in Seq(Nat \ {0}) /\ Len(Tail(q)) = Len(q) - 1
      /\ \A i \in 1..Len(Tail(q)) : Tail(q)[i] = q[i + 1] /\ i + 1 \in 1..Len(q)
    BY <1>1
<1>3. Increasing(Tail(q))
    BY <1>1, <1>2 DEF Young, Increasing
<1>4. \A i \in 1..Len(Tail(q)) : Tail(q)[i] <= r /\ Tail(q)[i] + GaveUp(s) >= Len(s) + 1
    BY <1>2 DEF Young
<1>5. 1 \in 1..Len(q) /\ q[1] \in Nat \ {0}
    BY <1>1
<1>6. \A i \in 1..Len(Tail(q)) : Tail(q)[i] > Head(q)
  <2> TAKE i \in 1..Len(Tail(q))
  <2>1. i + 1 \in 1..Len(q) /\ 1 < i + 1 /\ Tail(q)[i] = q[i + 1]
    BY <1>2
  <2>2. q[i + 1] \in Nat /\ q[1] < q[i + 1]
    BY <1>1, <1>5, <2>1 DEF Young, Increasing
  <2> QED BY <1>1, <1>5, <2>1, <2>2
<1>7. Head(q) <= r /\ Head(q) + GaveUp(s) >= Len(s) + 1
    BY <1>1, <1>5 DEF Young
<1> QED BY <1>1, <1>2, <1>3, <1>4, <1>5, <1>6, <1>7 DEF Young

LEMMA YoungAppend ==
    ASSUME NEW q, NEW r \in Nat, NEW s \in Samples, Young(q, r, s), Len(s) = r
    PROVE  Young(q, r + 1, s) /\ Young(Append(q, r + 1), r + 1, s)
<1>1. q \in Seq(Nat \ {0}) /\ Len(q) \in Nat /\ GaveUp(s) \in Nat
    BY GaveUpIsNat DEF Young
<1>2. \A i \in 1..Len(q) : q[i] \in Nat \ {0}
    BY <1>1
<1>3. Young(q, r + 1, s)
    BY <1>1, <1>2 DEF Young
<1> DEFINE p == Append(q, r + 1)
<1>4. /\ p \in Seq(Nat \ {0}) /\ Len(p) = Len(q) + 1 /\ p[Len(q) + 1] = r + 1
      /\ \A i \in 1..Len(q) : p[i] = q[i]
    BY <1>1
<1> HIDE DEF p
<1>5. Increasing(p)
  <2> SUFFICES ASSUME NEW i \in 1..Len(p), NEW j \in 1..Len(p), i < j PROVE p[i] < p[j]
    BY DEF Increasing
  <2>1. i \in 1..Len(q) /\ q[i] <= r /\ p[i] = q[i] /\ q[i] \in Nat
    BY SMTT(30), <1>1, <1>2, <1>4 DEF Young
  <2>2. CASE j = Len(q) + 1
    BY <1>4, <2>1, <2>2
  <2>3. CASE j \in 1..Len(q)
    BY <1>4, <2>1, <2>3 DEF Young, Increasing
  <2> QED BY SMTT(30), <1>1, <1>4, <2>2, <2>3
<1>6. ASSUME NEW i \in 1..Len(p) PROVE p[i] <= r + 1 /\ p[i] + GaveUp(s) >= Len(s) + 1
  <2>1. CASE i = Len(q) + 1
    BY <1>1, <1>4, <2>1
  <2>2. CASE i \in 1..Len(q)
    <3>1. q[i] <= r /\ q[i] + GaveUp(s) >= Len(s) + 1
        BY <2>2 DEF Young
    <3>2. p[i] = q[i] /\ q[i] \in Nat
        BY <1>2, <1>4, <2>2
    <3> QED BY <1>1, <3>1, <3>2
  <2> QED BY <1>1, <1>4, <2>1, <2>2
<1> QED BY <1>3, <1>4, <1>5, <1>6 DEF Young, p

(* One more sample. *)
LEMMA LagAppend ==
    ASSUME NEW s \in Samples, NEW x \in [round: Nat, frame: Nat, ms: Nat],
           \A i \in 1..Len(s) : LagOf(s, i),
           x.frame # 0 => x.frame <= x.round /\ x.round - x.frame <= GaveUp(s)
    PROVE  /\ Append(s, x) \in Samples
           /\ \A i \in 1..Len(Append(s, x)) : LagOf(Append(s, x), i)
<1> DEFINE t == Append(s, x)
<1>1. /\ s \in Seq([round: Nat, frame: Nat, ms: Nat]) /\ Len(s) \in Nat
      /\ t \in Samples /\ Len(t) = Len(s) + 1 /\ t[Len(s) + 1] = x
      /\ \A i \in 1..Len(s) : t[i] = s[i]
    BY DEF Samples
<1>2. ASSUME NEW i \in 1..Len(s) PROVE SubSeq(t, 1, i) = SubSeq(s, 1, i)
    BY <1>1, <1>2
<1>3. SubSeq(t, 1, Len(s) + 1) = t
    BY SMTT(30), <1>1 DEF Samples
<1>4. x.frame # 0 => GaveUp(t) = GaveUp(s)
  <2>1. GaveUp(s) \in Nat /\ GaveUp(t) = GaveUp(s) + (IF x.frame = 0 THEN 1 ELSE 0)
    BY GaveUpAppend, GaveUpIsNat
  <2> QED BY <2>1
<1> HIDE DEF t
<1>5. ASSUME NEW i \in 1..Len(t) PROVE LagOf(t, i)
  <2>1. CASE i \in 1..Len(s)
    BY <1>1, <1>2, <2>1 DEF LagOf
  <2>2. CASE i = Len(s) + 1
    BY <1>1, <1>3, <1>4, <2>2 DEF LagOf
  <2> QED BY <1>1, <2>1, <2>2
<1> QED BY <1>1, <1>5 DEF t

(* The next round. *)
LEMMA RoundBegins ==
    ASSUME NEW s \in Samples, Len(s) = round, round \in Nat, Young(net, round, s), BeginRound
    PROVE  round' = round + 1 /\ phase' = "waiting" /\ Young(net', round', s)
<1>1. /\ round' = round + 1 /\ phase' = "waiting"
      /\ net' = net \/ net' = Append(net, round + 1)
    BY DEF BeginRound
<1>2. Young(net, round + 1, s) /\ Young(Append(net, round + 1), round + 1, s)
    BY YoungAppend
<1>3. Young(net', round + 1, s)
    BY <1>1, <1>2
<1> QED BY <1>1, <1>3

(* The round after a sample, or the end of the rounds. *)
LEMMA RoundAfter ==
    ASSUME NEW s \in Samples, Len(s) = round, round \in Nat, Young(net, round, s),
           IF round < Rounds THEN BeginRound ELSE phase' = "finish" /\ UNCHANGED <<round, net>>
    PROVE  /\ round' \in Nat /\ Young(net', round', s)
           /\ phase' \in {"waiting", "finish"}
           /\ phase' = "waiting" => Len(s) + 1 = round'
<1>1. CASE BeginRound
  <2>1. round' = round + 1 /\ phase' = "waiting" /\ Young(net', round', s)
    BY <1>1, RoundBegins
  <2> QED BY <2>1
<1>2. CASE phase' = "finish" /\ UNCHANGED <<round, net>>
    BY <1>2
<1> QED BY <1>1, <1>2

LEMMA EmptyIsYoung ==
    ASSUME NEW r \in Nat PROVE <<>> \in Samples /\ Young(<<>>, r, <<>>)
BY DEF Young, Increasing, Samples

LEMMA LagParts == LagIsBounded <=> \A i \in 1..Len(samples) : LagOf(samples, i)
BY DEF LagIsBounded, LagOf

LEMMA NextLagInv == ASSUME LagInv, [Next]_vars PROVE LagInv'
<1>0. \A i \in 1..Len(samples) : LagOf(samples, i)
  BY LagParts DEF LagInv
<1>00. LagIsBounded' <=> \A i \in 1..Len(samples') : LagOf(samples', i)
  BY DEF LagIsBounded, LagOf
<1>1. CASE Click
  BY <1>1, EmptyIsYoung DEF Click, LagInv, LagIsBounded
<1>2. CASE UNCHANGED <<round, samples, net>> /\ phase' \in {phase, "ready", "broken"}
  BY <1>2, <1>0, <1>00 DEF LagInv
<1>3. CASE Connected
  <2>1. round = 0 /\ samples = <<>> /\ net = <<>> /\ Young(net, round, samples)
      BY <1>3 DEF Connected, LagInv
  <2>2. samples \in Samples /\ Len(samples) = round /\ round \in Nat
      BY <2>1 DEF LagInv
  <2>3. BeginRound /\ UNCHANGED samples
      BY <1>3 DEF Connected
  <2>4. round' = round + 1 /\ phase' = "waiting" /\ Young(net', round', samples)
      BY <2>1, <2>2, <2>3, RoundBegins
  <2> QED BY <2>2, <2>3, <2>4, <1>0, <1>00 DEF LagInv
<1>4. CASE Arrive
  <2>1. PICK ms \in Latencies :
          samples' = Append(samples, [round |-> round, frame |-> Head(net), ms |-> ms])
      BY <1>4 DEF Arrive
  <2>2. /\ net # <<>> /\ net' = Tail(net) /\ phase' = "pause" /\ UNCHANGED round
        /\ Len(samples) + 1 = round /\ round \in Nat /\ samples \in Samples
        /\ Young(net, round, samples)
      BY <1>4 DEF Arrive, LagInv
  <2> DEFINE x == [round |-> round, frame |-> Head(net), ms |-> ms]
  <2>3. /\ Young(Tail(net), round, samples)
        /\ Head(net) \in Nat \ {0} /\ Head(net) <= round
        /\ Head(net) + GaveUp(samples) >= Len(samples) + 1
        /\ \A i \in 1..Len(Tail(net)) : Tail(net)[i] > Head(net)
      BY <2>2, YoungTail
  <2>4. x \in [round: Nat, frame: Nat, ms: Nat] /\ x.frame = Head(net) /\ x.round = round
      BY <2>2, <2>3, BenchAssumption
  <2>5. GaveUp(samples) \in Nat /\ GaveUp(samples') = GaveUp(samples)
      BY <2>1, <2>2, <2>3, <2>4, GaveUpAppend, GaveUpIsNat
  <2>6. /\ samples' \in Samples
        /\ \A i \in 1..Len(samples') : LagOf(samples', i)
    <3>1. x.frame <= x.round /\ x.round - x.frame <= GaveUp(samples)
      BY <2>2, <2>3, <2>4, <2>5
    <3> QED BY <1>0, <2>1, <2>2, <2>4, <3>1, LagAppend
  <2>7. Len(samples') = Len(samples) + 1 /\ Len(samples) \in Nat
      BY <2>1, <2>2 DEF Samples
  <2>8. Young(net', round', samples')
    <3>1. \A i \in 1..Len(net') : net'[i] <= round /\ net'[i] \in Nat
      BY <2>2, <2>3 DEF Young
    <3>2. ASSUME NEW i \in 1..Len(net') PROVE net'[i] + GaveUp(samples') >= Len(samples') + 1
      <4>1. net'[i] > Head(net) /\ net'[i] \in Nat
          BY <2>2, <2>3, <3>1
      <4> QED BY <2>3, <2>5, <2>7, <4>1
    <3> QED BY <2>2, <2>3, <3>1, <3>2 DEF Young
  <2> QED BY <1>00, <2>2, <2>6, <2>7, <2>8 DEF LagInv
<1>5. CASE ArriveLate \/ Lose
  <2>1. Young(Tail(net), round, samples) /\ net' = Tail(net) /\ phase # "connecting"
        /\ UNCHANGED <<phase, round, samples>>
      BY <1>5, YoungTail DEF ArriveLate, Lose, LagInv
  <2> QED BY <2>1, <1>0, <1>00 DEF LagInv
<1>6. CASE GiveUp
  <2> DEFINE x == [round |-> round, frame |-> 0, ms |-> Timeout]
  <2>1. /\ samples' = Append(samples, x)
        /\ IF round < Rounds THEN BeginRound ELSE phase' = "finish" /\ UNCHANGED <<round, net>>
        /\ Len(samples) + 1 = round /\ round \in Nat /\ samples \in Samples
        /\ Young(net, round, samples)
      BY <1>6 DEF GiveUp, LagInv
  <2>2. x \in [round: Nat, frame: Nat, ms: Nat] /\ x.frame = 0
      BY <2>1, BenchAssumption
  <2>3. GaveUp(samples) \in Nat /\ GaveUp(samples') = GaveUp(samples) + 1
      BY <2>1, <2>2, GaveUpAppend, GaveUpIsNat
  <2>4. samples' \in Samples /\ \A i \in 1..Len(samples') : LagOf(samples', i)
      BY <1>0, <2>1, <2>2, LagAppend
  <2>5. Len(samples') = round /\ Len(samples) \in Nat
      BY <2>1 DEF Samples
  <2>6. Young(net, round, samples')
    <3>1. ASSUME NEW i \in 1..Len(net) PROVE net[i] + GaveUp(samples') >= Len(samples') + 1
      <4>1. net[i] \in Nat /\ net[i] + GaveUp(samples) >= Len(samples) + 1
          BY <2>1 DEF Young
      <4> QED BY <2>1, <2>3, <2>5, <4>1
    <3> QED BY <2>1, <3>1 DEF Young
  <2>7. /\ round' \in Nat /\ Young(net', round', samples')
        /\ phase' \in {"waiting", "finish"}
        /\ phase' = "waiting" => Len(samples') + 1 = round'
      BY <2>1, <2>4, <2>5, <2>6, RoundAfter
  <2> QED BY <1>00, <2>4, <2>7 DEF LagInv
<1>7. CASE Paused
  <2>1. /\ IF round < Rounds THEN BeginRound ELSE phase' = "finish" /\ UNCHANGED <<round, net>>
        /\ Len(samples) = round /\ round \in Nat /\ samples \in Samples
        /\ Young(net, round, samples) /\ UNCHANGED samples
      BY <1>7 DEF Paused, LagInv
  <2>2. /\ round' \in Nat /\ Young(net', round', samples)
        /\ phase' \in {"waiting", "finish"}
        /\ phase' = "waiting" => Len(samples) + 1 = round'
      BY <2>1, RoundAfter
  <2> QED BY <1>0, <1>00, <2>1, <2>2 DEF LagInv
<1>8. CASE \/ ConnectTimesOut \/ Finish \/ FinishThrows
           \/ \E s \in sockets : SocketOpens(s) \/ ConnectFails(s)
           \/ \E a \in animators : Begin(a) \/ End(a)
  BY <1>8, <1>2 DEF ConnectTimesOut, Finish, FinishThrows, SocketOpens, ConnectFails,
                    Begin, End, wires
<1>9. CASE UNCHANGED vars
  BY <1>9, <1>2 DEF vars, wires
<1> QED BY <1>1, <1>3, <1>4, <1>5, <1>6, <1>7, <1>8, <1>9 DEF Next

LEMMA LagInvariant == Spec => []LagInv
<1>1. Init => LagInv
    BY EmptyIsYoung DEF Init, LagInv, LagIsBounded
<1> QED BY <1>1, NextLagInv, PTL DEF Spec

(* BenchPage.tsx:59-64,219-220: for any rounds, losses and late frames, a     *)
(* round measures no frame older than the rounds that gave up make it.        *)
THEOREM LagBounded == Spec => []LagIsBounded
<1>1. LagInv => LagIsBounded
    BY DEF LagInv
<1> QED BY <1>1, LagInvariant, PTL

-----------------------------------------------------------------------------
(* Induction, for a set of numbers, and the least of them. *)

LEMMA Induct ==
    ASSUME NEW T, 0 \in T, \A n \in Nat : n \in T => n + 1 \in T
    PROVE  Nat \subseteq T
<1> SUFFICES ASSUME Nat \ T # {} PROVE FALSE
    OBVIOUS
<1> DEFINE R == OpToRel(<, Nat)
<1>1. IsWellFoundedOn(R, Nat)
    BY NatLessThanWellFounded
<1> HIDE DEF R
<1>2. PICK x \in Nat \ T : \A y \in Nat \ T : ~(<<y, x>> \in R)
    BY <1>1, WFMin
<1>3. x # 0 /\ x - 1 \in Nat /\ x - 1 \notin T
    OBVIOUS
<1>4. <<x - 1, x>> \in R
    BY <1>3 DEF R, OpToRel
<1> QED BY <1>2, <1>3, <1>4

LEMMA Least ==
    ASSUME NEW T, T \subseteq Nat, T # {}
    PROVE  \E x \in T : \A y \in T : x <= y
<1> DEFINE R == OpToRel(<, Nat)
<1>1. IsWellFoundedOn(R, Nat)
    BY NatLessThanWellFounded
<1> HIDE DEF R
<1>2. PICK x \in T : \A y \in T : ~(<<y, x>> \in R)
    BY <1>1, WFMin
<1>3. ASSUME NEW y \in T, y < x PROVE <<y, x>> \in R
    BY <1>3 DEF R, OpToRel
<1>4. \A y \in T : ~(y < x)
    BY <1>2, <1>3
<1> QED BY <1>4

-----------------------------------------------------------------------------
(* The samples that are not timeouts.                                         *)

SampleSet == [round: Nat, frame: Nat, ms: Nat]

(* g gives those of the first entries of s. *)
Filters(g, s) ==
    /\ g \in [0..Len(s) -> Seq(SampleSet)]
    /\ g[0] = <<>>
    /\ \A i \in 1..Len(s) :
          g[i] = IF s[i].frame = 0 THEN g[i - 1] ELSE Append(g[i - 1], s[i])

LEMMA FiltersExist ==
    ASSUME NEW s \in Seq(SampleSet) PROVE \E g : Filters(g, s)
<1>1. Len(s) \in Nat
    OBVIOUS
<1> DEFINE UpTo(g, n) ==
             /\ g \in [0..n -> Seq(SampleSet)]
             /\ g[0] = <<>>
             /\ \A i \in 1..n : g[i] = IF s[i].frame = 0 THEN g[i - 1] ELSE Append(g[i - 1], s[i])
           T == {n \in Nat : n <= Len(s) => \E g : UpTo(g, n)}
<1>2. 0 \in T
  <2>1. UpTo([i \in 0..0 |-> <<>>], 0)
    OBVIOUS
  <2> QED BY <2>1
<1>3. ASSUME NEW n \in Nat, n \in T, n + 1 <= Len(s) PROVE \E g : UpTo(g, n + 1)
  <2>0. n <= Len(s)
    BY <1>1, <1>3
  <2>1. PICK g : UpTo(g, n)
    <3> HIDE DEF UpTo
    <3> QED BY <1>3, <2>0
  <2> DEFINE last == IF s[n + 1].frame = 0 THEN g[n] ELSE Append(g[n], s[n + 1])
             h == [i \in 0..(n + 1) |-> IF i = n + 1 THEN last ELSE g[i]]
  <2>2. last \in Seq(SampleSet)
    <3>1. n + 1 \in 1..Len(s) /\ n \in 0..n
        BY <1>1, <1>3
    <3>2. s[n + 1] \in SampleSet
        BY <3>1
    <3>3. g[n] \in Seq(SampleSet)
        BY <2>1, <3>1
    <3>4. Append(g[n], s[n + 1]) \in Seq(SampleSet)
        BY <3>2, <3>3, AppendProperties
    <3> QED BY <3>3, <3>4
  <2>3. h \in [0..(n + 1) -> Seq(SampleSet)] /\ h[0] = <<>>
    <3>1. \A i \in 0..n : g[i] \in Seq(SampleSet)
        BY <2>1
    <3> HIDE DEF last
    <3> QED BY <2>1, <2>2, <3>1
  <2>4. \A i \in 1..(n + 1) :
          h[i] = IF s[i].frame = 0 THEN h[i - 1] ELSE Append(h[i - 1], s[i])
    <3> SUFFICES ASSUME NEW i \in 1..(n + 1)
                 PROVE  h[i] = IF s[i].frame = 0 THEN h[i - 1] ELSE Append(h[i - 1], s[i])
        OBVIOUS
    <3>1. i - 1 \in 0..(n + 1) /\ i - 1 # n + 1 /\ i \in 0..(n + 1)
        OBVIOUS
    <3>2. h[i - 1] = g[i - 1] /\ h[i] = IF i = n + 1 THEN last ELSE g[i]
        BY <3>1
    <3>3. CASE i = n + 1
      <4>1. i - 1 = n
        BY <3>3
      <4> HIDE DEF h
      <4> QED BY <3>2, <3>3, <4>1
    <3>4. CASE i # n + 1
      <4>1. i \in 1..n
        BY <3>4
      <4> HIDE DEF h
      <4> QED BY <2>1, <3>2, <3>4, <4>1
    <3> QED BY <3>3, <3>4
  <2> HIDE DEF h
  <2> QED BY <2>3, <2>4
<1>4. ASSUME NEW n \in Nat, n \in T PROVE n + 1 \in T
  <2> HIDE DEF UpTo
  <2> QED BY <1>3, <1>4
<1> HIDE DEF T
<1>5. Len(s) \in T
    BY <1>1, <1>2, <1>4, Induct
<1>6. PICK g : UpTo(g, Len(s))
    BY <1>1, <1>5 DEF T
<1>7. Filters(g, s)
    BY <1>6 DEF Filters
<1> QED BY <1>7

LEMMA AnsweredIs ==
    ASSUME NEW s \in Seq(SampleSet), NEW g, Filters(g, s) PROVE Answered(s) = g[Len(s)]
<1>1. Len(s) \in Nat
    OBVIOUS
<1> DEFINE Eq(h) == h = [i \in 0..Len(s) |->
                           IF i = 0 THEN <<>>
                           ELSE IF s[i].frame = 0 THEN h[i - 1] ELSE Append(h[i - 1], s[i])]
<1>2. Eq(g)
  <2> DEFINE k == [i \in 0..Len(s) |->
                     IF i = 0 THEN <<>>
                     ELSE IF s[i].frame = 0 THEN g[i - 1] ELSE Append(g[i - 1], s[i])]
  <2>1. ASSUME NEW i \in 0..Len(s) PROVE g[i] = k[i]
    <3>1. i = 0 => k[i] = <<>>
        OBVIOUS
    <3>2. i # 0 => k[i] = IF s[i].frame = 0 THEN g[i - 1] ELSE Append(g[i - 1], s[i])
        OBVIOUS
    <3>3. i # 0 => i \in 1..Len(s)
        BY <1>1
    <3> HIDE DEF k
    <3>4. CASE i = 0
        BY <3>1, <3>4 DEF Filters
    <3>5. CASE i # 0
        BY <3>2, <3>3, <3>5 DEF Filters
    <3> QED BY <3>4, <3>5
  <2>2. g = [i \in 0..Len(s) |-> g[i]] /\ k = [i \in 0..Len(s) |-> k[i]]
    BY DEF Filters
  <2> HIDE DEF k
  <2>3. g = k
    BY <2>1, <2>2
  <2> QED BY <2>3 DEF k
<1>3. ASSUME NEW h, Eq(h) PROVE h = g
  <2> DEFINE T == {n \in Nat : n <= Len(s) => h[n] = g[n]}
  <2>0. /\ \A i \in 0..Len(s) : h[i] = IF i = 0 THEN <<>>
                     ELSE IF s[i].frame = 0 THEN h[i - 1] ELSE Append(h[i - 1], s[i])
        /\ h = [i \in 0..Len(s) |-> h[i]]
    BY <1>3
  <2>1. 0 \in T
    <3>1. 0 \in 0..Len(s)
        BY <1>1
    <3>2. h[0] = <<>>
        BY <2>0, <3>1
    <3> QED BY <3>2 DEF Filters
  <2>2. ASSUME NEW n \in Nat, n \in T PROVE n + 1 \in T
    <3> SUFFICES ASSUME n + 1 <= Len(s) PROVE h[n + 1] = g[n + 1]
        OBVIOUS
    <3>1. n + 1 \in 0..Len(s) /\ n + 1 # 0 /\ (n + 1) - 1 = n /\ n + 1 \in 1..Len(s)
        BY <1>1
    <3>2. h[n + 1] = IF s[n + 1].frame = 0 THEN h[n] ELSE Append(h[n], s[n + 1])
        BY <2>0, <3>1
    <3>3. g[n + 1] = IF s[n + 1].frame = 0 THEN g[n] ELSE Append(g[n], s[n + 1])
      <4>1. g[n + 1] = IF s[n + 1].frame = 0 THEN g[(n + 1) - 1]
                       ELSE Append(g[(n + 1) - 1], s[n + 1])
        BY <3>1 DEF Filters
      <4> QED BY <3>1, <4>1
    <3>4. h[n] = g[n]
        BY <1>1, <2>2
    <3> QED BY <3>2, <3>3, <3>4
  <2> HIDE DEF T
  <2>3. Nat \subseteq T
    BY <2>1, <2>2, Induct
  <2>4. \A n \in 0..Len(s) : h[n] = g[n]
    BY <1>1, <2>3 DEF T
  <2>5. g = [i \in 0..Len(s) |-> g[i]]
    BY DEF Filters
  <2> QED BY <2>0, <2>4, <2>5
<1> DEFINE f == CHOOSE h : Eq(h)
<1> HIDE DEF Eq
<1>4. f = g
    BY <1>2, <1>3
<1>5. Answered(s) = f[Len(s)]
    BY DEF Answered, Eq
<1> QED BY <1>4, <1>5

(* They are samples, none of an empty run and one at least of a run with an   *)
(* answer.                                                                    *)
LEMMA AnsweredProperties ==
    ASSUME NEW s \in Seq(SampleSet)
    PROVE  /\ Answered(s) \in Seq(SampleSet)
           /\ s = <<>> => Answered(s) = <<>>
           /\ \A i \in 1..Len(s) : s[i].frame # 0 => Answered(s) # <<>>
<1>1. PICK g : Filters(g, s)
    BY FiltersExist
<1>2. Answered(s) = g[Len(s)] /\ Len(s) \in Nat
    BY <1>1, AnsweredIs
<1>3. Answered(s) \in Seq(SampleSet) /\ (s = <<>> => Answered(s) = <<>>)
    BY <1>1, <1>2 DEF Filters
<1>4. ASSUME NEW i \in 1..Len(s), s[i].frame # 0 PROVE Answered(s) # <<>>
  <2> DEFINE T == {n \in Nat : i <= n /\ n <= Len(s) => g[n] # <<>>}
  <2>1. 0 \in T
    OBVIOUS
  <2>2. ASSUME NEW n \in Nat, n \in T PROVE n + 1 \in T
    <3> SUFFICES ASSUME i <= n + 1, n + 1 <= Len(s) PROVE g[n + 1] # <<>>
        OBVIOUS
    <3>1. n + 1 \in 1..Len(s) /\ n \in 0..Len(s) /\ (n + 1) - 1 = n
        BY <1>2
    <3>2. g[n + 1] = IF s[n + 1].frame = 0 THEN g[n] ELSE Append(g[n], s[n + 1])
        BY <1>1, <3>1 DEF Filters
    <3>3. g[n] \in Seq(SampleSet) /\ s[n + 1] \in SampleSet
        BY <1>1, <3>1 DEF Filters
    <3>4. Append(g[n], s[n + 1]) # <<>>
        BY <3>3
    <3>5. i = n + 1 \/ i <= n
        OBVIOUS
    <3>6. n <= Len(s)
        BY <1>2
    <3> QED BY <1>4, <2>2, <3>2, <3>4, <3>5, <3>6
  <2> HIDE DEF T
  <2>3. Len(s) \in T
    BY <1>2, <2>1, <2>2, Induct
  <2> QED BY <1>2, <2>3 DEF T
<1> QED BY <1>3, <1>4

-----------------------------------------------------------------------------
(* Sorting.                                                                   *)

(* p puts the entries of arr in order. *)
Sorts(p, arr) ==
    /\ p \in [1..Len(arr) -> 1..Len(arr)]
    /\ \A i, j \in 1..Len(arr) : i < j => p[i] # p[j] /\ arr[p[i]] <= arr[p[j]]

(* p picks k entries of arr in order, none of them greater than one it leaves.*)
Selects(p, k, arr) ==
    /\ p \in [1..k -> 1..Len(arr)]
    /\ \A i, j \in 1..k : i < j => p[i] # p[j] /\ arr[p[i]] <= arr[p[j]]
    /\ \A i \in 1..k, x \in 1..Len(arr) :
          (\A j \in 1..k : p[j] # x) => arr[p[i]] <= arr[x]

LEMMA CountTo ==
    ASSUME NEW n \in Nat PROVE IsFiniteSet(1..n) /\ Cardinality(1..n) = n
<1>1. IsFiniteSet(1..n) /\ Cardinality(1..n) = IF 1 > n THEN 0 ELSE n - 1 + 1
    BY FS_Interval
<1> QED BY <1>1

LEMMA SelectOneMore ==
    ASSUME NEW arr \in Seq(Nat), NEW k \in Nat, k < Len(arr), NEW p, Selects(p, k, arr)
    PROVE  \E q : Selects(q, k + 1, arr)
<1> DEFINE N == Len(arr)
           left == {x \in 1..N : \A j \in 1..k : p[j] # x}
<1>1. N \in Nat /\ \A x \in 1..N : arr[x] \in Nat
    OBVIOUS
<1>2. /\ p \in [1..k -> 1..N]
      /\ \A i, j \in 1..k : i < j => p[i] # p[j] /\ arr[p[i]] <= arr[p[j]]
      /\ \A i \in 1..k, x \in left : arr[p[i]] <= arr[x]
    BY DEF Selects
<1>3. left # {}
  <2> SUFFICES ASSUME left = {} PROVE FALSE
    OBVIOUS
  <2>1. p \in Surjection(1..k, 1..N)
    <3>1. \A x \in 1..N : \E j \in 1..k : p[j] = x
        OBVIOUS
    <3> QED BY <1>2, <3>1 DEF Surjection
  <2>2. IsFiniteSet(1..k) /\ Cardinality(1..k) = k /\ Cardinality(1..N) = N
    BY <1>1, CountTo
  <2>3. Cardinality(1..N) <= Cardinality(1..k)
    BY <2>1, <2>2, FS_Surjection
  <2> QED BY <1>1, <2>2, <2>3
<1> DEFINE V == {arr[x] : x \in left}
<1>4. PICK v \in V : \A w \in V : v <= w
  <2>1. V \subseteq Nat /\ V # {}
    BY <1>1, <1>3
  <2> HIDE DEF V
  <2> QED BY <2>1, Least
<1>5. PICK m \in left : \A x \in left : arr[m] <= arr[x]
  <2>1. PICK m \in left : v = arr[m]
    OBVIOUS
  <2> QED BY <1>4, <2>1
<1>6. m \in 1..N /\ \A j \in 1..k : p[j] # m
    OBVIOUS
<1> DEFINE q == [i \in 1..(k + 1) |-> IF i = k + 1 THEN m ELSE p[i]]
<1>7. /\ q \in [1..(k + 1) -> 1..N]
      /\ q[k + 1] = m
      /\ \A i \in 1..k : q[i] = p[i]
    BY SMTT(30), <1>2, <1>6
<1>8. \A i \in 1..(k + 1) : i = k + 1 \/ i \in 1..k
    OBVIOUS
<1> HIDE DEF q
<1>9. ASSUME NEW i \in 1..(k + 1), NEW j \in 1..(k + 1), i < j
      PROVE  q[i] # q[j] /\ arr[q[i]] <= arr[q[j]]
  <2>1. i \in 1..k
    BY <1>9
  <2>2. CASE j = k + 1
    BY <1>2, <1>6, <1>7, <2>1, <2>2
  <2>3. CASE j \in 1..k
    BY <1>2, <1>7, <1>9, <2>1, <2>3
  <2> QED BY <1>8, <2>2, <2>3
<1>10. ASSUME NEW i \in 1..(k + 1), NEW x \in 1..N, \A j \in 1..(k + 1) : q[j] # x
       PROVE  arr[q[i]] <= arr[x]
  <2>1. x \in left
    <3>1. ASSUME NEW j \in 1..k PROVE p[j] # x
      <4>1. j \in 1..(k + 1)
        OBVIOUS
      <4> QED BY <1>7, <1>10, <4>1
    <3> QED BY <3>1
  <2> HIDE DEF left
  <2>2. CASE i = k + 1
    BY <1>5, <1>7, <2>1, <2>2
  <2>3. CASE i \in 1..k
    BY <1>2, <1>7, <2>1, <2>3
  <2> QED BY <1>8, <2>2, <2>3
<1>11. Selects(q, k + 1, arr)
    BY <1>7, <1>9, <1>10 DEF Selects
<1> QED BY <1>11

LEMMA SortingExists ==
    ASSUME NEW arr \in Seq(Nat) PROVE \E p : Sorts(p, arr)
<1> DEFINE T == {k \in Nat : k <= Len(arr) => \E p : Selects(p, k, arr)}
<1>1. Len(arr) \in Nat
    OBVIOUS
<1>2. 0 \in T
  <2>1. Selects(<<>>, 0, arr)
    BY DEF Selects
  <2> QED BY <2>1
<1>3. ASSUME NEW k \in Nat, k \in T PROVE k + 1 \in T
  <2> SUFFICES ASSUME k + 1 <= Len(arr) PROVE \E p : Selects(p, k + 1, arr)
    OBVIOUS
  <2>1. k < Len(arr) /\ k <= Len(arr)
    BY <1>1
  <2>2. PICK p : Selects(p, k, arr)
    BY <1>3, <2>1
  <2> QED BY <2>1, <2>2, SelectOneMore
<1> HIDE DEF T
<1>4. Len(arr) \in T
    BY <1>1, <1>2, <1>3, Induct
<1>5. PICK p : Selects(p, Len(arr), arr)
    BY <1>1, <1>4 DEF T
<1>6. Sorts(p, arr)
    BY <1>5 DEF Selects, Sorts
<1> QED BY <1>6

LEMMA SortedProperties ==
    ASSUME NEW arr \in Seq(Nat)
    PROVE  \E p : Sorts(p, arr) /\ Sorted(arr) = [i \in 1..Len(arr) |-> arr[p[i]]]
<1> DEFINE P(p) == \A i, j \in 1..Len(arr) : i < j => p[i] # p[j] /\ arr[p[i]] <= arr[p[j]]
           p == CHOOSE p \in [1..Len(arr) -> 1..Len(arr)] : P(p)
<1>1. PICK q : Sorts(q, arr)
    BY SortingExists
<1>2. q \in [1..Len(arr) -> 1..Len(arr)] /\ P(q)
    BY <1>1 DEF Sorts
<1>3. p \in [1..Len(arr) -> 1..Len(arr)] /\ P(p)
  <2> HIDE DEF P
  <2> QED BY <1>2
<1>4. Sorted(arr) = [i \in 1..Len(arr) |-> arr[p[i]]]
    BY DEF Sorted
<1> HIDE DEF p
<1>5. Sorts(p, arr)
    BY <1>3 DEF Sorts
<1> QED BY <1>4, <1>5

-----------------------------------------------------------------------------
(* Medians.                                                                   *)

(* The positions with a smaller or a greater entry than that of rank h are    *)
(* positions of smaller or greater rank.                                      *)
LEMMA RanksBelowAndAbove ==
    ASSUME NEW arr \in Seq(Nat), NEW p, Sorts(p, arr), NEW h \in 1..Len(arr)
    PROVE  /\ Cardinality({i \in 1..Len(arr) : arr[i] < arr[p[h]]}) \in 0..(h - 1)
           /\ Cardinality({i \in 1..Len(arr) : arr[i] > arr[p[h]]}) \in 0..(Len(arr) - h)
<1> DEFINE N == Len(arr)
           below == {i \in 1..N : arr[i] < arr[p[h]]}
           above == {i \in 1..N : arr[i] > arr[p[h]]}
<1>1. N \in Nat /\ \A x \in 1..N : arr[x] \in Nat
    OBVIOUS
<1>2. /\ p \in [1..N -> 1..N]
      /\ \A i, j \in 1..N : i < j => p[i] # p[j] /\ arr[p[i]] <= arr[p[j]]
    BY DEF Sorts
<1>3. /\ IsFiniteSet(1..N) /\ Cardinality(1..N) = N
      /\ IsFiniteSet(1..(h - 1)) /\ Cardinality(1..(h - 1)) = h - 1
      /\ IsFiniteSet((h + 1)..N) /\ Cardinality((h + 1)..N) = N - h
  <2>1. /\ IsFiniteSet(1..N) /\ Cardinality(1..N) = N
        /\ IsFiniteSet(1..(h - 1)) /\ Cardinality(1..(h - 1)) = h - 1
    <3>1. N \in Nat /\ h - 1 \in Nat
        BY <1>1
    <3> QED BY <3>1, CountTo
  <2> DEFINE a == h + 1
  <2>2. a \in Int /\ N \in Int /\ a <= N + 1
    BY <1>1
  <2> HIDE DEF a, N
  <2>3. IsFiniteSet(a..N) /\ Cardinality(a..N) = IF a > N THEN 0 ELSE N - a + 1
    BY <2>2, FS_Interval
  <2>4. Cardinality(a..N) = N - h
    BY <2>2, <2>3 DEF a
  <2> QED BY <2>1, <2>3, <2>4 DEF a
<1>4. \A x \in 1..N : \E j \in 1..N : p[j] = x
  <2>1. \A i, j \in 1..N : p[i] = p[j] => i = j
    <3>1. \A i, j \in 1..N : i < j \/ i = j \/ j < i
        OBVIOUS
    <3> QED BY <1>2, <3>1
  <2>2. p \in Injection(1..N, 1..N)
    BY <1>2, <2>1 DEF Injection, IsInjective
  <2>3. p \in Surjection(1..N, 1..N)
    BY <1>3, <2>2, FS_Injection
  <2> QED BY <2>3 DEF Surjection
<1> DEFINE place == [x \in 1..N |-> CHOOSE j \in 1..N : p[j] = x]
<1>5. place \in [1..N -> 1..N] /\ \A x \in 1..N : p[place[x]] = x
    BY <1>4
<1> HIDE DEF place, N
<1>6. ASSUME NEW S, S \subseteq 1..N, NEW J, IsFiniteSet(J), \A x \in S : place[x] \in J
      PROVE  Cardinality(S) \in 0..Cardinality(J)
  <2> DEFINE f == [x \in S |-> place[x]]
  <2>1. f \in [S -> J] /\ \A x, y \in S : f[x] = f[y] => x = y
    BY <1>5, <1>6
  <2> HIDE DEF f
  <2>2. f \in Injection(S, J)
    BY <2>1 DEF Injection, IsInjective
  <2>3. IsFiniteSet(S) /\ Cardinality(S) <= Cardinality(J)
    BY <1>6, <2>2, FS_Injection
  <2>4. Cardinality(S) \in Nat /\ Cardinality(J) \in Nat
    BY <1>6, <2>3, FS_CardinalityType
  <2> QED BY <2>3, <2>4
<1>7. h \in 1..N
    BY DEF N
<1>8. ASSUME NEW x \in below PROVE place[x] \in 1..(h - 1)
  <2>1. x \in 1..N /\ arr[x] < arr[p[h]] /\ place[x] \in 1..N /\ p[place[x]] = x
    BY <1>5
  <2>2. h < place[x] => arr[p[h]] <= arr[x]
    BY <1>2, <1>7, <2>1
  <2>3. arr[x] \in Nat /\ arr[p[h]] \in Nat
    BY <1>1, <1>2, <1>7, <2>1
  <2>4. place[x] # h
    BY <2>1, <2>3
  <2> QED BY SMTT(30), <1>1, <1>7, <2>1, <2>2, <2>3, <2>4
<1>9. ASSUME NEW x \in above PROVE place[x] \in (h + 1)..N
  <2>1. x \in 1..N /\ arr[x] > arr[p[h]] /\ place[x] \in 1..N /\ p[place[x]] = x
    BY <1>5
  <2>2. place[x] < h => arr[x] <= arr[p[h]]
    BY <1>2, <1>7, <2>1
  <2>3. arr[x] \in Nat /\ arr[p[h]] \in Nat
    BY <1>1, <1>2, <1>7, <2>1
  <2>4. place[x] # h
    BY <2>1, <2>3
  <2> QED BY SMTT(30), <1>1, <1>7, <2>1, <2>2, <2>3, <2>4
<1>10. Cardinality(below) \in 0..(h - 1)
    BY <1>3, <1>6, <1>8
<1>11. Cardinality(above) \in 0..(N - h)
    BY <1>3, <1>6, <1>9
<1> QED BY <1>10, <1>11 DEF N

(* The percentile 50 of any numbers is their median, and one of them.         *)
LEMMA HalfIsMedian ==
    ASSUME NEW arr \in Seq(Nat), arr # <<>>
    PROVE  IsMedian(percentile(arr, 50), arr) /\ percentile(arr, 50) \in Nat
<1> DEFINE N == Len(arr)
           h == (50 * N + 99) \div 100
<1>1. N \in Nat /\ N >= 1
    OBVIOUS
<1>2. PICK p : Sorts(p, arr) /\ Sorted(arr) = [i \in 1..N |-> arr[p[i]]]
    BY SortedProperties
<1>3. h \in 1..N /\ 2 * (h - 1) < N /\ 2 * (N - h) <= N
  <2> HIDE DEF N
  <2>1. h \in Nat /\ 100 * h <= 50 * N + 99 /\ 50 * N + 99 < 100 * h + 100
    BY <1>1
  <2> HIDE DEF h
  <2> QED BY <1>1, <2>1
<1>4. Max({1, h}) = h
  <2> HIDE DEF h, N
  <2>1. h \in Nat /\ h >= 1
    BY <1>1, <1>3
  <2> QED BY <2>1 DEF Max
<1>5. percentile(arr, 50) = Sorted(arr)[h]
    BY <1>4 DEF percentile
<1> HIDE DEF h
<1>6. percentile(arr, 50) = arr[p[h]] /\ p[h] \in 1..N
    BY <1>2, <1>3, <1>5 DEF Sorts
<1> DEFINE m == arr[p[h]]
           b == Cardinality({i \in 1..N : arr[i] < m})
           a == Cardinality({i \in 1..N : arr[i] > m})
<1>7. b \in 0..(h - 1) /\ a \in 0..(N - h)
    BY <1>2, <1>3, RanksBelowAndAbove
<1>8. 2 * b < N /\ 2 * a <= N
  <2> HIDE DEF a, b, N
  <2> QED BY <1>1, <1>3, <1>7
<1>9. m \in {arr[i] : i \in 1..N} /\ m \in Nat
    BY <1>6
<1> HIDE DEF m
<1>10. IsMedian(m, arr)
    BY <1>8, <1>9 DEF IsMedian
<1> QED BY <1>6, <1>9, <1>10 DEF m

LEMMA TimesType ==
    ASSUME NEW s \in Seq(SampleSet)
    PROVE  Times(s) \in Seq(Nat) /\ (s # <<>> => Times(s) # <<>>)
<1>1. \A i \in 1..Len(s) : s[i].ms \in Nat
  <2> SUFFICES ASSUME NEW i \in 1..Len(s) PROVE s[i].ms \in Nat
    OBVIOUS
  <2>1. s[i] \in SampleSet
    OBVIOUS
  <2> QED BY <2>1 DEF SampleSet
<1>2. Times(s) \in Seq(Nat) /\ Len(Times(s)) = Len(s)
    BY <1>1 DEF Times
<1> QED BY <1>2

(* The medians of samples with an answer among them are medians. *)
LEMMA MediansOf ==
    ASSUME NEW s \in Seq(SampleSet), Answered(s) # <<>>
    PROVE  /\ s # <<>>
           /\ IsMedian(Medians(s).versa, Times(s)) /\ Medians(s).versa \in Nat
           /\ IsMedian(Medians(s).rest, Times(Answered(s))) /\ Medians(s).rest \in Nat
           /\ Medians(s) \in Stats
<1>1. s # <<>> /\ Answered(s) \in Seq(SampleSet)
    BY AnsweredProperties
<1>2. /\ Times(s) \in Seq(Nat) /\ Times(s) # <<>>
      /\ Times(Answered(s)) \in Seq(Nat) /\ Times(Answered(s)) # <<>>
    BY <1>1, TimesType
<1>3. /\ IsMedian(percentile(Times(s), 50), Times(s)) /\ percentile(Times(s), 50) \in Nat
      /\ IsMedian(percentile(Times(Answered(s)), 50), Times(Answered(s)))
      /\ percentile(Times(Answered(s)), 50) \in Nat
    BY <1>2, HalfIsMedian
<1> QED BY <1>1, <1>3 DEF Medians, Stats

-----------------------------------------------------------------------------
(* Type correctness.                                                          *)

TypeInv ==
    /\ TypeOK
    /\ phase # "ready" => run \in 1..MaxRuns
    /\ phase \in {"waiting", "pause"} => round \in 1..Rounds

LEMMA SampleType == Sample \subseteq SampleSet
<1>1. Latencies \union {Timeout} \subseteq Nat /\ 1..Rounds \subseteq Nat /\ 0..Rounds \subseteq Nat
    BY BenchAssumption
<1> QED BY <1>1 DEF Sample, SampleSet

LEMMA HeadAndTail ==
    ASSUME NEW S, NEW q \in Seq(S), q # <<>> PROVE Head(q) \in S /\ Tail(q) \in Seq(S)
OBVIOUS

Animators == [run: 1..MaxRuns, col: Cols, step: 1..Steps, doing: {"no", "yes"}]

(* An animation going on. *)
LEMMA AnimatorSteps ==
    ASSUME NEW a \in Animators
    PROVE  LET b == [a EXCEPT !.doing = "no", !.step = @ + 1]
               d == [a EXCEPT !.doing = "yes"]
           IN /\ b.run = a.run /\ b.col = a.col /\ b.step = a.step + 1 /\ b.doing = "no"
              /\ a.step < Steps => b \in Animators
              /\ d \in Animators
              /\ d.run = a.run /\ d.col = a.col /\ d.step = a.step /\ d.doing = "yes"
<1> DEFINE e == [a EXCEPT !.doing = "no"]
           b == [a EXCEPT !.doing = "no", !.step = @ + 1]
           d == [a EXCEPT !.doing = "yes"]
<1>1. e \in Animators /\ e.run = a.run /\ e.col = a.col /\ e.step = a.step /\ e.doing = "no"
    BY DEF Animators
<1>2. b = [e EXCEPT !.step = a.step + 1]
    BY DEF Animators
<1>3. d \in Animators /\ d.run = a.run /\ d.col = a.col /\ d.step = a.step /\ d.doing = "yes"
    BY DEF Animators
<1>4. Steps \in Nat /\ a.step \in 1..Steps
    BY BenchAssumption DEF Animators
<1> HIDE DEF e, d
<1>5. a.step < Steps => a.step + 1 \in 1..Steps
    BY <1>4
<1>6. /\ b.run = a.run /\ b.col = a.col /\ b.step = a.step + 1 /\ b.doing = "no"
      /\ a.step < Steps => b \in Animators
    BY <1>1, <1>2, <1>5 DEF Animators
<1> QED BY <1>3, <1>6 DEF d

(* One step of one column. *)
LEMMA SetStep ==
    ASSUME NEW C \in [Cols -> Column], NEW c \in Cols, NEW i \in 1..Steps,
           NEW v \in {"idle", "active", "done"}, NEW D, D = [C EXCEPT ![c].steps[i] = v]
    PROVE  /\ D \in [Cols -> Column]
           /\ \A d \in Cols, j \in 1..Steps :
                 D[d].steps[j] = IF d = c /\ j = i THEN v ELSE C[d].steps[j]
<1>1. \A d \in Cols : C[d] \in Column /\ C[d].steps \in [1..Steps -> {"idle", "active", "done"}]
    BY DEF Column
<1>2. D = [C EXCEPT ![c] = [C[c] EXCEPT !.steps = [C[c].steps EXCEPT ![i] = v]]]
    OBVIOUS
<1> DEFINE e == [C[c] EXCEPT !.steps = [C[c].steps EXCEPT ![i] = v]]
<1>3. e \in Column /\ e.steps = [C[c].steps EXCEPT ![i] = v]
    BY <1>1 DEF Column
<1> HIDE DEF e
<1>4. D = [C EXCEPT ![c] = e]
    BY <1>2 DEF e
<1> QED BY <1>1, <1>3, <1>4

(* The result of a column. *)
LEMMA ShowResult ==
    ASSUME NEW C \in [Cols -> Column], NEW c \in Cols, NEW D, D = [C EXCEPT ![c].result = "shown"]
    PROVE  D \in [Cols -> Column] /\ \A d \in Cols : D[d].steps = C[d].steps
<1> DEFINE e == [C[c] EXCEPT !.result = "shown"]
<1>1. e \in Column /\ e.steps = C[c].steps
  <2>1. C[c] \in Column
    OBVIOUS
  <2> QED BY <2>1 DEF Column
<1>2. D = [C EXCEPT ![c] = e]
    OBVIOUS
<1> HIDE DEF e
<1> QED BY <1>1, <1>2

(* What End does to a column and to its animation. *)
LEMMA EndEffect ==
    ASSUME TypeOK, NEW a \in animators, End(a)
    PROVE  /\ conflict' \in [Cols -> Column]
           /\ \A d \in Cols, j \in 1..Steps :
                 conflict'[d].steps[j] =
                     IF d = a.col /\ j = a.step THEN "done" ELSE conflict[d].steps[j]
           /\ IF a.step < Steps
              THEN animators' = (animators \ {a}) \union {[a EXCEPT !.doing = "no", !.step = @ + 1]}
              ELSE animators' = animators \ {a}
<1>1. a.col \in Cols /\ a.step \in 1..Steps /\ conflict \in [Cols -> Column]
    BY DEF TypeOK
<1>2. CASE a.step < Steps
  <2>1. /\ conflict' = [conflict EXCEPT ![a.col].steps[a.step] = "done"]
        /\ animators' = (animators \ {a}) \union {[a EXCEPT !.doing = "no", !.step = @ + 1]}
    BY <1>2 DEF End
  <2>2. /\ conflict' \in [Cols -> Column]
        /\ \A d \in Cols, j \in 1..Steps :
              conflict'[d].steps[j] =
                  IF d = a.col /\ j = a.step THEN "done" ELSE conflict[d].steps[j]
    BY SMTT(30), <1>1, <2>1, SetStep
  <2> QED BY <1>2, <2>1, <2>2
<1>3. CASE ~(a.step < Steps)
  <2>1. /\ conflict' = [conflict EXCEPT ![a.col].steps[a.step] = "done",
                                        ![a.col].result = "shown"]
        /\ animators' = animators \ {a}
    BY <1>3 DEF End
  <2>0. PICK E : E = [conflict EXCEPT ![a.col].steps[a.step] = "done"]
    OBVIOUS
  <2>2. /\ E \in [Cols -> Column]
        /\ \A d \in Cols, j \in 1..Steps :
              E[d].steps[j] =
                  IF d = a.col /\ j = a.step THEN "done" ELSE conflict[d].steps[j]
    BY <1>1, <2>0, SetStep
  <2>3. conflict' = [E EXCEPT ![a.col].result = "shown"]
    BY <2>0, <2>1
  <2>4. conflict' \in [Cols -> Column] /\ \A d \in Cols : conflict'[d].steps = E[d].steps
    BY <1>1, <2>2, <2>3, ShowResult
  <2>5. ASSUME NEW d \in Cols, NEW j \in 1..Steps
        PROVE  conflict'[d].steps[j] =
                   IF d = a.col /\ j = a.step THEN "done" ELSE conflict[d].steps[j]
    BY <2>2, <2>4
  <2>6. \A d \in Cols, j \in 1..Steps :
            conflict'[d].steps[j] =
                IF d = a.col /\ j = a.step THEN "done" ELSE conflict[d].steps[j]
    BY <2>5
  <2> QED BY <1>3, <2>1, <2>4, <2>6
<1> QED BY <1>2, <1>3

LEMMA BeginEffect ==
    ASSUME TypeOK, NEW a \in animators, Begin(a)
    PROVE  /\ conflict' \in [Cols -> Column]
           /\ \A d \in Cols, j \in 1..Steps :
                 conflict'[d].steps[j] =
                     IF d = a.col /\ j = a.step THEN "active" ELSE conflict[d].steps[j]
           /\ animators' = (animators \ {a}) \union {[a EXCEPT !.doing = "yes"]}
<1>1. a.col \in Cols /\ a.step \in 1..Steps /\ conflict \in [Cols -> Column]
    BY DEF TypeOK
<1>2. /\ conflict' = [conflict EXCEPT ![a.col].steps[a.step] = "active"]
      /\ animators' = (animators \ {a}) \union {[a EXCEPT !.doing = "yes"]}
    BY DEF Begin
<1> QED BY <1>1, <1>2, SetStep

(* The round after a sample, or the end of the rounds. *)
LEMMA RoundType ==
    ASSUME round \in 0..Rounds, net \in Seq(1..Rounds),
           IF round < Rounds THEN BeginRound ELSE phase' = "finish" /\ UNCHANGED <<round, net>>
    PROVE  /\ round' \in 0..Rounds /\ net' \in Seq(1..Rounds)
           /\ phase' \in {"waiting", "finish"}
           /\ phase' = "waiting" => round' \in 1..Rounds
<1>0. Rounds \in Nat
    BY BenchAssumption
<1>1. CASE round < Rounds
  <2>1. round' = round + 1 /\ phase' = "waiting" /\ net' \in {net, Append(net, round')}
    BY <1>1 DEF BeginRound
  <2>2. round' \in 1..Rounds
    BY <1>0, <1>1, <2>1
  <2>3. Append(net, round') \in Seq(1..Rounds)
    BY <2>2, AppendProperties
  <2>4. net' \in Seq(1..Rounds)
    BY <2>1, <2>3
  <2> QED BY <1>0, <2>1, <2>2, <2>4
<1>2. CASE ~(round < Rounds)
    BY <1>2
<1> QED BY <1>1, <1>2

LEMMA NextTypeInv ==
    ASSUME LagInv, TypeInv, [Next]_vars PROVE TypeInv'
<1> USE DEF TypeInv, TypeOK, screen, wires
<1>0. Rounds \in Nat \ {0} /\ MaxRuns \in Nat /\ Steps \in Nat \ {0}
    BY BenchAssumption
<1>1. CASE Click
  <2>1. run' = run + 1 /\ run < MaxRuns /\ phase' = "connecting" /\ running' = TRUE
        /\ stats' = NoStats /\ conflict' = initConflict /\ round' = 0 /\ net' = <<>>
        /\ samples' = <<>> /\ UNCHANGED <<refused, animators>>
        /\ sockets' = sockets \union {[run |-> run', end |-> e, up |-> "no"] : e \in Ends}
    BY <1>1 DEF Click
  <2>2. run' \in 1..MaxRuns
    BY <1>0, <2>1
  <2>3. sockets' \subseteq Socket
    BY <2>1, <2>2 DEF Socket
  <2>4. initConflict \in [Cols -> Column] /\ NoStats \in Stats
    BY DEF initConflict, Column, NoStats, Stats
  <2> QED BY <1>0, <2>1, <2>2, <2>3, <2>4
<1>2. ASSUME NEW s \in sockets, SocketOpens(s) \/ ConnectFails(s) PROVE TypeInv'
  <2>1. s \in Socket
    OBVIOUS
  <2>2. [s EXCEPT !.up = "yes"] \in Socket
    BY <2>1 DEF Socket
  <2>3. CASE SocketOpens(s)
    BY <2>2, <2>3 DEF SocketOpens
  <2>4. CASE ConnectFails(s)
    BY <2>4 DEF ConnectFails
  <2> QED BY <1>2, <2>3, <2>4
<1>3. CASE ConnectTimesOut
    BY <1>3 DEF ConnectTimesOut
<1>4. CASE Connected
  <2>1. round = 0 /\ BeginRound /\ UNCHANGED <<screen, run, sockets, refused, samples, conflict, animators>>
        /\ phase = "connecting"
    BY <1>4 DEF Connected, LagInv
  <2>2. /\ round' \in 0..Rounds /\ net' \in Seq(1..Rounds)
        /\ phase' \in {"waiting", "finish"}
        /\ phase' = "waiting" => round' \in 1..Rounds
    BY <1>0, <2>1, RoundType
  <2>3. phase' = "waiting"
    BY <2>1 DEF BeginRound
  <2> QED BY <2>1, <2>2, <2>3
<1>5. CASE Arrive
  <2>1. PICK ms \in Latencies :
          samples' = Append(samples, [round |-> round, frame |-> Head(net), ms |-> ms])
    BY <1>5 DEF Arrive
  <2>2. /\ phase = "waiting" /\ net # <<>> /\ net' = Tail(net) /\ phase' = "pause"
        /\ stats' = IF round % Every = 0 THEN Medians(samples') ELSE stats
        /\ UNCHANGED <<running, run, sockets, refused, round, conflict, animators>>
    BY <1>5 DEF Arrive
  <2> DEFINE x == [round |-> round, frame |-> Head(net), ms |-> ms]
  <2>3. Head(net) \in 1..Rounds /\ Tail(net) \in Seq(1..Rounds)
    BY <2>2, HeadAndTail
  <2>4. x \in Sample /\ x.frame # 0
    BY <1>0, <2>2, <2>3 DEF Sample
  <2> HIDE DEF x
  <2>5. samples' = Append(samples, x)
    BY <2>1 DEF x
  <2>6. samples' \in Seq(Sample) /\ Len(samples') = Len(samples) + 1
        /\ samples'[Len(samples) + 1] = x
    BY <2>4, <2>5, AppendProperties
  <2>7. Len(samples') <= Rounds
    BY <2>2, <2>6 DEF LagInv
  <2>8. samples' \in Seq(SampleSet) /\ Len(samples) + 1 \in 1..Len(samples')
    BY <2>6, SampleType
  <2>9. Answered(samples') # <<>>
    BY <2>4, <2>6, <2>8, AnsweredProperties
  <2>10. stats' \in Stats
    BY <2>2, <2>8, <2>9, MediansOf
  <2> QED BY <2>2, <2>3, <2>6, <2>7, <2>10
<1>6. CASE ArriveLate \/ Lose
  <2>1. net # <<>> /\ net' = Tail(net)
    BY <1>6 DEF ArriveLate, Lose
  <2>2. net' \in Seq(1..Rounds)
    BY <2>1
  <2> QED BY <1>6, <2>2 DEF ArriveLate, Lose
<1>7. CASE GiveUp
  <2> DEFINE x == [round |-> round, frame |-> 0, ms |-> Timeout]
  <2>1. /\ phase = "waiting" /\ samples' = Append(samples, x)
        /\ IF round < Rounds THEN BeginRound ELSE phase' = "finish" /\ UNCHANGED <<round, net>>
        /\ UNCHANGED <<screen, run, sockets, refused, conflict, animators>>
    BY <1>7 DEF GiveUp
  <2>2. x \in Sample
    BY <1>0, <2>1 DEF Sample
  <2> HIDE DEF x
  <2>3. samples' \in Seq(Sample) /\ Len(samples') = Len(samples) + 1
    BY <2>1, <2>2, AppendProperties
  <2>4. Len(samples') <= Rounds
    BY <2>1, <2>3 DEF LagInv
  <2>5. /\ round' \in 0..Rounds /\ net' \in Seq(1..Rounds)
        /\ phase' \in {"waiting", "finish"}
        /\ phase' = "waiting" => round' \in 1..Rounds
    BY <2>1, RoundType
  <2> QED BY <2>1, <2>3, <2>4, <2>5
<1>8. CASE Paused
  <2>1. /\ phase = "pause"
        /\ IF round < Rounds THEN BeginRound ELSE phase' = "finish" /\ UNCHANGED <<round, net>>
        /\ UNCHANGED <<screen, run, sockets, refused, samples, conflict, animators>>
    BY <1>8 DEF Paused
  <2>2. /\ round' \in 0..Rounds /\ net' \in Seq(1..Rounds)
        /\ phase' \in {"waiting", "finish"}
        /\ phase' = "waiting" => round' \in 1..Rounds
    BY <2>1, RoundType
  <2> QED BY <2>1, <2>2
<1>9. CASE Finish
  <2>1. Medians(samples) \in Stats
    <3>1. samples \in Seq(SampleSet) /\ Answered(samples) # <<>>
        BY <1>9, SampleType DEF Finish
    <3> QED BY <3>1, MediansOf
  <2>2. Animations \subseteq [run: 1..MaxRuns, col: Cols, step: 1..Steps, doing: {"no", "yes"}]
    BY <1>0, <1>9 DEF Animations, Finish
  <2> QED BY <1>9, <2>1, <2>2 DEF Finish
<1>10. CASE FinishThrows
    BY <1>10 DEF FinishThrows
<1>11. ASSUME NEW a \in animators, Begin(a) \/ End(a) PROVE TypeInv'
  <2>1. animators \subseteq Animators /\ a \in Animators
    BY DEF Animators
  <2>2. ASSUME Begin(a) PROVE animators' \subseteq Animators
    <3>1. animators' = (animators \ {a}) \union {[a EXCEPT !.doing = "yes"]}
        BY <2>2, BeginEffect
    <3>2. [a EXCEPT !.doing = "yes"] \in Animators
        BY <2>1, AnimatorSteps
    <3> QED BY <2>1, <3>1, <3>2
  <2>3. ASSUME End(a) PROVE animators' \subseteq Animators
    <3>1. IF a.step < Steps
          THEN animators' = (animators \ {a}) \union {[a EXCEPT !.doing = "no", !.step = @ + 1]}
          ELSE animators' = animators \ {a}
        BY <2>3, EndEffect
    <3>2. a.step < Steps => [a EXCEPT !.doing = "no", !.step = @ + 1] \in Animators
        BY <2>1, AnimatorSteps
    <3> QED BY <2>1, <3>1, <3>2
  <2>4. animators' \subseteq Animators
    BY <1>11, <2>2, <2>3
  <2>5. conflict' \in [Cols -> Column]
    BY <1>11, BeginEffect, EndEffect
  <2>6. UNCHANGED <<screen, phase, run, wires, refused, round, samples>>
    BY <1>11 DEF Begin, End
  <2> QED BY <2>4, <2>5, <2>6 DEF Animators
<1>12. CASE UNCHANGED vars
    BY <1>12 DEF vars
<1> QED BY <1>1, <1>2, <1>3, <1>4, <1>5, <1>6, <1>7, <1>8, <1>9, <1>10, <1>11, <1>12 DEF Next

LEMMA BenchTypeInvariant == Spec => [](TypeInv /\ LagInv)
<1>1. Init => TypeInv
  <2>1. 0 \in 0..MaxRuns /\ 0 \in 0..Rounds
    BY BenchAssumption
  <2>2. initConflict \in [Cols -> Column] /\ NoStats \in Stats
    BY DEF initConflict, Column, NoStats, Stats
  <2>3. <<>> \in Seq(1..Rounds) /\ <<>> \in Seq(Sample) /\ Len(<<>>) <= Rounds
    BY BenchAssumption
  <2> SUFFICES ASSUME Init PROVE TypeInv
    OBVIOUS
  <2>4. net \in Seq(1..Rounds) /\ samples \in Seq(Sample) /\ Len(samples) <= Rounds
    BY <2>3 DEF Init
  <2>5. sockets \subseteq Socket /\ refused \subseteq 1..MaxRuns
        /\ animators \subseteq [run: 1..MaxRuns, col: Cols, step: 1..Steps, doing: {"no", "yes"}]
    BY DEF Init
  <2>6. /\ running \in BOOLEAN /\ phase = "ready" /\ run \in 0..MaxRuns /\ round \in 0..Rounds
        /\ stats \in Stats /\ conflict \in [Cols -> Column]
    BY <2>1, <2>2 DEF Init
  <2> QED BY <2>4, <2>5, <2>6 DEF TypeInv, TypeOK
<1>2. TypeInv /\ LagInv /\ [Next]_vars => TypeInv'
    BY NextTypeInv
<1> QED BY <1>1, <1>2, LagInvariant, PTL DEF Spec

(* BenchPage.tsx:59-228: whatever the network does, a run has no more samples *)
(* than rounds, and medians are taken of samples that have a middle.          *)
THEOREM TypeCorrect == Spec => []TypeOK
<1>1. TypeInv => TypeOK
    BY DEF TypeInv
<1> QED BY <1>1, BenchTypeInvariant, PTL

-----------------------------------------------------------------------------
(* The medians on the screen.                                                 *)

(* st are the medians of the first n samples of s. *)
ShownAt(st, s, n) ==
    /\ IsMedian(st.versa, Times(SubSeq(s, 1, n)))
    /\ IsMedian(st.rest, Times(Answered(SubSeq(s, 1, n))))

LEMMA SampleFits == ASSUME TypeOK PROVE samples \in Seq(SampleSet)
BY SampleType DEF TypeOK

(* The medians of all of s. *)
LEMMA ShownAtEnd ==
    ASSUME NEW s \in Seq(SampleSet), Answered(s) # <<>>
    PROVE  Len(s) \in 1..Len(s) /\ ShownAt(Medians(s), s, Len(s))
<1>1. /\ s # <<>> /\ IsMedian(Medians(s).versa, Times(s))
      /\ IsMedian(Medians(s).rest, Times(Answered(s)))
    BY MediansOf
<1>2. SubSeq(s, 1, Len(s)) = s /\ Len(s) \in 1..Len(s)
    BY <1>1
<1> QED BY <1>1, <1>2 DEF ShownAt

(* A sample more takes nothing from the medians of the first n. *)
LEMMA ShownAtStays ==
    ASSUME NEW s \in Seq(SampleSet), NEW x \in SampleSet, NEW n \in 1..Len(s), NEW st,
           ShownAt(st, s, n)
    PROVE  n \in 1..Len(Append(s, x)) /\ ShownAt(st, Append(s, x), n)
<1>1. SubSeq(Append(s, x), 1, n) = SubSeq(s, 1, n)
    OBVIOUS
<1>2. n \in 1..Len(Append(s, x))
    OBVIOUS
<1> QED BY <1>1, <1>2 DEF ShownAt

LEMMA NextStatsInv ==
    ASSUME TypeInv, LagInv, StatsInv, [Next]_vars PROVE StatsInv'
<1>0. samples \in Seq(SampleSet)
    BY SampleFits DEF TypeInv
<1>00. StatsInv <=> (stats # NoStats =>
          /\ phase # "connecting"
          /\ \E n \in 1..Len(samples) :
               (n % Every = 0 \/ (phase = "ready" /\ n = Len(samples)))
               /\ ShownAt(stats, samples, n))
    BY DEF StatsInv, ShownAt
<1>01. StatsInv' <=> (stats' # NoStats =>
          /\ phase' # "connecting"
          /\ \E n \in 1..Len(samples') :
               (n % Every = 0 \/ (phase' = "ready" /\ n = Len(samples')))
               /\ ShownAt(stats', samples', n))
    BY DEF StatsInv, ShownAt
<1>1. CASE UNCHANGED <<stats, samples>> /\ (phase' = phase \/ phase \notin {"ready", "connecting"})
           /\ (phase' = phase \/ phase' # "connecting")
    BY <1>1, <1>00, <1>01
<1>2. CASE UNCHANGED <<stats, samples>> /\ phase = "connecting"
    BY <1>2, <1>00, <1>01
<1>3. ASSUME NEW x \in SampleSet, phase = "waiting", phase' # "connecting",
             samples' = Append(samples, x), stats' = stats
      PROVE  StatsInv'
  <2> SUFFICES ASSUME stats # NoStats PROVE StatsInv'
    BY <1>3, <1>01
  <2>1. PICK n \in 1..Len(samples) : n % Every = 0 /\ ShownAt(stats, samples, n)
    BY <1>3, <1>00
  <2>2. n \in 1..Len(samples') /\ ShownAt(stats, samples', n)
    BY <1>0, <1>3, <2>1, ShownAtStays
  <2> QED BY <1>3, <1>01, <2>1, <2>2
<1>4. CASE Click
    BY <1>4, <1>01 DEF Click
<1>5. ASSUME NEW s \in sockets, SocketOpens(s) \/ ConnectFails(s) PROVE StatsInv'
    BY <1>5, <1>1, <1>2 DEF SocketOpens, ConnectFails, screen
<1>6. CASE ConnectTimesOut \/ Connected
    BY <1>6, <1>2 DEF ConnectTimesOut, Connected, screen
<1>7. CASE Arrive
  <2>1. PICK ms \in Latencies :
          samples' = Append(samples, [round |-> round, frame |-> Head(net), ms |-> ms])
    BY <1>7 DEF Arrive
  <2> DEFINE x == [round |-> round, frame |-> Head(net), ms |-> ms]
  <2>2. /\ phase = "waiting" /\ phase' = "pause" /\ net # <<>>
        /\ stats' = IF round % Every = 0 THEN Medians(samples') ELSE stats
    BY <1>7 DEF Arrive
  <2>3. Head(net) \in Nat \ {0}
    <3>1. net \in Seq(1..Rounds) /\ Head(net) \in 1..Rounds /\ Rounds \in Nat
        BY <2>2, HeadAndTail, BenchAssumption DEF TypeInv, TypeOK
    <3> QED BY <3>1
  <2>4. x \in SampleSet /\ x.frame # 0
    BY <2>3, BenchAssumption DEF SampleSet, LagInv
  <2> HIDE DEF x
  <2>5. samples' = Append(samples, x)
    BY <2>1 DEF x
  <2>6. CASE round % Every # 0
    BY <1>3, <2>2, <2>4, <2>5, <2>6
  <2>7. CASE round % Every = 0
    <3>1. /\ samples' \in Seq(SampleSet) /\ Len(samples') = Len(samples) + 1
          /\ samples'[Len(samples) + 1] = x
        BY <1>0, <2>4, <2>5, AppendProperties
    <3>2. Len(samples) + 1 \in 1..Len(samples')
        BY <1>0, <3>1
    <3>3. Answered(samples') # <<>>
        BY <2>4, <3>1, <3>2, AnsweredProperties
    <3>4. Len(samples') = round
        BY <2>2, <3>1 DEF LagInv
    <3>5. Len(samples') \in 1..Len(samples') /\ ShownAt(Medians(samples'), samples', Len(samples'))
        BY <3>1, <3>3, ShownAtEnd
    <3> QED BY <1>01, <2>2, <2>7, <3>4, <3>5
  <2> QED BY <2>6, <2>7
<1>8. CASE ArriveLate \/ Lose
    BY <1>8, <1>1 DEF ArriveLate, Lose, screen
<1>9. CASE GiveUp
  <2> DEFINE x == [round |-> round, frame |-> 0, ms |-> Timeout]
  <2>1. x \in SampleSet
    BY BenchAssumption DEF SampleSet, LagInv
  <2>2. phase = "waiting" /\ samples' = Append(samples, x) /\ stats' = stats
        /\ (BeginRound \/ phase' = "finish")
    BY <1>9 DEF GiveUp, screen
  <2>3. phase' # "connecting"
    BY <2>2 DEF BeginRound
  <2> HIDE DEF x
  <2> QED BY <1>3, <2>1, <2>2, <2>3
<1>10. CASE Paused
  <2>1. phase = "pause" /\ UNCHANGED <<stats, samples>> /\ (BeginRound \/ phase' = "finish")
    BY <1>10 DEF Paused, screen
  <2>2. phase' # "connecting"
    BY <2>1 DEF BeginRound
  <2> QED BY <1>1, <2>1, <2>2
<1>11. CASE Finish
  <2>1. /\ Answered(samples) # <<>> /\ stats' = Medians(samples) /\ phase' = "ready"
        /\ samples' = samples
    BY <1>11 DEF Finish
  <2>2. Len(samples) \in 1..Len(samples) /\ ShownAt(Medians(samples), samples, Len(samples))
    BY <1>0, <2>1, ShownAtEnd
  <2> QED BY <1>01, <2>1, <2>2
<1>12. CASE FinishThrows
    BY <1>12, <1>1 DEF FinishThrows, screen
<1>13. ASSUME NEW a \in animators, Begin(a) \/ End(a) PROVE StatsInv'
    BY <1>13, <1>1 DEF Begin, End, screen
<1>14. CASE UNCHANGED vars
    BY <1>14, <1>1 DEF vars, screen
<1> QED BY <1>4, <1>5, <1>6, <1>7, <1>8, <1>9, <1>10, <1>11, <1>12, <1>13, <1>14 DEF Next

(* BenchPage.tsx:220-227,252-268: for any rounds, losses and late frames, the *)
(* medians on the screen are medians of the samples taken so far, or of those *)
(* of the last full group of rounds.                                          *)
THEOREM MediansRight == Spec => []MediansAreMedians
<1>1. Init => StatsInv
    BY DEF Init, StatsInv
<1>2. TypeInv /\ LagInv /\ StatsInv /\ [Next]_vars => StatsInv'
    BY NextStatsInv
<1>3. StatsInv => MediansAreMedians
    BY DEF StatsInv, MediansAreMedians
<1> QED BY <1>1, <1>2, <1>3, BenchTypeInvariant, PTL DEF Spec

-----------------------------------------------------------------------------
(* Animations of two runs on the same columns.                                *)

WorkedOn(c, i) == \E a \in animators : a.col = c /\ a.step = i /\ a.doing = "yes"

Ahead(c, i) ==
    \E a \in animators :
        a.run = run /\ a.col = c /\ (a.step < i \/ (a.step = i /\ a.doing = "no"))

LEMMA StepsParts ==
    StepsInv <=>
        /\ run = 0 => conflict = initConflict /\ animators = {} /\ ~running
        /\ \A c \in Cols, i \in 1..Steps :
              /\ conflict[c].steps[i] = "active" => WorkedOn(c, i)
              /\ run # 0 /\ ~running /\ run \notin refused /\ conflict[c].steps[i] = "idle"
                   => Ahead(c, i)
BY DEF StepsInv, WorkedOn, Ahead

LEMMA BeginStepsInv ==
    ASSUME TypeInv, StepsInv, NEW a \in animators, Begin(a) PROVE StepsInv'
<1> DEFINE d == [a EXCEPT !.doing = "yes"]
<1>1. /\ a \in Animators /\ a.doing = "no" /\ UNCHANGED <<run, running, refused>>
    BY DEF Begin, screen, TypeInv, TypeOK, Animators
<1>2. /\ \A c \in Cols, i \in 1..Steps :
            conflict'[c].steps[i] =
                IF c = a.col /\ i = a.step THEN "active" ELSE conflict[c].steps[i]
      /\ animators' = (animators \ {a}) \union {d}
    BY BeginEffect DEF TypeInv
<1>3. d.run = a.run /\ d.col = a.col /\ d.step = a.step /\ d.doing = "yes"
    BY <1>1, AnimatorSteps
<1> HIDE DEF d
<1>4. run # 0
    BY DEF StepsInv
<1>5. ASSUME NEW c \in Cols, NEW i \in 1..Steps, conflict'[c].steps[i] = "active"
      PROVE  WorkedOn(c, i)'
  <2>1. CASE c = a.col /\ i = a.step
    BY <1>2, <1>3, <2>1 DEF WorkedOn
  <2>2. CASE ~(c = a.col /\ i = a.step)
    <3>1. WorkedOn(c, i)
        BY <1>2, <1>5, <2>2, StepsParts
    <3> QED BY <1>1, <1>2, <3>1 DEF WorkedOn
  <2> QED BY <2>1, <2>2
<1>6. ASSUME NEW c \in Cols, NEW i \in 1..Steps, run' # 0, ~running', run' \notin refused',
             conflict'[c].steps[i] = "idle"
      PROVE  Ahead(c, i)'
  <2>1. ~(c = a.col /\ i = a.step) /\ conflict[c].steps[i] = "idle"
    BY <1>2, <1>6
  <2>2. PICK b \in animators :
            b.run = run /\ b.col = c /\ (b.step < i \/ (b.step = i /\ b.doing = "no"))
    BY <1>1, <1>6, <2>1, StepsParts DEF Ahead
  <2>3. CASE b = a
    BY <1>1, <1>2, <1>3, <2>1, <2>2, <2>3 DEF Ahead
  <2>4. CASE b # a
    BY <1>1, <1>2, <2>2, <2>4 DEF Ahead
  <2> QED BY <2>3, <2>4
<1> QED BY <1>1, <1>4, <1>5, <1>6 DEF StepsInv, WorkedOn, Ahead

LEMMA EndStepsInv ==
    ASSUME TypeInv, StepsInv, NEW a \in animators, End(a) PROVE StepsInv'
<1> DEFINE d == [a EXCEPT !.doing = "no", !.step = @ + 1]
<1>1. /\ a \in Animators /\ a.doing = "yes" /\ UNCHANGED <<run, running, refused>>
      /\ a.step \in 1..Steps /\ Steps \in Nat
    BY BenchAssumption DEF End, screen, TypeInv, TypeOK, Animators
<1>2. /\ \A c \in Cols, i \in 1..Steps :
            conflict'[c].steps[i] =
                IF c = a.col /\ i = a.step THEN "done" ELSE conflict[c].steps[i]
      /\ IF a.step < Steps THEN animators' = (animators \ {a}) \union {d}
                           ELSE animators' = animators \ {a}
    BY EndEffect DEF TypeInv
<1>3. d.run = a.run /\ d.col = a.col /\ d.step = a.step + 1 /\ d.doing = "no"
    BY <1>1, AnimatorSteps
<1> HIDE DEF d
<1>4. run # 0
    BY DEF StepsInv
<1>5. animators \ {a} \subseteq animators' /\ (a.step < Steps => d \in animators')
    BY <1>2
<1>6. ASSUME NEW c \in Cols, NEW i \in 1..Steps, conflict'[c].steps[i] = "active"
      PROVE  WorkedOn(c, i)'
  <2>1. ~(c = a.col /\ i = a.step) /\ conflict[c].steps[i] = "active"
    BY <1>2, <1>6
  <2>2. WorkedOn(c, i)
    BY <2>1, StepsParts
  <2> QED BY <1>5, <2>1, <2>2 DEF WorkedOn
<1>7. ASSUME NEW c \in Cols, NEW i \in 1..Steps, run' # 0, ~running', run' \notin refused',
             conflict'[c].steps[i] = "idle"
      PROVE  Ahead(c, i)'
  <2>1. conflict[c].steps[i] = "idle"
    BY <1>2, <1>7
  <2>2. PICK b \in animators :
            b.run = run /\ b.col = c /\ (b.step < i \/ (b.step = i /\ b.doing = "no"))
    BY <1>1, <1>7, <2>1, StepsParts DEF Ahead
  <2>3. CASE b = a
    <3>1. a.step < i
        BY <1>1, <2>2, <2>3
    <3>2. d \in animators' /\ (d.step < i \/ d.step = i)
        BY <1>1, <1>3, <1>5, <3>1
    <3> QED BY <1>1, <1>3, <2>2, <2>3, <3>2 DEF Ahead
  <2>4. CASE b # a
    BY <1>1, <1>5, <2>2, <2>4 DEF Ahead
  <2> QED BY <2>3, <2>4
<1> QED BY <1>1, <1>4, <1>6, <1>7 DEF StepsInv, WorkedOn, Ahead

LEMMA NextStepsInv ==
    ASSUME TypeInv, StepsInv, [Next]_vars PROVE StepsInv'
<1>1. CASE /\ UNCHANGED <<run, conflict, animators>>
           /\ running' = running /\ refused' = refused
    BY <1>1 DEF StepsInv, initConflict
<1>2. CASE UNCHANGED <<run, conflict, animators>> /\ running' = FALSE /\ run \in refused'
    BY <1>2 DEF StepsInv, initConflict
<1>3. CASE Click
  <2>1. run' = run + 1 /\ run \in Nat /\ conflict' = initConflict /\ running' = TRUE
    BY <1>3, BenchAssumption DEF Click, TypeInv, TypeOK
  <2>2. \A c \in Cols, i \in 1..Steps : conflict'[c].steps[i] = "idle"
    BY <2>1 DEF initConflict
  <2> QED BY <2>1, <2>2 DEF StepsInv
<1>4. ASSUME NEW s \in sockets, SocketOpens(s) \/ ConnectFails(s) PROVE StepsInv'
    BY <1>4, <1>1, <1>2 DEF SocketOpens, ConnectFails, screen
<1>5. CASE ConnectTimesOut
    BY <1>5, <1>2 DEF ConnectTimesOut
<1>6. CASE Connected \/ ArriveLate \/ Lose \/ GiveUp \/ Paused \/ FinishThrows \/ Arrive
    BY <1>6, <1>1 DEF Connected, ArriveLate, Lose, GiveUp, Paused, FinishThrows, Arrive, screen
<1>7. CASE Finish
  <2>1. /\ animators' = animators \union Animations /\ UNCHANGED <<run, refused, conflict>>
        /\ run # 0
    BY <1>7, BenchAssumption DEF Finish, TypeInv
  <2>2. ASSUME NEW c \in Cols, NEW i \in 1..Steps, conflict[c].steps[i] = "active"
        PROVE  WorkedOn(c, i)'
    BY <2>1, <2>2, StepsParts DEF WorkedOn
  <2>3. ASSUME NEW c \in Cols, NEW i \in 1..Steps PROVE Ahead(c, i)'
    <3> DEFINE b == [run |-> run, col |-> c, step |-> 1, doing |-> "no"]
    <3>1. b \in animators'
        BY <2>1 DEF Animations
    <3>2. b.run = run' /\ b.col = c /\ (b.step < i \/ b.step = i) /\ b.doing = "no"
        BY <2>1, BenchAssumption
    <3> HIDE DEF b
    <3> QED BY <3>1, <3>2 DEF Ahead
  <2> QED BY <2>1, <2>2, <2>3 DEF StepsInv, WorkedOn, Ahead
<1>8. ASSUME NEW a \in animators, Begin(a) \/ End(a) PROVE StepsInv'
    BY <1>8, BeginStepsInv, EndStepsInv
<1>9. CASE UNCHANGED vars
    BY <1>9, <1>1 DEF vars, screen
<1> QED BY <1>3, <1>4, <1>5, <1>6, <1>7, <1>8, <1>9 DEF Next

(* BenchPage.tsx:90-110,182,282-288: for any number of runs, columns and      *)
(* steps, however the animations of two runs overtake each other.             *)
THEOREM ColumnsDoSettle == Spec => []ColumnsSettle
<1>1. Init => StepsInv
  <2>1. ASSUME Init PROVE \A c \in Cols, i \in 1..Steps : conflict[c].steps[i] = "idle"
    BY <2>1 DEF Init, initConflict
  <2>2. ASSUME Init PROVE conflict = initConflict /\ animators = {} /\ ~running /\ run = 0
    BY <2>2 DEF Init
  <2> QED BY <2>1, <2>2 DEF StepsInv
<1>2. TypeInv /\ StepsInv /\ [Next]_vars => StepsInv'
    BY NextStepsInv
<1>3. TypeInv /\ StepsInv => ColumnsSettle
  <2> SUFFICES ASSUME TypeInv, StepsInv, animators = {}, ~running, NEW c \in Cols,
                      conflict[c].result = "shown", run \notin refused, NEW i \in 1..Steps
               PROVE  conflict[c].steps[i] = "done"
    BY DEF ColumnsSettle
  <2>1. run # 0
    BY DEF StepsInv, initConflict
  <2>2. conflict[c].steps[i] \in {"idle", "active", "done"}
    <3>1. conflict[c] \in Column
        BY DEF TypeInv, TypeOK
    <3>2. conflict[c].steps \in [1..Steps -> {"idle", "active", "done"}]
        BY <3>1 DEF Column
    <3> QED BY <3>2
  <2> QED BY <2>1, <2>2 DEF StepsInv
<1> QED BY <1>1, <1>2, <1>3, BenchTypeInvariant, PTL DEF Spec
=============================================================================
