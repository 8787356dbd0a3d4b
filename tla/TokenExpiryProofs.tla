-------------------------- MODULE TokenExpiryProofs --------------------------
(* For any grace period and any tokens: every connection is closed in time,   *)
(* the time its peer does not read a warning aside, and none is closed early. *)
EXTENDS TokenExpiry, SequenceTheorems, TLAPS

(* What a duration in reauthCh is: the time its token has left, or had left   *)
(* when it was put there.                                                     *)
Ttl(m) == m.of # NoExpiry => m.of <= now + m.ttl

(* The timer never runs short of its token. *)
TimerCoversToken ==
    /\ \A i \in 1..Len(reauthCh) : Ttl(reauthCh[i])
    /\ taken # NoExpiry =>
           /\ expiry = "warn" => taken <= deadline + Grace
           /\ expiry = "writing" => taken <= now + Grace
           /\ expiry = "grace" => taken <= deadline
    /\ expiry = "grace" => warned + Grace <= deadline
    /\ pc = "upgrading" => expiry = "off" /\ reauthCh = <<>> /\ taken = token
    /\ ctx = "cancelled" <=> ws = "closed"
    /\ expiry = "done" => ctx = "cancelled"

EndInv == TypeOK /\ TimerCoversToken

(* Nor long, the time spent writing warnings aside. *)
TimerWithinDue ==
    pc # "upgrading" /\ ws # "closed" =>
        /\ expiry \in {"warn", "writing", "grace"}
        /\ now <= due + waited
        /\ expiry \in {"warn", "grace"} => now <= deadline
        /\ expiry = "warn" => deadline + Grace <= due + waited
        /\ expiry = "writing" => now + Grace <= due + waited
        /\ expiry = "grace" => deadline <= due + waited
        /\ \A i \in 1..Len(reauthCh) :
               now + WarnAfter(reauthCh[i].ttl) + Grace <= due + waited

DueInv == EndInv /\ TimerWithinDue

-----------------------------------------------------------------------------
LEMMA LargerFacts ==
    ASSUME NEW a \in Nat, NEW b \in Nat
    PROVE  /\ Larger(a, b) \in Nat
           /\ a <= Larger(a, b) /\ b <= Larger(a, b)
           /\ Larger(a, b) = a \/ Larger(a, b) = b
BY DEF Larger

(* A timer set for a duration never warns sooner than the grace period before *)
(* its end, and never in the past.                                            *)
LEMMA WarnFacts ==
    ASSUME TokenExpiryAssumption, NEW i \in Int
    PROVE  /\ WarnAfter(i) \in Nat
           /\ i <= WarnAfter(i) + Grace
BY DEF WarnAfter, Larger, TokenExpiryAssumption

LEMMA TtlFacts ==
    ASSUME TypeOK, TokenExpiryAssumption, NEW t \in Token
    PROVE  /\ TimeUntilExpiry(t) \in Int
           /\ t # NoExpiry => t \in Nat /\ TimeUntilExpiry(t) = t - now
BY DEF TimeUntilExpiry, TypeOK, Token

LEMMA EndFacts ==
    ASSUME TypeOK, TokenExpiryAssumption, NEW t \in Token
    PROVE  /\ EndOf(t) \in Nat /\ WarnAfter(TimeUntilExpiry(t)) \in Nat
           /\ now + WarnAfter(TimeUntilExpiry(t)) + Grace <= EndOf(t)
           /\ now + Grace <= EndOf(t)
           /\ t # NoExpiry => t <= now + WarnAfter(TimeUntilExpiry(t)) + Grace
<1> USE DEF TypeOK, TokenExpiryAssumption, Token, EndOf, WarnAfter, TimeUntilExpiry, Larger
<1>1. CASE t = NoExpiry
    BY <1>1
<1>2. CASE t # NoExpiry
    BY <1>2
<1> QED
    BY <1>1, <1>2

LEMMA PresentedTokens ==
    ASSUME TypeOK, TokenExpiryAssumption PROVE Presented \subseteq Token
BY DEF Presented, Token, TypeOK, TokenExpiryAssumption

(* What Accept leaves in the channel. *)
LEMMA Offered ==
    ASSUME TokenExpiryAssumption, TypeOK, Offer
    PROVE  /\ reauthCh' \in Seq([of : Token, ttl : Int]) /\ Len(reauthCh') <= 1
           /\ \A i \in 1..Len(reauthCh') :
                  \/ reauthCh' = reauthCh /\ i \in 1..Len(reauthCh)
                  \/ reauthCh'[i] = [of |-> token, ttl |-> TimeUntilExpiry(token)]
<1>1. CASE reauthCh = <<>>
    <2>1. [of |-> token, ttl |-> TimeUntilExpiry(token)] \in [of : Token, ttl : Int]
        BY TtlFacts DEF TypeOK
    <2> QED
        BY <1>1, <2>1 DEF Offer
<1>2. CASE reauthCh # <<>>
    BY <1>2 DEF Offer, TypeOK
<1> QED
    BY <1>1, <1>2

(* A sequence of one. *)
LEMMA OnlyElement ==
    ASSUME NEW M, NEW s \in Seq(M), s # <<>>, Len(s) <= 1
    PROVE  Head(s) = s[1] /\ s[1] \in M /\ Len(s) = 1 /\ Tail(s) = <<>>
<1>1. Len(s) = 1
    BY EmptySeq
<1>2. Head(s) = s[1] /\ s[1] \in M
    BY <1>1
<1>3. Tail(s) \in Seq(M) /\ Len(Tail(s)) = 0
    BY <1>1, HeadTailProperties
<1>4. Tail(s) = <<>>
    BY <1>3, EmptySeq
<1> QED
    BY <1>1, <1>2, <1>4

LEMMA ChannelTypes ==
    ASSUME TypeOK, NEW i \in 1..Len(reauthCh)
    PROVE  reauthCh[i].of \in Token /\ reauthCh[i].ttl \in Int
<1> DEFINE M == [of : Token, ttl : Int]
<1> HIDE DEF M
<1>1. reauthCh \in Seq(M)
    BY DEF TypeOK, M
<1>2. reauthCh[i] \in M
    BY <1>1
<1> QED
    BY <1>2 DEF M

(* What TakeReauth takes from it. *)
LEMMA Taken ==
    ASSUME TokenExpiryAssumption, TypeOK, TakeReauth
    PROVE  \E m \in [of : Token, ttl : Int] :
               /\ m = reauthCh[1] /\ 1 \in 1..Len(reauthCh)
               /\ taken' = m.of
               /\ deadline' = now + WarnAfter(m.ttl)
               /\ reauthCh' = <<>>
               /\ m.of \in Token /\ m.ttl \in Int
<1> DEFINE M == [of : Token, ttl : Int]
<1> HIDE DEF M
<1>1. reauthCh \in Seq(M) /\ reauthCh # <<>> /\ Len(reauthCh) <= 1
    BY DEF TypeOK, TakeReauth, M
<1>2. /\ Len(reauthCh) = 1 /\ reauthCh[1] \in M
      /\ Head(reauthCh) = reauthCh[1] /\ Tail(reauthCh) = <<>>
    BY <1>1, OnlyElement
<1>3. /\ taken' = reauthCh[1].of
      /\ deadline' = now + WarnAfter(reauthCh[1].ttl)
      /\ reauthCh' = <<>>
    BY <1>2 DEF TakeReauth
<1> QED
    BY <1>2, <1>3 DEF M

LEMMA TypeStep ==
    ASSUME TokenExpiryAssumption, TypeOK, [Next]_vars
    PROVE  TypeOK'
<1> USE DEF TokenExpiryAssumption, TypeOK
<1>1. CASE Start
    <2>1. deadline' \in Nat /\ due' \in Nat
        <3>1. WarnAfter(TimeUntilExpiry(token)) \in Nat /\ EndOf(token) \in Nat
            BY EndFacts
        <3> QED
            BY <1>1, <3>1 DEF Start
    <2> QED
        BY <1>1, <2>1 DEF Start, socket
<1>2. CASE Reauth
    BY <1>2, PresentedTokens DEF Reauth, socket, timer, aux
<1>3. CASE Accept
    <2>1. due' \in Nat
        BY <1>3, EndFacts, LargerFacts DEF Accept
    <2> QED
        BY <1>3, <2>1, Offered DEF Accept, socket
<1>4. CASE Refuse \/ Ack \/ ReaderEnds
    BY <1>4 DEF Refuse, Ack, ReaderEnds, Return, socket, timer, aux
<1>5. CASE TakeReauth
    <2>1. PICK m \in [of : Token, ttl : Int] :
              /\ m = reauthCh[1] /\ 1 \in 1..Len(reauthCh)
              /\ taken' = m.of
              /\ deadline' = now + WarnAfter(m.ttl)
              /\ reauthCh' = <<>>
              /\ m.of \in Token /\ m.ttl \in Int
        BY <1>5, Taken
    <2>2. WarnAfter(m.ttl) \in Nat
        BY <2>1, WarnFacts
    <2>3. deadline' \in Nat /\ taken' \in Token /\ reauthCh' = <<>>
        BY <2>1, <2>2
    <2> QED
        BY <1>5, <2>3 DEF TakeReauth, socket, reader
<1>6. CASE Warn \/ Warned \/ Expire \/ Stop
    BY <1>6 DEF Warn, Warned, Expire, Stop, socket, reader, aux
<1>7. CASE Stall \/ Tick
    BY SMTT(30), <1>7 DEF Stall, Tick, socket, reader, timer, aux
<1>8. CASE UNCHANGED vars
    BY <1>8 DEF vars, socket, reader, timer, aux
<1> QED
    BY <1>1, <1>2, <1>3, <1>4, <1>5, <1>6, <1>7, <1>8 DEF Next, Handler, Goroutine

LEMMA InitType == ASSUME TokenExpiryAssumption, Init PROVE TypeOK
<1>1. Presented \subseteq Token
    BY DEF Init, TokenExpiryAssumption, Presented, Token
<1> QED
    BY <1>1 DEF Init, TypeOK, TokenExpiryAssumption

-----------------------------------------------------------------------------
LEMMA EndStep ==
    ASSUME TokenExpiryAssumption, EndInv, [Next]_vars
    PROVE  EndInv'
<1> TypeOK /\ TypeOK'
    BY TypeStep DEF EndInv
<1> USE DEF EndInv, TimerCoversToken, Ttl
<1>1. CASE Start
    <2>1. taken' = taken /\ taken = token /\ reauthCh' = <<>> /\ expiry' = "warn"
        BY <1>1 DEF Start
    <2>2. taken # NoExpiry => taken <= deadline' + Grace
        BY <1>1, <2>1, EndFacts DEF Start, TypeOK
    <2> QED
        BY <1>1, <2>1, <2>2 DEF Start, socket
<1>2. CASE Reauth \/ Refuse \/ Ack \/ ReaderEnds
    BY ZenonT(60), <1>2 DEF Reauth, Refuse, Ack, ReaderEnds, Return, socket, timer, aux, TypeOK
<1>3. CASE Accept
    <2>1. \A i \in 1..Len(reauthCh') : Ttl(reauthCh[i])'
        <3> SUFFICES ASSUME NEW i \in 1..Len(reauthCh') PROVE Ttl(reauthCh[i])'
            OBVIOUS
        <3>1. now' = now
            BY <1>3 DEF Accept
        <3>2. CASE reauthCh' = reauthCh /\ i \in 1..Len(reauthCh)
            BY <3>1, <3>2
        <3>3. CASE reauthCh'[i] = [of |-> token, ttl |-> TimeUntilExpiry(token)]
            <4>1. token # NoExpiry => token \in Nat /\ TimeUntilExpiry(token) = token - now
                BY TtlFacts DEF TypeOK
            <4>2. reauthCh'[i].of = token /\ reauthCh'[i].ttl = TimeUntilExpiry(token)
                BY <3>3
            <4>3. token # NoExpiry => token <= now + (token - now)
                BY SMTT(30), <4>1 DEF TypeOK
            <4> QED
                BY <3>1, <4>1, <4>2, <4>3
        <3> QED
            BY <1>3, <3>2, <3>3, Offered DEF Accept
    <2> QED
        BY <1>3, <2>1 DEF Accept, socket
<1>4. CASE TakeReauth
    <2>1. PICK m \in [of : Token, ttl : Int] :
              /\ m = reauthCh[1] /\ 1 \in 1..Len(reauthCh)
              /\ taken' = m.of
              /\ deadline' = now + WarnAfter(m.ttl)
              /\ reauthCh' = <<>>
              /\ m.of \in Token /\ m.ttl \in Int
        BY <1>4, Taken
    <2>2. m.of # NoExpiry => m.of <= now + m.ttl
        BY <2>1
    <2>3. PICK w \in Nat : w = WarnAfter(m.ttl) /\ m.ttl <= w + Grace
        BY <2>1, WarnFacts
    <2>4. taken' # NoExpiry => taken' <= deadline' + Grace
        <3>1. CASE m.of # NoExpiry
            <4>1. PICK t \in Nat : t = m.of
                BY <2>1, <3>1 DEF Token
            <4>2. PICK l \in Int : l = m.ttl
                BY <2>1
            <4>3. t <= now + l /\ l <= w + Grace
                BY <2>2, <2>3, <3>1, <4>1, <4>2
            <4>4. t <= now + w + Grace
                BY <4>3 DEF TypeOK, TokenExpiryAssumption
            <4>5. taken' = t /\ deadline' = now + w
                BY <2>1, <2>3, <4>1
            <4> QED
                BY <4>4, <4>5
        <3> QED
            BY <2>1, <3>1
    <2> QED
        BY <1>4, <2>1, <2>4 DEF TakeReauth, socket, reader
<1>5. CASE Warn
    BY <1>5 DEF Warn, socket, reader, aux, TypeOK, Token, TokenExpiryAssumption
<1>6. CASE Warned
    BY <1>6 DEF Warned, socket, reader, TypeOK, Token, TokenExpiryAssumption
<1>7. CASE Expire \/ Stop
    BY <1>7 DEF Expire, Stop, socket, reader, aux
<1>8. CASE Stall
    BY <1>8 DEF Stall, reader, timer, aux
<1>9. CASE Tick
    <2>1. \A i \in 1..Len(reauthCh) : Ttl(reauthCh[i])'
        <3> SUFFICES ASSUME NEW i \in 1..Len(reauthCh) PROVE Ttl(reauthCh[i])'
            OBVIOUS
        <3>1. reauthCh[i].of \in Token /\ reauthCh[i].ttl \in Int
            BY ChannelTypes
        <3>2. now' = now + 1 /\ reauthCh' = reauthCh
            BY <1>9 DEF Tick, timer
        <3> QED
            BY SMTT(30), <3>1, <3>2 DEF TypeOK, Token
    <2>2. taken # NoExpiry /\ expiry = "writing" => taken <= now' + Grace
        BY <1>9 DEF Tick, TypeOK, Token, TokenExpiryAssumption
    <2> QED
        BY <1>9, <2>1, <2>2 DEF Tick, socket, reader, timer, aux
<1>10. CASE UNCHANGED vars
    BY <1>10 DEF vars, socket, reader, timer, aux
<1> QED
    BY <1>1, <1>2, <1>3, <1>4, <1>5, <1>6, <1>7, <1>8, <1>9, <1>10
    DEF Next, Handler, Goroutine

LEMMA DueStep ==
    ASSUME TokenExpiryAssumption, DueInv, [Next]_vars
    PROVE  DueInv'
<1> EndInv /\ EndInv' /\ TypeOK /\ TypeOK' /\ TimerWithinDue
    BY EndStep DEF DueInv, EndInv
<1> SUFFICES TimerWithinDue'
    BY DEF DueInv
<1>0. /\ now \in Nat /\ due \in Nat /\ waited \in Nat /\ deadline \in Nat /\ Grace \in Nat
      /\ due' \in Nat /\ waited' \in Nat
    BY DEF TypeOK, TokenExpiryAssumption
<1> USE DEF TimerWithinDue
<1>1. CASE Start
    <2>1. reauthCh' = <<>> /\ expiry' = "warn" /\ now' = now
        BY <1>1 DEF Start, EndInv, TimerCoversToken
    <2>2. PICK d \in Nat : d = deadline' /\ d + Grace <= due' /\ now <= due' /\ now <= d
        BY <1>1, EndFacts DEF Start, TypeOK, TokenExpiryAssumption
    <2>3. d + Grace <= due' + waited' /\ now <= due' + waited'
        <3>1. PICK e \in Nat, w \in Nat : e = due' /\ w = waited'
            BY <1>0
        <3>2. d + Grace <= e /\ now <= e
            BY <2>2, <3>1
        <3>3. Grace \in Nat /\ now \in Nat
            BY <1>0
        <3>4. d + Grace <= e + w /\ now <= e + w
            BY <3>2, <3>3
        <3> QED
            BY <3>1, <3>4
    <2>4. \A i \in 1..Len(reauthCh') : FALSE
        BY <2>1
    <2> QED
        BY <2>1, <2>2, <2>3, <2>4
<1>2. CASE Reauth \/ Ack
    BY <1>2 DEF Reauth, Ack, socket, timer, aux
<1>3. CASE Accept
    <2>1. due <= due' /\ EndOf(token) <= due'
        BY <1>3, EndFacts, LargerFacts DEF Accept, TypeOK
    <2>2. now' = now /\ Offer /\ ws' = ws /\ waited' = waited
        BY <1>3 DEF Accept, socket
    <2>3. ASSUME ws # "closed", NEW i \in 1..Len(reauthCh')
          PROVE  now + WarnAfter(reauthCh'[i].ttl) + Grace <= due' + waited
        <3>1. CASE reauthCh' = reauthCh /\ i \in 1..Len(reauthCh)
            <4>1. now + WarnAfter(reauthCh[i].ttl) + Grace <= due + waited
                BY <1>3, <2>3, <3>1 DEF Accept
            <4>3. reauthCh[i].ttl \in Int
                BY <3>1, ChannelTypes
            <4>2. WarnAfter(reauthCh[i].ttl) \in Nat
                BY <4>3, WarnFacts
            <4>4. PICK w \in Nat : w = WarnAfter(reauthCh[i].ttl)
                BY <4>2
            <4>5. now + w + Grace <= due' + waited
                BY SMTT(30), <1>0, <2>1, <4>1, <4>4
            <4> QED
                BY <3>1, <4>4, <4>5
        <3>2. CASE reauthCh'[i] = [of |-> token, ttl |-> TimeUntilExpiry(token)]
            <4>1. now + WarnAfter(TimeUntilExpiry(token)) + Grace <= EndOf(token)
                BY EndFacts DEF TypeOK
            <4>2. WarnAfter(TimeUntilExpiry(token)) \in Nat /\ EndOf(token) \in Nat
                BY EndFacts, WarnFacts, TtlFacts DEF TypeOK
            <4>3. PICK w \in Nat, e \in Nat : w = WarnAfter(TimeUntilExpiry(token)) /\ e = EndOf(token)
                BY <4>2
            <4>4. now + w + Grace <= due' + waited
                BY SMTT(30), <1>0, <2>1, <4>1, <4>3
            <4> QED
                BY <3>2, <4>3, <4>4
        <3> QED
            BY <2>2, <3>1, <3>2, Offered
    <2>4. \A i \in 1..Len(reauthCh') : WarnAfter(reauthCh[i].ttl)' = WarnAfter(reauthCh'[i].ttl)
        BY DEF WarnAfter, Larger
    <2> QED
        BY <1>3, <2>1, <2>2, <2>3, <2>4 DEF Accept, TypeOK, TokenExpiryAssumption
<1>4. CASE Refuse \/ ReaderEnds
    BY <1>4 DEF Refuse, ReaderEnds, Return
<1>5. CASE TakeReauth
    <2>1. PICK m \in [of : Token, ttl : Int] :
              /\ m = reauthCh[1] /\ 1 \in 1..Len(reauthCh)
              /\ taken' = m.of
              /\ deadline' = now + WarnAfter(m.ttl)
              /\ reauthCh' = <<>>
              /\ m.of \in Token /\ m.ttl \in Int
        BY <1>5, Taken
    <2>2. pc # "upgrading" /\ ws # "closed" => now + WarnAfter(m.ttl) + Grace <= due + waited
        BY <2>1
    <2>3. WarnAfter(m.ttl) \in Nat
        BY WarnFacts
    <2>4. PICK w \in Nat : w = WarnAfter(m.ttl)
        BY <2>3
    <2>5. /\ expiry' = "warn" /\ deadline' = now + w /\ reauthCh' = <<>>
          /\ UNCHANGED <<now, ws, pc, due, waited>>
        BY <1>5, <2>1, <2>4 DEF TakeReauth, socket, reader
    <2>6. now <= now + w
        BY <1>0
    <2> QED
        BY <2>2, <2>4, <2>5, <2>6
<1>6. CASE Warn
    BY <1>6 DEF Warn, socket, reader, aux, TypeOK, TokenExpiryAssumption
<1>7. CASE Warned
    BY <1>7 DEF Warned, socket, reader, TypeOK, TokenExpiryAssumption
<1>8. CASE Expire \/ Stop
    BY <1>8 DEF Expire, Stop, socket, reader, aux, EndInv, TimerCoversToken
<1>9. CASE Stall
    BY <1>9 DEF Stall, reader, timer, aux
<1>10. CASE Tick
    <2>1. expiry \in {"warn", "grace"} => now < deadline /\ reauthCh = <<>>
        BY <1>10 DEF Tick, Runnable, TypeOK
    <2>2. CASE expiry = "writing"
        <3>1. now' = now + 1 /\ waited' = waited + 1 /\ UNCHANGED <<expiry, reauthCh, due, ws, pc>>
            BY <1>10, <2>2 DEF Tick, socket, reader, timer
        <3>2. \A i \in 1..Len(reauthCh) : WarnAfter(reauthCh[i].ttl) \in Nat
            BY ChannelTypes, WarnFacts
        <3>3. \A i \in 1..Len(reauthCh) : WarnAfter(reauthCh[i].ttl)' = WarnAfter(reauthCh[i].ttl)
            BY <3>1 DEF WarnAfter, Larger
        <3> QED
            BY SMTT(30), <2>2, <3>1, <3>2, <3>3 DEF TypeOK, TokenExpiryAssumption
    <2>3. CASE expiry # "writing"
        BY <1>10, <2>1, <2>3 DEF Tick, socket, reader, timer, TypeOK, TokenExpiryAssumption
    <2> QED
        BY <2>2, <2>3
<1>11. CASE UNCHANGED vars
    BY <1>11 DEF vars, socket, reader, timer, aux
<1> QED
    BY <1>1, <1>2, <1>3, <1>4, <1>5, <1>6, <1>7, <1>8, <1>9, <1>10, <1>11
    DEF Next, Handler, Goroutine

-----------------------------------------------------------------------------
(* The handler, its channel of one and its goroutine keep their types.        *)
THEOREM TypeCorrect == ASSUME TokenExpiryAssumption PROVE Spec => []TypeOK
<1>1. Init => TypeOK
    BY InitType
<1>2. TypeOK /\ [Next]_vars => TypeOK'
    BY TypeStep
<1> QED
    BY <1>1, <1>2, PTL DEF Spec

(* A connection is closed as expired only when the token its timer was set    *)
(* for has expired, a full grace period after the warning was written.        *)
THEOREM NoEarlyEnd == ASSUME TokenExpiryAssumption PROVE Spec => EndsFairly
<1> DEFINE Fair == expiry' = "done" /\ ctx = "live" =>
                       /\ TimeUntilExpiry(taken) <= 0
                       /\ now - warned >= Grace
<1>1. Init => EndInv
    BY InitType DEF EndInv, Init, TimerCoversToken
<1>2. EndInv /\ [Next]_vars => EndInv'
    BY EndStep
<1>3. EndInv /\ [Next]_vars => [Fair]_vars
    <2> SUFFICES ASSUME EndInv, Next, expiry' = "done", ctx = "live"
                 PROVE  TimeUntilExpiry(taken) <= 0 /\ now - warned >= Grace
        BY DEF EndInv
    <2>1. TypeOK
        BY DEF EndInv
    <2>2. Expire
        BY DEF EndInv, TimerCoversToken, Next, Handler, Goroutine, Start, Reauth, Accept,
               Refuse, Ack, ReaderEnds, Warn, Warned, TakeReauth, Stop, Stall, Tick, timer
    <2>3. taken # NoExpiry => taken <= now
        BY <2>1, <2>2 DEF Expire, EndInv, TimerCoversToken, TypeOK, Token
    <2>4. warned + Grace <= now
        BY <2>1, <2>2 DEF Expire, EndInv, TimerCoversToken, TypeOK, TokenExpiryAssumption
    <2> QED
        BY <2>1, <2>3, <2>4 DEF TimeUntilExpiry, TypeOK, TokenExpiryAssumption, Token
<1> QED
    BY <1>1, <1>2, <1>3, PTL DEF Spec, EndsFairly

(* A connection is not open past the end its tokens and the grace period      *)
(* allow and the time its peer did not read the warnings.                     *)
THEOREM ClosesInTime ==
    ASSUME TokenExpiryAssumption PROVE Spec => []ClosedInTime
<1>1. Init => DueInv
    BY InitType DEF DueInv, EndInv, Init, TimerCoversToken, TimerWithinDue
<1>2. DueInv /\ [Next]_vars => DueInv'
    BY DueStep
<1>3. DueInv => ClosedInTime
    BY DEF DueInv, TimerWithinDue, ClosedInTime
<1> QED
    BY <1>1, <1>2, <1>3, PTL DEF Spec
=============================================================================
