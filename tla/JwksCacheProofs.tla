--------------------------- MODULE JwksCacheProofs ---------------------------
(* For any keys, tokens, lifetimes and number of concurrent validations: what *)
(* the cache accepts was published, and what it refuses was not good, within  *)
(* the cache's lifetime and one fetch.                                        *)
EXTENDS JwksCache, TLAPS

(* A fetch under way began at most MaxFlight ago, and the second look at the  *)
(* cache follows an install at once.                                          *)
InFlight ==
    \A v \in Validations :
        /\ pc[v] \in {"asking", "answered"} =>
               asked[v] <= now /\ now - asked[v] <= MaxFlight
        /\ pc[v] = "lookup" => fetched = now

(* The keys of an answer were published when it was asked for or later; those *)
(* of the cache at most one fetch before they were installed.                 *)
KeysWerePublished ==
    /\ \A k \in Keys : lastSeen[k] <= now
    /\ \A i \in Kids : published[i] \in Keys => lastSeen[published[i]] = now
    /\ \A v \in Validations, i \in Kids :
           pc[v] = "answered" /\ answer[v][i] \in Keys => asked[v] <= lastSeen[answer[v][i]]
    /\ \A i \in Kids :
           rsaKeys[i] \in Keys => fetched - lastSeen[rsaKeys[i]] <= MaxFlight
    /\ WithdrawnKeysExpire

(* The same of the tokens that the published keys, an answer or the cache     *)
(* refuse.                                                                    *)
RefusalsWereRight ==
    /\ \A t \in Tokens : lastBad[t] <= now
    /\ \A t \in Tokens : Pick(published, t.kid) # t.key => lastBad[t] = now
    /\ \A v \in Validations, t \in Tokens :
           pc[v] = "answered" /\ Pick(answer[v], t.kid) # t.key => asked[v] <= lastBad[t]
    /\ \A t \in Tokens :
           Pick(rsaKeys, t.kid) # t.key => fetched - lastBad[t] <= MaxFlight
    /\ SettledTokensPass

SeenInv == TypeOK /\ InFlight /\ KeysWerePublished
BadInv  == TypeOK /\ InFlight /\ RefusalsWereRight

-----------------------------------------------------------------------------
(* The key for a token is one of the set's, and for a key id the set has, the *)
(* one under it.                                                              *)
LEMMA PickFacts ==
    ASSUME JwksCacheAssumption, NEW s \in KeySet, NEW i \in Kids
    PROVE  /\ Pick(s, i) \in Keys \union {NoKey}
           /\ Pick(s, i) \in Keys => \E j \in Kids : s[j] = Pick(s, i)
           /\ Has(s, i) => Pick(s, i) = s[i]
<1>1. CASE Has(s, i)
    BY <1>1 DEF Pick, KeySet
<1>2. CASE ~Has(s, i) /\ i = NoKid /\ \E k \in Kids : \A j \in Kids : Has(s, j) <=> j = k
    <2> DEFINE c == CHOOSE k \in Kids : Has(s, k)
    <2>1. c \in Kids
        BY <1>2
    <2>2. Pick(s, i) = s[c]
        BY <1>2 DEF Pick
    <2> HIDE DEF c
    <2> QED
        BY <1>2, <2>1, <2>2 DEF KeySet
<1>3. CASE ~Has(s, i) /\ ~(i = NoKid /\ \E k \in Kids : \A j \in Kids : Has(s, j) <=> j = k)
    <2>1. Pick(s, i) = NoKey
        BY <1>3 DEF Pick
    <2> QED
        BY <1>3, <2>1 DEF JwksCacheAssumption
<1> QED
    BY <1>1, <1>2, <1>3

(* An answer has keys of the published set only.                              *)
LEMMA AnswerFacts ==
    ASSUME JwksCacheAssumption, TypeOK, NEW a \in Answers
    PROVE  /\ a \in KeySet
           /\ \A i \in Kids : a[i] \in Keys => published[i] = a[i]
           /\ ~Garbles => a = published
<1>1. CASE a = published
    BY <1>1 DEF TypeOK
<1>2. CASE Garbles /\ a # published
    <2>1. PICK S \in SUBSET Kids :
              a = [k \in Kids |-> IF k \in S THEN published[k] ELSE NoKey]
        BY <1>2 DEF Answers
    <2> QED
        BY <1>2, <2>1 DEF TypeOK, KeySet, JwksCacheAssumption
<1>3. Garbles \/ a = published
    BY DEF Answers
<1> QED
    BY <1>1, <1>2, <1>3

(* Every way a call ends is an outcome.                                       *)
LEMMA OutcomeType ==
    ASSUME TypeOK, NEW t \in Tokens, NEW k,
           NEW via \in {"cache", "refresh", "fallback", "error"}
    PROVE  Ended(t, k, via) \in Outcome
BY DEF Ended, Outcome, TypeOK

LEMMA TypeStep ==
    ASSUME JwksCacheAssumption, TypeOK, [Next]_vars
    PROVE  TypeOK'
<1> USE DEF TypeOK
<1>1. ASSUME NEW v \in Validations, NEW t \in Tokens, Begin(v, t)
      PROVE  TypeOK'
    <2>1. t.kid \in Kids /\ t.key \in Keys
        BY DEF JwksCacheAssumption
    <2>2. CASE Hit(v, t)
        <3>1. outcome' \in Outcome
            BY <2>2, OutcomeType DEF Hit
        <3> QED
            BY <1>1, <2>2, <3>1 DEF Begin, Hit, issuer, cache
    <2>3. CASE Miss(v, t)
        <3>1. rsaKeys[t.kid] \in Keys \union {NoKey}
            BY <2>1 DEF KeySet
        <3> QED
            BY <1>1, <2>3, <3>1 DEF Begin, Miss, issuer, cache
    <2> QED
        BY <1>1, <2>2, <2>3 DEF Begin
<1>2. ASSUME NEW v \in Validations, Answer(v)
      PROVE  TypeOK'
    <2>1. PICK a \in Answers : answer' = [answer EXCEPT ![v] = a]
        BY <1>2 DEF Answer
    <2>2. a \in KeySet
        BY AnswerFacts
    <2> QED
        BY <1>2, <2>1, <2>2 DEF Answer, issuer, cache
<1>3. ASSUME NEW v \in Validations, Return(v), outcome' \in Outcome
      PROVE  TypeOK'
    <2>1. NoKeys \in KeySet
        BY DEF NoKeys, KeySet
    <2> QED
        BY <1>3, <2>1 DEF Return, issuer, cache
<1>4. ASSUME NEW v \in Validations, FetchFails(v)
      PROVE  TypeOK'
    <2>1. token[v] \in Tokens
        OBVIOUS
    <2>2. outcome' \in Outcome
        BY <1>4, <2>1, OutcomeType DEF FetchFails
    <2> QED
        BY <1>3, <1>4, <2>2 DEF FetchFails
<1>5. ASSUME NEW v \in Validations, Install(v)
      PROVE  TypeOK'
    BY <1>5 DEF Install, issuer
<1>6. ASSUME NEW v \in Validations, Lookup(v)
      PROVE  TypeOK'
    <2>1. token[v] \in Tokens
        OBVIOUS
    <2>2. outcome' \in Outcome
        BY <1>6, <2>1, OutcomeType DEF Lookup
    <2> QED
        BY <1>3, <1>6, <2>2 DEF Lookup
<1>7. CASE Rotate
    BY <1>7 DEF Rotate, cache, caller, JwksCacheAssumption, KeySet
<1>8. CASE Tick
    BY <1>8 DEF Tick, cache, caller
<1>9. CASE UNCHANGED vars
    BY <1>9 DEF vars, issuer, cache, caller
<1> QED
    BY <1>1, <1>2, <1>4, <1>5, <1>6, <1>7, <1>8, <1>9 DEF Next, Validate

LEMMA FlightStep ==
    ASSUME JwksCacheAssumption, TypeOK, InFlight, [Next]_vars
    PROVE  InFlight'
<1> USE DEF InFlight, TypeOK
<1>1. ASSUME NEW v \in Validations, NEW t \in Tokens, Begin(v, t)
      PROVE  InFlight'
    BY <1>1 DEF Begin, Hit, Miss, cache, JwksCacheAssumption
<1>2. ASSUME NEW v \in Validations, Answer(v)
      PROVE  InFlight'
    BY <1>2 DEF Answer, cache
<1>3. ASSUME NEW v \in Validations, FetchFails(v) \/ Lookup(v)
      PROVE  InFlight'
    BY <1>3 DEF FetchFails, Lookup, Return, cache
<1>4. ASSUME NEW v \in Validations, Install(v)
      PROVE  InFlight'
    BY <1>4 DEF Install
<1>5. CASE Rotate
    BY <1>5 DEF Rotate, cache, caller
<1>6. CASE Tick
    BY <1>6 DEF Tick, cache, caller, JwksCacheAssumption
<1>7. CASE UNCHANGED vars
    BY <1>7 DEF vars, cache, caller
<1> QED
    BY <1>1, <1>2, <1>3, <1>4, <1>5, <1>6, <1>7 DEF Next, Validate

LEMMA InitTypes ==
    ASSUME JwksCacheAssumption, Init PROVE TypeOK /\ InFlight
<1>1. (CHOOSE t \in Tokens : TRUE) \in Tokens
    BY DEF JwksCacheAssumption
<1>2. NoKeys \in KeySet
    BY DEF NoKeys, KeySet
<1>3. now = 0 /\ outcome \in Outcome
    BY <1>1 DEF Init, Ended, Outcome
<1>4. fetched \in Int /\ lastSeen \in [Keys -> Int] /\ lastBad \in [Tokens -> Int]
    BY DEF Init, JwksCacheAssumption, Horizon
<1> QED
    BY <1>1, <1>2, <1>3, <1>4 DEF Init, TypeOK, InFlight, JwksCacheAssumption, KeySet

-----------------------------------------------------------------------------
(* A call's end is told by the token, the key and the way it got it.          *)
LEMMA EndedFacts ==
    ASSUME NEW t, NEW k, NEW via
    PROVE  /\ Ended(t, k, via).token = t /\ Ended(t, k, via).via = via
           /\ Ended(t, k, via).at = now
           /\ Ended(t, k, via).verdict = "accepted" <=> k = t.key
           /\ Ended(t, k, via).verdict = "refused" <=> k # t.key
BY DEF Ended

LEMMA SeenStep ==
    ASSUME JwksCacheAssumption, SeenInv, [Next]_vars
    PROVE  SeenInv'
<1> TypeOK /\ InFlight /\ TypeOK' /\ InFlight' /\ KeysWerePublished
    BY TypeStep, FlightStep DEF SeenInv
<1> SUFFICES KeysWerePublished'
    BY DEF SeenInv
<1> USE DEF KeysWerePublished
<1>1. ASSUME NEW v \in Validations, NEW t \in Tokens, Begin(v, t)
      PROVE  KeysWerePublished'
    <2>1. t.kid \in Kids /\ t.key \in Keys
        BY DEF JwksCacheAssumption
    <2>2. CASE Hit(v, t)
        <3>1. outcome'.verdict = "accepted" =>
                  outcome'.at - lastSeen[outcome'.token.key] <= Horizon
            <4>1. rsaKeys[t.kid] = t.key => now - fetched <= CacheTTL
                BY <2>2 DEF Hit, Stale, TypeOK, JwksCacheAssumption
            <4>2. rsaKeys[t.kid] = t.key => fetched - lastSeen[t.key] <= MaxFlight
                BY <2>1
            <4>3. rsaKeys[t.kid] = t.key => now - lastSeen[t.key] <= Horizon
                BY <2>1, <4>1, <4>2 DEF TypeOK, Horizon, JwksCacheAssumption
            <4> QED
                BY <2>2, <4>3, EndedFacts DEF Hit
        <3> QED
            BY <1>1, <2>2, <3>1 DEF Begin, Hit, issuer, cache, WithdrawnKeysExpire
    <2>3. CASE Miss(v, t)
        BY <1>1, <2>3 DEF Begin, Miss, issuer, cache, WithdrawnKeysExpire, TypeOK
    <2> QED
        BY <1>1, <2>2, <2>3 DEF Begin
<1>2. ASSUME NEW v \in Validations, Answer(v)
      PROVE  KeysWerePublished'
    <2>1. PICK a \in Answers : answer' = [answer EXCEPT ![v] = a]
        BY <1>2 DEF Answer
    <2>2. \A i \in Kids : a[i] \in Keys => asked[v] <= lastSeen[a[i]]
        BY <1>2, AnswerFacts DEF Answer, InFlight
    <2> QED
        BY <1>2, <2>1, <2>2 DEF Answer, issuer, cache, WithdrawnKeysExpire, TypeOK
<1>3. ASSUME NEW v \in Validations, FetchFails(v)
      PROVE  KeysWerePublished'
    <2>1. outcome'.via \in {"fallback", "error"}
        BY <1>3, EndedFacts DEF FetchFails
    <2> QED
        BY <1>3, <2>1 DEF FetchFails, Return, issuer, cache, WithdrawnKeysExpire, TypeOK
<1>4. ASSUME NEW v \in Validations, Install(v)
      PROVE  KeysWerePublished'
    <2>1. \A i \in Kids : answer[v][i] \in Keys => now - lastSeen[answer[v][i]] <= MaxFlight
        BY <1>4 DEF Install, InFlight, TypeOK, JwksCacheAssumption
    <2> QED
        BY <1>4, <2>1 DEF Install, issuer, WithdrawnKeysExpire, TypeOK
<1>5. ASSUME NEW v \in Validations, Lookup(v)
      PROVE  KeysWerePublished'
    <2> DEFINE t == token[v]
               k == Pick(rsaKeys, t.kid)
    <2>1. t \in Tokens /\ t.kid \in Kids /\ t.key \in Keys
        BY DEF TypeOK, JwksCacheAssumption
    <2>2. k = t.key => \E j \in Kids : rsaKeys[j] = t.key
        <3>1. rsaKeys \in KeySet
            BY DEF TypeOK
        <3> QED
            BY <2>1, <3>1, PickFacts
    <2>3. fetched = now
        BY <1>5 DEF Lookup, InFlight
    <2>4. k = t.key => now - lastSeen[t.key] <= Horizon
        BY <2>1, <2>2, <2>3 DEF TypeOK, Horizon, JwksCacheAssumption
    <2>5. outcome' = Ended(t, k, "refresh")
        BY <1>5 DEF Lookup
    <2>6. /\ outcome'.verdict = "accepted" => k = t.key
          /\ outcome'.at = now /\ outcome'.token = t
        BY <2>5, EndedFacts
    <2> HIDE DEF t, k
    <2> QED
        BY <1>5, <2>4, <2>6 DEF Lookup, Return, issuer, cache, WithdrawnKeysExpire, TypeOK
<1>6. CASE Rotate \/ Tick
    <2>1. /\ \A x \in Keys : lastSeen[x] <= lastSeen'[x] /\ lastSeen'[x] <= now'
          /\ \A i \in Kids : published'[i] \in Keys => lastSeen'[published'[i]] = now'
        <3>1. /\ now' \in {now, now + 1}
              /\ lastSeen' = [x \in Keys |->
                     IF \E i \in Kids : published'[i] = x THEN now' ELSE lastSeen[x]]
            BY <1>6 DEF Rotate, Tick
        <3> QED
            BY <3>1 DEF TypeOK
    <2>2. UNCHANGED <<cache, caller, outcome>>
        BY <1>6 DEF Rotate, Tick
    <2>3. \A i \in Kids : rsaKeys[i] \in Keys => fetched - lastSeen'[rsaKeys[i]] <= MaxFlight
        <3> SUFFICES ASSUME NEW i \in Kids, rsaKeys[i] \in Keys
                     PROVE  fetched - lastSeen'[rsaKeys[i]] <= MaxFlight
            OBVIOUS
        <3>1. fetched - lastSeen[rsaKeys[i]] <= MaxFlight
            OBVIOUS
        <3> QED
            BY <2>1, <3>1 DEF TypeOK, JwksCacheAssumption
    <2>4. ASSUME NEW v \in Validations, NEW i \in Kids,
                 pc[v] = "answered", answer[v][i] \in Keys
          PROVE  asked[v] <= lastSeen'[answer[v][i]]
        BY <2>1, <2>4 DEF TypeOK
    <2>5. ASSUME outcome.verdict = "accepted", outcome.via \in {"cache", "refresh"}
          PROVE  outcome.at - lastSeen'[outcome.token.key] <= Horizon
        <3>1. outcome.token.key \in Keys /\ outcome.at \in Nat
            BY DEF TypeOK, Outcome, JwksCacheAssumption
        <3>2. outcome.at - lastSeen[outcome.token.key] <= Horizon
            BY <2>5 DEF WithdrawnKeysExpire
        <3> QED
            BY <2>1, <3>1, <3>2 DEF TypeOK, Horizon, JwksCacheAssumption
    <2> QED
        BY <2>1, <2>2, <2>3, <2>4, <2>5 DEF cache, caller, WithdrawnKeysExpire, Horizon
<1>7. CASE UNCHANGED vars
    BY <1>7 DEF vars, issuer, cache, caller, WithdrawnKeysExpire
<1> QED
    BY <1>1, <1>2, <1>3, <1>4, <1>5, <1>6, <1>7 DEF Next, Validate

LEMMA BadStep ==
    ASSUME JwksCacheAssumption, ~Garbles, BadInv, [Next]_vars
    PROVE  BadInv'
<1> TypeOK /\ InFlight /\ TypeOK' /\ InFlight' /\ RefusalsWereRight
    BY TypeStep, FlightStep DEF BadInv
<1> SUFFICES RefusalsWereRight'
    BY DEF BadInv
<1> USE DEF RefusalsWereRight
<1>1. ASSUME NEW v \in Validations, NEW t \in Tokens, Begin(v, t)
      PROVE  RefusalsWereRight'
    <2>1. t.kid \in Kids /\ rsaKeys \in KeySet
        BY DEF JwksCacheAssumption, TypeOK
    <2>2. CASE Hit(v, t)
        <3>1. Pick(rsaKeys, t.kid) = rsaKeys[t.kid]
            BY <2>1, <2>2, PickFacts DEF Hit
        <3>2. rsaKeys[t.kid] # t.key => now - lastBad[t] <= Horizon
            <4>1. now - fetched <= CacheTTL
                BY <2>2 DEF Hit, Stale, TypeOK, JwksCacheAssumption
            <4>2. rsaKeys[t.kid] # t.key => fetched - lastBad[t] <= MaxFlight
                BY <3>1
            <4> QED
                BY <4>1, <4>2 DEF TypeOK, Horizon, JwksCacheAssumption
        <3>3. outcome'.verdict = "refused" => outcome'.at - lastBad[outcome'.token] <= Horizon
            BY <2>2, <3>2, EndedFacts DEF Hit
        <3> QED
            BY <1>1, <2>2, <3>3 DEF Begin, Hit, issuer, cache, SettledTokensPass
    <2>3. CASE Miss(v, t)
        BY <1>1, <2>3 DEF Begin, Miss, issuer, cache, SettledTokensPass, TypeOK
    <2> QED
        BY <1>1, <2>2, <2>3 DEF Begin
<1>2. ASSUME NEW v \in Validations, Answer(v)
      PROVE  RefusalsWereRight'
    <2>1. PICK a \in Answers : answer' = [answer EXCEPT ![v] = a]
        BY <1>2 DEF Answer
    <2>2. a = published
        BY AnswerFacts
    <2>3. \A t \in Tokens : Pick(a, t.kid) # t.key => asked[v] <= lastBad[t]
        BY <1>2, <2>2 DEF Answer, InFlight
    <2> QED
        BY <1>2, <2>1, <2>3 DEF Answer, issuer, cache, SettledTokensPass, TypeOK
<1>3. ASSUME NEW v \in Validations, FetchFails(v)
      PROVE  RefusalsWereRight'
    <2>1. outcome'.via \in {"fallback", "error"}
        BY <1>3, EndedFacts DEF FetchFails
    <2> QED
        BY <1>3, <2>1 DEF FetchFails, Return, issuer, cache, SettledTokensPass, TypeOK
<1>4. ASSUME NEW v \in Validations, Install(v)
      PROVE  RefusalsWereRight'
    <2>1. \A t \in Tokens : Pick(answer[v], t.kid) # t.key => now - lastBad[t] <= MaxFlight
        BY <1>4 DEF Install, InFlight, TypeOK, JwksCacheAssumption
    <2> QED
        BY <1>4, <2>1 DEF Install, issuer, SettledTokensPass, TypeOK
<1>5. ASSUME NEW v \in Validations, Lookup(v)
      PROVE  RefusalsWereRight'
    <2> DEFINE t == token[v]
               k == Pick(rsaKeys, t.kid)
    <2>1. t \in Tokens
        BY DEF TypeOK
    <2>2. fetched = now
        BY <1>5 DEF Lookup, InFlight
    <2>3. k # t.key => now - lastBad[t] <= Horizon
        BY <2>1, <2>2 DEF TypeOK, Horizon, JwksCacheAssumption
    <2>4. outcome' = Ended(t, k, "refresh")
        BY <1>5 DEF Lookup
    <2>5. /\ outcome'.verdict = "refused" => k # t.key
          /\ outcome'.at = now /\ outcome'.token = t
        BY <2>4, EndedFacts
    <2> HIDE DEF t, k
    <2> QED
        BY <1>5, <2>3, <2>5 DEF Lookup, Return, issuer, cache, SettledTokensPass, TypeOK
<1>6. CASE Rotate \/ Tick
    <2>1. \A t \in Tokens :
              /\ lastBad[t] <= lastBad'[t] /\ lastBad'[t] <= now'
              /\ Pick(published', t.kid) # t.key => lastBad'[t] = now'
        <3>1. CASE Rotate
            BY <3>1 DEF Rotate, TypeOK
        <3>2. CASE Tick
            BY <3>2 DEF Tick, TypeOK
        <3> QED
            BY <1>6, <3>1, <3>2
    <2>2. UNCHANGED <<cache, caller, outcome>>
        BY <1>6 DEF Rotate, Tick
    <2>3. ASSUME NEW t \in Tokens, Pick(rsaKeys, t.kid) # t.key
          PROVE  fetched - lastBad'[t] <= MaxFlight
        BY <2>1, <2>3 DEF TypeOK, JwksCacheAssumption
    <2>4. ASSUME NEW v \in Validations, NEW t \in Tokens,
                 pc[v] = "answered", Pick(answer[v], t.kid) # t.key
          PROVE  asked[v] <= lastBad'[t]
        BY <2>1, <2>4 DEF TypeOK
    <2>5. ASSUME outcome.verdict = "refused", outcome.via \in {"cache", "refresh"}
          PROVE  outcome.at - lastBad'[outcome.token] <= Horizon
        <3>1. outcome.token \in Tokens /\ outcome.at \in Nat
            BY DEF TypeOK, Outcome
        <3>2. outcome.at - lastBad[outcome.token] <= Horizon
            BY <2>5 DEF SettledTokensPass
        <3> QED
            BY <2>1, <3>1, <3>2 DEF TypeOK, Horizon, JwksCacheAssumption
    <2> QED
        BY <2>1, <2>2, <2>3, <2>4, <2>5 DEF cache, caller, SettledTokensPass, Horizon
<1>7. CASE UNCHANGED vars
    BY <1>7 DEF vars, issuer, cache, caller, SettledTokensPass
<1> QED
    BY <1>1, <1>2, <1>3, <1>4, <1>5, <1>6, <1>7 DEF Next, Validate

-----------------------------------------------------------------------------
(* The cache, its validations and their outcomes keep their types.            *)
THEOREM TypeCorrect == ASSUME JwksCacheAssumption PROVE Spec => []TypeOK
<1>1. Init => TypeOK
    BY InitTypes
<1>2. TypeOK /\ [Next]_vars => TypeOK'
    BY TypeStep
<1> QED
    BY <1>1, <1>2, PTL DEF Spec

(* However validations, late and garbled answers and rotations interleave, a  *)
(* key is not accepted from a refreshed cache later than the cache's lifetime *)
(* and one fetch after it was last published.                                 *)
THEOREM KeysExpire == ASSUME JwksCacheAssumption PROVE Spec => []WithdrawnKeysExpire
<1>1. Init => SeenInv
    <2> SUFFICES ASSUME Init PROVE SeenInv
        OBVIOUS
    <2>1. TypeOK /\ InFlight
        BY InitTypes
    <2>2. \A i \in Kids : rsaKeys[i] = NoKey
        BY DEF Init, NoKeys
    <2>3. outcome.via = "error"
        BY EndedFacts DEF Init
    <2>4. \A i \in Kids : published[i] \in Keys => lastSeen[published[i]] = now
        BY DEF Init
    <2>5. \A k \in Keys : lastSeen[k] <= now
        BY DEF Init, Horizon, JwksCacheAssumption
    <2>6. \A v \in Validations : pc[v] = "idle"
        BY DEF Init
    <2> QED
        BY <2>1, <2>2, <2>3, <2>4, <2>5, <2>6
        DEF SeenInv, KeysWerePublished, WithdrawnKeysExpire, JwksCacheAssumption
<1>2. SeenInv /\ [Next]_vars => SeenInv'
    BY SeenStep
<1>3. SeenInv => WithdrawnKeysExpire
    BY DEF SeenInv, KeysWerePublished
<1> QED
    BY <1>1, <1>2, <1>3, PTL DEF Spec

(* As long as answers are complete, a token the published keys have been good *)
(* for that long is not refused by a cache that could be refreshed.           *)
THEOREM TokensSettle ==
    ASSUME JwksCacheAssumption, ~Garbles PROVE Spec => []SettledTokensPass
<1>1. Init => BadInv
    <2> SUFFICES ASSUME Init PROVE BadInv
        OBVIOUS
    <2>1. TypeOK /\ InFlight
        BY InitTypes
    <2>2. outcome.via = "error"
        BY EndedFacts DEF Init
    <2>3. \A t \in Tokens : Pick(published, t.kid) # t.key => lastBad[t] = now
        BY DEF Init
    <2>4. \A t \in Tokens : lastBad[t] <= now /\ fetched - lastBad[t] <= MaxFlight
        BY DEF Init, Horizon, JwksCacheAssumption
    <2>5. \A v \in Validations : pc[v] = "idle"
        BY DEF Init
    <2> QED
        BY <2>1, <2>2, <2>3, <2>4, <2>5 DEF BadInv, RefusalsWereRight, SettledTokensPass
<1>2. BadInv /\ [Next]_vars => BadInv'
    BY BadStep
<1>3. BadInv => SettledTokensPass
    BY DEF BadInv, RefusalsWereRight
<1> QED
    BY <1>1, <1>2, <1>3, PTL DEF Spec
=============================================================================
