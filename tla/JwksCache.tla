------------------------------ MODULE JwksCache ------------------------------
(* The validator's cache of the issuer's public keys (jwt.go): validations    *)
(* that run concurrently read it, fetch the key set and install what they     *)
(* got, while the issuer changes its keys, answers late, answers with an      *)
(* error or not at all.                                                       *)
(*                                                                            *)
(* A key set is a function on key ids, NoKey where it has no key.  A token is *)
(* the key id in its header and the key that signed it; its claims are left   *)
(* to TokenExpiry.  HS256 tokens need no cache.                               *)
EXTENDS Integers

CONSTANTS
    Validations,   (* calls of Validate that may run at a time                *)
    Kids,          (* key ids                                                 *)
    NoKid,         (* the empty one, of tokens and keys without               *)
    Keys,          (* public keys                                             *)
    NoKey,         (* absence of a key                                        *)
    KeySets,       (* the key sets the issuer may publish                     *)
    CacheTTL,      (* jwksCacheTTL, five minutes in the code                  *)
    Tokens,        (* bound: the tokens presented                             *)
    MaxFlight,     (* how long a fetch may take                               *)
    Garbles,       (* answers may lack keys, or be an error's JSON document   *)
    MaxTime,       (* bound: the clock stops here                             *)
    MaxRotations,  (* bound: changes of the published key set                 *)
    MaxCalls       (* bound: calls each validation makes, one after another   *)

ASSUME JwksCacheAssumption ==
    /\ NoKid \in Kids
    /\ NoKey \notin Keys
    /\ KeySets \subseteq [Kids -> Keys \union {NoKey}]
    /\ Tokens \subseteq [kid : Kids, key : Keys] /\ Tokens # {}
    /\ CacheTTL \in Nat /\ MaxFlight \in Nat
    /\ Garbles \in BOOLEAN
    /\ MaxTime \in Nat /\ MaxRotations \in Nat /\ MaxCalls \in Nat

KeySet == [Kids -> Keys \union {NoKey}]
NoKeys == [k \in Kids |-> NoKey]

(* A key that is gone for this long is out of every cache and answer. *)
Horizon == CacheTTL + MaxFlight

VARIABLES
    now,        (* the clock                                                  *)
    published,  (* the issuer's key set                                       *)
    rotations,  (* how often it has changed                                   *)
    rsaKeys,    (* Validator.rsaKeys                                          *)
    fetched,    (* Validator.fetched                                          *)
    pc,         (* each validation: idle, asking, answered, lookup            *)
    calls,      (* how many calls each has begun                              *)
    token,      (* the token it validates                                     *)
    key,        (* the key the cache had for it when it began                 *)
    asked,      (* when it began to fetch                                     *)
    answer,     (* the key set it was answered with                           *)
    outcome,    (* how the last call that ended did                           *)
    lastSeen,   (* auxiliary: when each key was published last                *)
    lastBad     (* auxiliary: when the published set last refused each token  *)

issuer == <<published, rotations, lastSeen, lastBad>>
cache  == <<rsaKeys, fetched>>
caller == <<pc, calls, token, key, asked, answer>>
vars   == <<now, issuer, cache, caller, outcome>>

Outcome ==
    [token : Tokens, verdict : {"accepted", "refused"},
     via : {"cache", "refresh", "fallback", "error"}, at : Nat]

-----------------------------------------------------------------------------
Has(set, k) == set[k] # NoKey

(* The key for a key id; for none, the sole key if there is exactly one. *)
Pick(set, kid) ==
    IF Has(set, kid) THEN set[kid]
    ELSE IF kid = NoKid /\ \E k \in Kids : \A j \in Kids : Has(set, j) <=> j = k
         THEN set[CHOOSE k \in Kids : Has(set, k)]
         ELSE NoKey

(* Slip: the cache is checked for its age on a miss only. *)
StaleNever == FALSE
Stale == now - fetched > CacheTTL

(* A call with token t that obtains key k ends: the signature fits or not. *)
Ended(t, k, via) ==
    [token |-> t, verdict |-> IF k = t.key THEN "accepted" ELSE "refused",
     via |-> via, at |-> now]

-----------------------------------------------------------------------------
Init ==
    /\ now = 0
    /\ published \in KeySets
    /\ rotations = 0
    /\ rsaKeys = NoKeys
    /\ fetched = -1 - CacheTTL    (* time.Time{}: long ago *)
    /\ pc = [v \in Validations |-> "idle"]
    /\ calls = [v \in Validations |-> 0]
    /\ token = [v \in Validations |-> CHOOSE t \in Tokens : TRUE]    (* none yet *)
    /\ key = [v \in Validations |-> NoKey]
    /\ asked = [v \in Validations |-> 0]
    /\ answer = [v \in Validations |-> NoKeys]
    /\ outcome = Ended(CHOOSE t \in Tokens : TRUE, NoKey, "error")    (* none yet *)
    /\ lastSeen = [k \in Keys |->
           IF \E i \in Kids : published[i] = k THEN 0 ELSE -1 - Horizon]
    /\ lastBad = [t \in Tokens |->
           IF Pick(published, t.kid) = t.key THEN -1 - Horizon ELSE 0]

(* rsaKey's first look at the cache. *)
Hit(v, t) ==
    /\ Has(rsaKeys, t.kid) /\ ~Stale
    /\ outcome' = Ended(t, rsaKeys[t.kid], "cache")
    /\ UNCHANGED <<pc, key, asked>>

Miss(v, t) ==
    /\ ~Has(rsaKeys, t.kid) \/ Stale
    /\ pc' = [pc EXCEPT ![v] = "asking"]
    /\ key' = [key EXCEPT ![v] = rsaKeys[t.kid]]
    /\ asked' = [asked EXCEPT ![v] = now]
    /\ UNCHANGED outcome

Begin(v, t) ==
    /\ pc[v] = "idle"
    /\ calls[v] < MaxCalls
    /\ calls' = [calls EXCEPT ![v] = @ + 1]
    /\ token' = [token EXCEPT ![v] = t]
    /\ Hit(v, t) \/ Miss(v, t)
    /\ UNCHANGED <<now, issuer, cache, answer>>

(* What the issuer, asked now, may answer: its key set, or, with keys that    *)
(* jwkToRSA cannot read or a body that is not a key set, less.                *)
Answers ==
    {published} \union
    IF Garbles
    THEN {[k \in Kids |-> IF k \in S THEN published[k] ELSE NoKey] : S \in SUBSET Kids}
    ELSE {}

Answer(v) ==
    /\ pc[v] = "asking"
    /\ pc' = [pc EXCEPT ![v] = "answered"]
    /\ answer' \in {[answer EXCEPT ![v] = a] : a \in Answers}
    /\ UNCHANGED <<now, issuer, cache, calls, token, key, asked, outcome>>

(* The call returns, its variables are gone. *)
Return(v) ==
    /\ pc' = [pc EXCEPT ![v] = "idle"]
    /\ key' = [key EXCEPT ![v] = NoKey]
    /\ asked' = [asked EXCEPT ![v] = 0]
    /\ answer' = [answer EXCEPT ![v] = NoKeys]
    /\ UNCHANGED <<now, issuer, cache, calls, token>>

(* fetchJWKS fails: no connection, a broken body, no JSON, a cancelled call.  *)
FetchFails(v) ==
    /\ pc[v] \in {"asking", "answered"}
    /\ Return(v)
    /\ outcome' = Ended(token[v], key[v], IF key[v] # NoKey THEN "fallback" ELSE "error")

(* Slip: keys once known are kept. *)
InstallMerged(v) ==
    /\ pc[v] = "answered"
    /\ pc' = [pc EXCEPT ![v] = "lookup"]
    /\ rsaKeys' = [k \in Kids |-> IF Has(answer[v], k) THEN answer[v][k] ELSE rsaKeys[k]]
    /\ fetched' = now
    /\ UNCHANGED <<now, issuer, calls, token, key, asked, answer, outcome>>
(* fetchJWKS replaces the cache, whatever it has been replaced with meanwhile. *)
Install(v) ==
    /\ pc[v] = "answered"
    /\ pc' = [pc EXCEPT ![v] = "lookup"]
    /\ rsaKeys' = answer[v]
    /\ fetched' = now
    /\ UNCHANGED <<now, issuer, calls, token, key, asked, answer, outcome>>

(* rsaKey's second look at the cache, which need not hold its own answer. *)
Lookup(v) ==
    /\ pc[v] = "lookup"
    /\ Return(v)
    /\ outcome' = Ended(token[v], Pick(rsaKeys, token[v].kid), "refresh")

(* The issuer publishes another key set. *)
Rotate ==
    /\ rotations < MaxRotations
    /\ rotations' = rotations + 1
    /\ published' \in KeySets \ {published}
    /\ lastSeen' = [k \in Keys |->
           IF \E i \in Kids : published'[i] = k THEN now ELSE lastSeen[k]]
    /\ lastBad' = [t \in Tokens |->
           IF Pick(published', t.kid) = t.key THEN lastBad[t] ELSE now]
    /\ UNCHANGED <<now, cache, caller, outcome>>

(* Time passes: not within rsaKey after its fetch, and no fetch takes longer  *)
(* than MaxFlight.                                                            *)
Tick ==
    /\ now < MaxTime
    /\ \A v \in Validations :
           /\ pc[v] # "lookup"
           /\ pc[v] \in {"asking", "answered"} => now - asked[v] < MaxFlight
    /\ now' = now + 1
    /\ lastSeen' = [k \in Keys |->
           IF \E i \in Kids : published[i] = k THEN now' ELSE lastSeen[k]]
    /\ lastBad' = [t \in Tokens |->
           IF Pick(published, t.kid) = t.key THEN lastBad[t] ELSE now']
    /\ UNCHANGED <<published, rotations, cache, caller, outcome>>

Validate(v) ==
    \/ \E t \in Tokens : Begin(v, t)
    \/ Answer(v)
    \/ FetchFails(v)
    \/ Install(v)
    \/ Lookup(v)

Next == Rotate \/ Tick \/ \E v \in Validations : Validate(v)
Spec == Init /\ [][Next]_vars

-----------------------------------------------------------------------------
TypeOK ==
    /\ now \in Nat
    /\ published \in KeySet
    /\ rotations \in Nat
    /\ rsaKeys \in KeySet
    /\ fetched \in Int
    /\ pc \in [Validations -> {"idle", "asking", "answered", "lookup"}]
    /\ calls \in [Validations -> Nat]
    /\ token \in [Validations -> Tokens]
    /\ key \in [Validations -> Keys \union {NoKey}]
    /\ asked \in [Validations -> Nat]
    /\ answer \in [Validations -> KeySet]
    /\ outcome \in Outcome
    /\ lastSeen \in [Keys -> Int]
    /\ lastBad \in [Tokens -> Int]

(* A key the issuer withdrew stops being accepted: no later than the cache's  *)
(* lifetime and the longest fetch after it was last published, unless the     *)
(* cache could not be refreshed.  Older answers that arrive after newer ones  *)
(* do not prolong it.                                                         *)
WithdrawnKeysExpire ==
    outcome.verdict = "accepted" /\ outcome.via \in {"cache", "refresh"}
    => outcome.at - lastSeen[outcome.token.key] <= Horizon

(* A token the issuer's key set has long been good for is refused only when   *)
(* the keys could not be fetched: no order of fetches and installs loses it.  *)
SettledTokensPass ==
    outcome.verdict = "refused" /\ outcome.via \in {"cache", "refresh"}
    => outcome.at - lastBad[outcome.token] <= Horizon
=============================================================================
