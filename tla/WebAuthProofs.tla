---------------------------- MODULE WebAuthProofs ----------------------------
(* For any number of tabs and calls: a page never waits for two calls, and    *)
(* the refresh token in the shared storage is never a used one.               *)
EXTENDS WebAuth, TLAPS

-----------------------------------------------------------------------------
(* Type correctness.                                                          *)

(* What sending a call adds.                                                  *)
LEMMA SendType ==
    ASSUME TypeOK, NEW t \in Tabs, NEW k \in {"login", "register", "refresh"},
           NEW r \in Maybe(Tokens), Send(t, k, r)
    PROVE  calls' \subseteq Call /\ made' \in Nat
BY DEF TypeOK, Send, Call, Maybe

(* What an answer puts in a call's place.                                     *)
LEMMA AnswerType ==
    ASSUME TypeOK, NEW c \in calls, NEW d \in Call, Answer(c, d)
    PROVE  calls' \subseteq Call
BY DEF TypeOK, Answer

LEMMA PairType ==
    ASSUME NEW c \in Call, NEW n \in Tokens
    PROVE  /\ Pair(c, n) \in Call
           /\ [c EXCEPT !.stage = "ok", !.access = n] \in Call
<1>1. n \in Maybe(Tokens)
    BY DEF Maybe
<1> QED
    BY <1>1 DEF Pair, Call

(* What a closed page leaves.                                                 *)
LEMMA ForgetType ==
    ASSUME TypeOK, NEW t \in Tabs, Forget(t)
    PROVE  /\ page' \in [Tabs -> {"closed", "open", "broken"}]
           /\ token' \in [Tabs -> Maybe(Tokens)]
           /\ form' \in [Tabs -> {"login", "register"}]
           /\ loading' \subseteq Tabs /\ failed' \subseteq Tabs
           /\ inflight' \subseteq Tabs /\ filled' \subseteq Tabs
           /\ calls' \subseteq Call
           /\ spoiled' \subseteq Tokens
<1>1. calls' \subseteq Call
    <2>1. \A c \in calls : [c EXCEPT !.tab = NoTab] \in Call
        BY DEF TypeOK, Call
    <2> QED
        BY <2>1 DEF TypeOK, Forget
<1>2. \A c \in calls : c.rt \in Maybe(Tokens)
    BY DEF TypeOK, Call
<1>3. spoiled' \subseteq Tokens
    BY <1>2 DEF TypeOK, Forget, Presented, CallsOf, Maybe
<1> QED
    BY <1>1, <1>3 DEF TypeOK, Forget, Maybe

LEMMA InstallType ==
    ASSUME TypeOK, NEW t \in Tabs, NEW c \in calls, Install(t, c)
    PROVE  /\ access' \in Maybe(Tokens) /\ refreshTok' \in Maybe(Tokens)
           /\ token' \in [Tabs -> Maybe(Tokens)]
<1>1. c.access \in Maybe(Tokens) /\ c.refresh \in Maybe(Tokens)
    BY DEF TypeOK, Call
<1> QED
    BY <1>1 DEF TypeOK, Install, Extracted

LEMMA TypeStep ==
    ASSUME WebAuthAssumption, TypeOK, [Next]_vars
    PROVE  TypeOK'
<1> USE DEF storage, ui, server
<1>1. ASSUME NEW t \in Tabs, Open(t)
      PROVE  TypeOK'
    BY <1>1 DEF TypeOK, Open
<1>2. ASSUME NEW t \in Tabs, Close(t) \/ SignOutTorn(t)
      PROVE  TypeOK'
    <2>1. Forget(t)
        BY <1>2 DEF Close, SignOutTorn
    <2>2. access' \in Maybe(Tokens) /\ refreshTok' \in Maybe(Tokens)
        BY <1>2 DEF TypeOK, Close, SignOutTorn, Maybe
    <2>3. made' \in Nat /\ issued' \in Nat /\ faults' \in Nat /\ live' \subseteq Tokens
        BY <1>2 DEF TypeOK, Close, SignOutTorn, Fault
    <2> QED
        BY <2>1, <2>2, <2>3, ForgetType DEF TypeOK
<1>3. ASSUME NEW t \in Tabs, ToggleMode(t) \/ FillForm(t)
      PROVE  TypeOK'
    BY <1>3 DEF TypeOK, ToggleMode, FillForm
<1>4. ASSUME NEW t \in Tabs, Submit(t)
      PROVE  TypeOK'
    <2>1. form[t] \in {"login", "register", "refresh"} /\ NoToken \in Maybe(Tokens)
        BY DEF TypeOK, Maybe
    <2>2. calls' \subseteq Call /\ made' \in Nat
        BY <1>4, <2>1, SendType DEF Submit
    <2> QED
        BY <1>4, <2>2 DEF TypeOK, Submit
<1>5. ASSUME NEW t \in Tabs, StartRefresh(t)
      PROVE  TypeOK'
    <2>1. refreshTok \in Maybe(Tokens)
        BY DEF TypeOK
    <2>2. calls' \subseteq Call /\ made' \in Nat
        BY <1>5, <2>1, SendType DEF StartRefresh
    <2> QED
        BY <1>5, <2>2 DEF TypeOK, StartRefresh
<1>6. ASSUME NEW t \in Tabs, SignOut(t)
      PROVE  TypeOK'
    BY <1>6 DEF TypeOK, SignOut, Maybe
<1>7. ASSUME NEW c \in calls, SignedIn(c)
      PROVE  TypeOK'
    <2>1. c.tab \in Tabs /\ Install(c.tab, c)
        BY <1>7 DEF SignedIn
    <2> QED
        BY <1>7, <2>1, InstallType DEF TypeOK, SignedIn
<1>8. ASSUME NEW c \in calls, SignInFailed(c)
      PROVE  TypeOK'
    BY <1>8 DEF TypeOK, SignInFailed
<1>9. ASSUME NEW c \in calls, Refreshed(c)
      PROVE  TypeOK'
    <2>1. c.tab \in Tabs /\ Install(c.tab, c)
        BY <1>9 DEF Refreshed
    <2>2. access' \in Maybe(Tokens) /\ refreshTok' \in Maybe(Tokens)
          /\ token' \in [Tabs -> Maybe(Tokens)]
        BY <2>1, InstallType
    <2>3. calls' \subseteq calls /\ loading' \subseteq loading /\ inflight' \subseteq inflight
        BY <1>9 DEF Refreshed, Settle
    <2>4. UNCHANGED <<page, failed, form, filled, made, server, faults>>
        BY <1>9 DEF Refreshed, Settle
    <2>5. calls' \subseteq Call /\ loading' \subseteq Tabs /\ inflight' \subseteq Tabs
        BY <2>3 DEF TypeOK
    <2> QED
        BY <2>2, <2>4, <2>5 DEF TypeOK
<1>10. ASSUME NEW c \in calls, RefreshFailed(c)
       PROVE  TypeOK'
    BY <1>10 DEF TypeOK, RefreshFailed, Settle, Maybe
<1>11. ASSUME NEW c \in calls, Grant(c) \/ Exchange(c)
       PROVE  TypeOK'
    <2>1. issued' \in Tokens /\ issued' \in Nat /\ issued' = issued + 1
        BY <1>11 DEF TypeOK, Tokens, Grant, Exchange
    <2>2. Pair(c, issued') \in Call
        BY <2>1, PairType DEF TypeOK
    <2>3. Answer(c, Pair(c, issued'))
        BY <1>11 DEF Grant, Exchange
    <2>4. calls' \subseteq Call
        BY <2>2, <2>3, AnswerType
    <2>5. live' \subseteq Tokens
        BY <1>11, <2>1 DEF TypeOK, Grant, Exchange
    <2> QED
        BY <1>11, <2>1, <2>4, <2>5 DEF TypeOK, Grant, Exchange
<1>12. ASSUME NEW c \in calls, ExchangeBare(c)
       PROVE  TypeOK'
    <2>1. issued' \in Tokens /\ issued' \in Nat /\ issued' = issued + 1
        BY <1>12 DEF TypeOK, Tokens, ExchangeBare
    <2>2. [c EXCEPT !.stage = "ok", !.access = issued'] \in Call
        BY <2>1, PairType DEF TypeOK
    <2>3. calls' \subseteq Call
        BY <1>12, <2>2, AnswerType DEF ExchangeBare
    <2> QED
        BY <1>12, <2>1, <2>3 DEF TypeOK, ExchangeBare
<1>13. ASSUME NEW c \in calls, Refuse(c)
       PROVE  TypeOK'
    <2>1. [c EXCEPT !.stage = "failed"] \in Call
        BY DEF TypeOK, Call
    <2>2. calls' \subseteq Call
        BY <1>13, <2>1, AnswerType DEF Refuse
    <2> QED
        BY <1>13, <2>2 DEF TypeOK, Refuse
<1>14. ASSUME NEW c \in calls, Lose(c)
       PROVE  TypeOK'
    <2>1. [c EXCEPT !.stage = "failed", !.access = NoToken, !.refresh = NoToken] \in Call
        BY ZenonT(60) DEF TypeOK, Call, Maybe
    <2>2. calls' \subseteq Call
        BY <1>14, <2>1, AnswerType DEF Lose
    <2>3. c.rt \in Maybe(Tokens)
        BY DEF TypeOK, Call
    <2>4. spoiled' \subseteq Tokens
        BY <1>14, <2>3 DEF TypeOK, Lose, Presented, Maybe
    <2>5. faults' = faults + 1 /\ UNCHANGED <<storage, ui, made, issued, live>>
        BY <1>14 DEF Lose, Fault
    <2> QED
        BY <2>2, <2>4, <2>5 DEF TypeOK
<1>15. ASSUME NEW r \in live, Revoke(r)
       PROVE  TypeOK'
    BY <1>15 DEF TypeOK, Revoke, Fault
<1>16. CASE UNCHANGED vars
    BY <1>16 DEF TypeOK, vars
<1> QED
    BY <1>1, <1>2, <1>3, <1>4, <1>5, <1>6, <1>7, <1>8, <1>9, <1>10, <1>11,
       <1>12, <1>13, <1>14, <1>15, <1>16 DEF Next

LEMMA TypeInit == WebAuthAssumption /\ Init => TypeOK
BY DEF WebAuthAssumption, Init, TypeOK, Maybe

(* Variables keep their types: storage, every tab's state, calls and server.  *)
THEOREM TypeCorrect == Spec => []TypeOK
<1>1. Init => TypeOK
    BY TypeInit, WebAuthAssumption
<1>2. TypeOK /\ [Next]_vars => TypeOK'
    BY TypeStep, WebAuthAssumption
<1> QED
    BY <1>1, <1>2, PTL DEF Spec

-----------------------------------------------------------------------------
(* One call per tab.                                                          *)

(* AuthInv, seen from one tab.                                                *)
TabOK(t) ==
    /\ \A c, d \in CallsOf(t) : c = d
    /\ t \in loading <=> CallsOf(t) # {}
    /\ t \in inflight <=> \E c \in CallsOf(t) : c.kind = "refresh"
    /\ page[t] # "open" => CallsOf(t) = {}
    /\ \A c \in CallsOf(t) : c.kind # "refresh" => token[t] = NoToken

EveryTabOK == \A t \in Tabs : TabOK(t)

LEMMA AuthByTab == AuthInv <=> TypeOK /\ EveryTabOK
<1>1. SignInsAreSignedOut <=>
          \A t \in Tabs : \A c \in CallsOf(t) : c.kind # "refresh" => token[t] = NoToken
    BY DEF SignInsAreSignedOut, CallsOf
<1> QED
    BY <1>1 DEF AuthInv, OneCallPerTab, ClosedWaitsForNothing, TabOK, EveryTabOK

(* A tab that a step does not touch.                                          *)
LEMMA Elsewhere ==
    ASSUME NEW t \in Tabs, TabOK(t), CallsOf(t)' = CallsOf(t),
           t \in loading' <=> t \in loading, t \in inflight' <=> t \in inflight,
           page'[t] = page[t], token'[t] = token[t]
    PROVE  TabOK(t)'
BY DEF TabOK

(* A tab that does not wait any more.                                         *)
LEMMA NothingAwaited ==
    ASSUME NEW t \in Tabs, CallsOf(t)' = {}, t \notin loading', t \notin inflight'
    PROVE  TabOK(t)'
BY DEF TabOK

(* A tab whose only call is c.                                                *)
LEMMA OneAwaited ==
    ASSUME NEW t \in Tabs, NEW c, CallsOf(t)' = {c}, t \in loading', page'[t] = "open",
           t \in inflight' <=> c.kind = "refresh",
           c.kind # "refresh" => token'[t] = NoToken
    PROVE  TabOK(t)'
BY DEF TabOK

LEMMA SendCalls ==
    ASSUME NEW t \in Tabs, NEW k, NEW r, Send(t, k, r), CallsOf(t) = {}
    PROVE  /\ \E c : CallsOf(t)' = {c} /\ c.kind = k
           /\ \A u \in Tabs \ {t} : CallsOf(u)' = CallsOf(u)
<1> DEFINE new == [id |-> made, tab |-> t, kind |-> k, rt |-> r, stage |-> "sent",
                   access |-> NoToken, refresh |-> NoToken]
<1>1. calls' = calls \union {new}
    BY DEF Send
<1>2. new.tab = t /\ new.kind = k
    OBVIOUS
<1> HIDE DEF new
<1>3. CallsOf(t)' = {new}
    BY <1>1, <1>2 DEF CallsOf
<1>4. \A u \in Tabs \ {t} : CallsOf(u)' = CallsOf(u)
    BY <1>1, <1>2 DEF CallsOf
<1> QED
    BY <1>2, <1>3, <1>4

LEMMA DropCalls ==
    ASSUME NEW t \in Tabs, TabOK(t), NEW c \in calls, c.tab = t, calls' = calls \ {c}
    PROVE  /\ CallsOf(t)' = {}
           /\ \A u \in Tabs \ {t} : CallsOf(u)' = CallsOf(u)
BY DEF CallsOf, TabOK

LEMMA AnswerCalls ==
    ASSUME WebAuthAssumption, NEW c \in calls, NEW d, d.tab = c.tab, Answer(c, d)
    PROVE  \A u \in Tabs :
               CallsOf(u)' = IF c.tab = u THEN (CallsOf(u) \ {c}) \union {d} ELSE CallsOf(u)
BY DEF CallsOf, Answer, WebAuthAssumption

(* The server's and the network's steps: the call stays a call of its tab.    *)
LEMMA AnswerKeepsTabs ==
    ASSUME WebAuthAssumption, NEW c \in calls, NEW d, d.tab = c.tab, d.kind = c.kind,
           Answer(c, d), UNCHANGED ui, \A t \in Tabs : TabOK(t)
    PROVE  \A t \in Tabs : TabOK(t)'
<1> SUFFICES ASSUME NEW t \in Tabs PROVE TabOK(t)'
    OBVIOUS
<1>1. UNCHANGED <<page, token, loading, inflight>>
    BY DEF ui
<1>2. CASE c.tab = t
    <2>1. c \in CallsOf(t)
        BY <1>2 DEF CallsOf
    <2>2. CallsOf(t) = {c}
        BY <2>1 DEF TabOK
    <2>3. CallsOf(t)' = {d}
        BY <1>2, <2>2, AnswerCalls
    <2> QED
        BY <1>1, <2>2, <2>3 DEF TabOK
<1>3. CASE c.tab # t
    <2>1. CallsOf(t)' = CallsOf(t)
        BY <1>3, AnswerCalls
    <2> QED
        BY <1>1, <2>1, Elsewhere
<1> QED
    BY <1>2, <1>3

LEMMA ForgetTabs ==
    ASSUME WebAuthAssumption, TypeOK, NEW t \in Tabs, Forget(t), \A u \in Tabs : TabOK(u)
    PROVE  \A u \in Tabs : TabOK(u)'
<1>1. calls' = {IF c.tab = t THEN [c EXCEPT !.tab = NoTab] ELSE c : c \in calls}
    BY DEF Forget
<1>2. \A c \in calls : [c EXCEPT !.tab = NoTab].tab = NoTab
    BY DEF TypeOK, Call
<1>3. \A u \in Tabs : CallsOf(u)' = IF u = t THEN {} ELSE CallsOf(u)
    <2> SUFFICES ASSUME NEW u \in Tabs
                 PROVE  CallsOf(u)' = IF u = t THEN {} ELSE CallsOf(u)
        OBVIOUS
    <2>1. ASSUME NEW x \in calls', x.tab = u
          PROVE  x \in calls /\ u # t
        <3>1. PICK c \in calls : x = IF c.tab = t THEN [c EXCEPT !.tab = NoTab] ELSE c
            BY <1>1
        <3>2. c.tab # t
            BY <1>2, <2>1, <3>1 DEF WebAuthAssumption
        <3> QED
            BY <2>1, <3>1, <3>2
    <2>2. ASSUME NEW x \in calls, x.tab = u, u # t
          PROVE  x \in calls'
        <3>1. x = IF x.tab = t THEN [x EXCEPT !.tab = NoTab] ELSE x
            BY <2>2
        <3> QED
            BY <1>1, <3>1
    <2> QED
        BY <2>1, <2>2 DEF CallsOf
<1>4. ASSUME NEW u \in Tabs
      PROVE  TabOK(u)'
    <2>1. CASE u = t
        BY <1>3, <2>1, NothingAwaited DEF Forget
    <2>2. CASE u # t
        <3>1. CallsOf(u)' = CallsOf(u)
            BY <1>3, <2>2
        <3>2. page'[u] = page[u] /\ token'[u] = token[u]
            BY <2>2 DEF Forget, TypeOK
        <3>3. (u \in loading' <=> u \in loading) /\ (u \in inflight' <=> u \in inflight)
            BY <2>2 DEF Forget
        <3> QED
            BY <3>1, <3>2, <3>3, Elsewhere
    <2> QED
        BY <2>1, <2>2
<1> QED
    BY <1>4

(* A handler that ends the only call of its tab.                              *)
LEMMA CallEnds ==
    ASSUME TypeOK, NEW c \in calls, c.tab \in Tabs, \A t \in Tabs : TabOK(t),
           calls' = calls \ {c}, loading' = loading \ {c.tab},
           \/ inflight' = inflight \ {c.tab}
           \/ inflight' = inflight /\ c.kind # "refresh",
           page' = page, \A u \in Tabs \ {c.tab} : token'[u] = token[u]
    PROVE  \A t \in Tabs : TabOK(t)'
<1> SUFFICES ASSUME NEW t \in Tabs PROVE TabOK(t)'
    OBVIOUS
<1>1. CASE t = c.tab
    <2>1. CallsOf(t) = {c}
        BY <1>1 DEF CallsOf, TabOK
    <2>2. CallsOf(t)' = {} /\ t \notin loading'
        BY <1>1, DropCalls
    <2>3. t \notin inflight'
        BY <1>1, <2>1 DEF TabOK
    <2> QED
        BY <2>2, <2>3, NothingAwaited
<1>2. CASE t # c.tab
    <2>1. CallsOf(t)' = CallsOf(t)
        BY <1>2, DropCalls
    <2>2. (t \in loading' <=> t \in loading) /\ (t \in inflight' <=> t \in inflight)
        BY <1>2
    <2> QED
        BY <1>2, <2>1, <2>2, Elsewhere
<1> QED
    BY <1>1, <1>2

(* A step that touches no call and no flag the invariant is about.            *)
LEMMA CallsUntouched ==
    ASSUME \A t \in Tabs : TabOK(t), UNCHANGED <<calls, loading, inflight, page, token>>
    PROVE  \A t \in Tabs : TabOK(t)'
BY DEF TabOK, CallsOf

LEMMA AuthStep ==
    ASSUME WebAuthAssumption, TypeOK, \A t \in Tabs : TabOK(t), [Next]_vars
    PROVE  \A t \in Tabs : TabOK(t)'
<1> USE DEF storage, ui, server
<1>1. ASSUME NEW t \in Tabs, Open(t)
      PROVE  \A u \in Tabs : TabOK(u)'
    <2>1. CallsOf(t) = {} /\ t \notin loading /\ t \notin inflight
        BY <1>1 DEF Open, TabOK
    <2>2. \A u \in Tabs : CallsOf(u)' = CallsOf(u)
        BY <1>1 DEF Open, CallsOf
    <2>3. loading' = loading /\ inflight' = inflight
        BY <1>1 DEF Open
    <2>4. \A u \in Tabs \ {t} : page'[u] = page[u] /\ token'[u] = token[u]
        BY <1>1 DEF Open, TypeOK
    <2>5. TabOK(t)'
        BY <2>1, <2>2, <2>3, NothingAwaited
    <2>6. \A u \in Tabs \ {t} : TabOK(u)'
        BY <2>2, <2>3, <2>4, Elsewhere
    <2> QED
        BY <2>5, <2>6
<1>2. ASSUME NEW t \in Tabs, Close(t) \/ SignOutTorn(t)
      PROVE  \A u \in Tabs : TabOK(u)'
    <2>1. Forget(t)
        BY <1>2 DEF Close, SignOutTorn
    <2> QED
        BY <2>1, ForgetTabs
<1>3. ASSUME NEW t \in Tabs, ToggleMode(t) \/ FillForm(t)
      PROVE  \A u \in Tabs : TabOK(u)'
    BY <1>3, CallsUntouched DEF ToggleMode, FillForm
<1>4. ASSUME NEW t \in Tabs, Submit(t)
      PROVE  \A u \in Tabs : TabOK(u)'
    <2>1. page[t] = "open" /\ token[t] = NoToken /\ t \notin loading
        BY <1>4 DEF Submit, CanSubmit, View, TypeOK
    <2>2. CallsOf(t) = {} /\ t \notin inflight
        BY <2>1 DEF TabOK
    <2>3. /\ \E c : CallsOf(t)' = {c} /\ c.kind = form[t]
          /\ \A u \in Tabs \ {t} : CallsOf(u)' = CallsOf(u)
        BY <1>4, <2>2, SendCalls DEF Submit
    <2>4. /\ loading' = loading \union {t} /\ inflight' = inflight
          /\ page' = page /\ token' = token
        BY <1>4 DEF Submit
    <2>5. form[t] # "refresh"
        BY DEF TypeOK
    <2>6. TabOK(t)'
        BY <2>1, <2>2, <2>3, <2>4, <2>5, OneAwaited
    <2>7. \A u \in Tabs \ {t} : TabOK(u)'
        BY <2>3, <2>4, Elsewhere
    <2> QED
        BY <2>6, <2>7
<1>5. ASSUME NEW t \in Tabs, StartRefresh(t)
      PROVE  \A u \in Tabs : TabOK(u)'
    <2>1. page[t] = "open" /\ token[t] # NoToken /\ t \notin inflight
        BY <1>5 DEF StartRefresh, View, TypeOK
    <2>2. CallsOf(t) = {}
        BY <2>1 DEF TabOK
    <2>3. /\ \E c : CallsOf(t)' = {c} /\ c.kind = "refresh"
          /\ \A u \in Tabs \ {t} : CallsOf(u)' = CallsOf(u)
        BY <1>5, <2>2, SendCalls DEF StartRefresh
    <2>4. /\ loading' = loading \union {t} /\ inflight' = inflight \union {t}
          /\ page' = page /\ token' = token
        BY <1>5 DEF StartRefresh
    <2>5. TabOK(t)'
        BY <2>1, <2>3, <2>4, OneAwaited
    <2>6. \A u \in Tabs \ {t} : TabOK(u)'
        BY <2>3, <2>4, Elsewhere
    <2> QED
        BY <2>5, <2>6
<1>6. ASSUME NEW t \in Tabs, SignOut(t)
      PROVE  \A u \in Tabs : TabOK(u)'
    <2>1. \A u \in Tabs : CallsOf(u)' = CallsOf(u)
        BY <1>6 DEF SignOut, CallsOf
    <2>2. loading' = loading /\ inflight' = inflight /\ page' = page
          /\ token' = [token EXCEPT ![t] = NoToken]
        BY <1>6 DEF SignOut
    <2> QED
        BY <2>1, <2>2 DEF TabOK, TypeOK
<1>7. ASSUME NEW c \in calls, SignedIn(c) \/ SignInFailed(c) \/ Refreshed(c) \/ RefreshFailed(c)
      PROVE  \A u \in Tabs : TabOK(u)'
    <2>1. /\ c.tab \in Tabs /\ calls' = calls \ {c} /\ loading' = loading \ {c.tab}
          /\ page' = page
        BY <1>7 DEF SignedIn, SignInFailed, Refreshed, RefreshFailed, Settle
    <2>2. \/ inflight' = inflight \ {c.tab}
          \/ inflight' = inflight /\ c.kind # "refresh"
        BY <1>7 DEF SignedIn, SignInFailed, Refreshed, RefreshFailed, Settle
    <2>3. \A u \in Tabs \ {c.tab} : token'[u] = token[u]
        BY <1>7 DEF SignedIn, SignInFailed, Refreshed, RefreshFailed, Install, TypeOK
    <2> QED
        BY <2>1, <2>2, <2>3, CallEnds
<1>8. ASSUME NEW c \in calls, Grant(c) \/ Exchange(c)
      PROVE  \A u \in Tabs : TabOK(u)'
    <2>1. Answer(c, Pair(c, issued')) /\ UNCHANGED ui
        BY <1>8 DEF Grant, Exchange
    <2>2. Pair(c, issued').tab = c.tab /\ Pair(c, issued').kind = c.kind
        BY DEF Pair, TypeOK, Call
    <2> QED
        BY <2>1, <2>2, AnswerKeepsTabs
<1>9. ASSUME NEW c \in calls, ExchangeBare(c) \/ Refuse(c) \/ Lose(c)
      PROVE  \A u \in Tabs : TabOK(u)'
    <2>1. PICK d \in {[c EXCEPT !.stage = "ok", !.access = issued'],
                      [c EXCEPT !.stage = "failed"],
                      [c EXCEPT !.stage = "failed", !.access = NoToken, !.refresh = NoToken]} :
              Answer(c, d)
        BY <1>9 DEF ExchangeBare, Refuse, Lose
    <2>2. d.tab = c.tab /\ d.kind = c.kind
        BY DEF TypeOK, Call
    <2>3. UNCHANGED ui
        BY <1>9 DEF ExchangeBare, Refuse, Lose
    <2> QED
        BY <2>1, <2>2, <2>3, AnswerKeepsTabs
<1>10. ASSUME NEW r \in live, Revoke(r)
       PROVE  \A u \in Tabs : TabOK(u)'
    BY <1>10, CallsUntouched DEF Revoke
<1>11. CASE UNCHANGED vars
    BY <1>11, CallsUntouched DEF vars
<1> QED
    BY <1>1, <1>2, <1>3, <1>4, <1>5, <1>6, <1>7, <1>8, <1>9, <1>10, <1>11 DEF Next

LEMMA AuthInit == WebAuthAssumption /\ Init => AuthInv
<1> SUFFICES ASSUME WebAuthAssumption, Init PROVE AuthInv
    OBVIOUS
<1>1. \A t \in Tabs : TabOK(t)
    BY DEF Init, TabOK, CallsOf
<1> QED
    BY <1>1, TypeInit, AuthByTab DEF EveryTabOK

(* useKimbuAuth.ts:98, LoginPage.tsx:62, main.tsx:17-21: in every tab, one     *)
(* `loading' serves three kinds of calls because there is at most one of them, *)
(* whatever the other tabs do.                                                 *)
THEOREM CallsNeverOverlap == Spec => []OneCallPerTab
<1>1. Init => AuthInv
    BY AuthInit, WebAuthAssumption
<1>2. AuthInv /\ [Next]_vars => AuthInv'
    <2> SUFFICES ASSUME AuthInv, [Next]_vars PROVE AuthInv'
        OBVIOUS
    <2>1. TypeOK /\ \A t \in Tabs : TabOK(t)
        BY AuthByTab DEF EveryTabOK
    <2>2. TypeOK'
        BY <2>1, TypeStep, WebAuthAssumption
    <2>3. \A t \in Tabs : TabOK(t)'
        BY <2>1, AuthStep, WebAuthAssumption
    <2>4. AuthInv' <=> TypeOK' /\ EveryTabOK'
        BY AuthByTab, PTL
    <2> QED
        BY <2>2, <2>3, <2>4 DEF EveryTabOK
<1>3. AuthInv => OneCallPerTab
    BY DEF AuthInv
<1> QED
    BY <1>1, <1>2, <1>3, PTL DEF Spec

-----------------------------------------------------------------------------
(* Rotation.                                                                  *)

(* The fields of a call that an action makes.                                 *)
LEMMA CallFields ==
    ASSUME NEW c \in Call, NEW n
    PROVE  /\ Pair(c, n).rt = c.rt /\ Pair(c, n).tab = c.tab
           /\ Pair(c, n).stage = "ok" /\ Pair(c, n).refresh = n
           /\ [c EXCEPT !.tab = NoTab].rt = c.rt
           /\ [c EXCEPT !.tab = NoTab].tab = NoTab
           /\ [c EXCEPT !.tab = NoTab].refresh = c.refresh
BY DEF Call, Pair

LEMMA LostFields ==
    ASSUME NEW c \in Call
    PROVE  LET d == [c EXCEPT !.stage = "failed", !.access = NoToken, !.refresh = NoToken]
           IN d.rt = c.rt /\ d.tab = c.tab /\ d.refresh = NoToken
BY DEF Call

(* A step that takes calls away, at most.  The stored token is the same, is   *)
(* gone, or is one that was under way.                                        *)
LEMMA CallsOnlyGo ==
    ASSUME RotationInv, NoToken \notin Nat, calls' \subseteq calls, issued' = issued,
           live \union spoiled \subseteq live' \union spoiled', spoiled \subseteq spoiled',
           \/ refreshTok' = NoToken
           \/ refreshTok' = refreshTok /\
              (\A c \in calls \ calls' : c.stage # "ok" \/ c.refresh = NoToken)
           \/ \E c \in calls \ calls' : c.refresh # NoToken /\ refreshTok' = c.refresh
    PROVE  RotationInv'
<1>1. TokensWereIssued'
    BY DEF RotationInv, TokensWereIssued, Maybe
<1>2. UnderWayIsFresh'
    BY DEF RotationInv, UnderWayIsFresh
<1>3. OrphansAreSpoiled'
    BY DEF RotationInv, OrphansAreSpoiled, Maybe
<1>4. StoredAccounted'
    <2>1. CASE refreshTok' = NoToken
        BY <2>1 DEF StoredAccounted
    <2>2. CASE refreshTok' = refreshTok /\
              (\A c \in calls \ calls' : c.stage # "ok" \/ c.refresh = NoToken)
        <3>1. ASSUME BeingExchanged(refreshTok)
              PROVE  BeingExchanged(refreshTok)'
            BY <2>2, <3>1 DEF BeingExchanged
        <3> QED
            BY <2>2, <3>1 DEF RotationInv, StoredAccounted
    <2>3. CASE \E c \in calls \ calls' : c.refresh # NoToken /\ refreshTok' = c.refresh
        BY <2>3 DEF RotationInv, UnderWayIsFresh, StoredAccounted
    <2> QED
        BY <2>1, <2>2, <2>3
<1> QED
    BY <1>1, <1>2, <1>3, <1>4 DEF RotationInv

(* A new call: it presents the stored token or none.                          *)
LEMMA CallSent ==
    ASSUME RotationInv, NEW t \in Tabs, NoTab \notin Tabs, NEW k,
           NEW r \in {NoToken, refreshTok}, Send(t, k, r),
           UNCHANGED <<refreshTok, issued, live, spoiled>>
    PROVE  RotationInv'
<1> DEFINE new == [id |-> made, tab |-> t, kind |-> k, rt |-> r, stage |-> "sent",
                   access |-> NoToken, refresh |-> NoToken]
<1>1. calls' = calls \union {new}
    BY DEF Send
<1>2. new.tab = t /\ new.rt = r /\ new.refresh = NoToken
    OBVIOUS
<1> HIDE DEF new
<1>3. TokensWereIssued'
    BY <1>1, <1>2 DEF RotationInv, TokensWereIssued, Maybe
<1>4. UnderWayIsFresh'
    BY <1>1, <1>2 DEF RotationInv, UnderWayIsFresh
<1>5. OrphansAreSpoiled'
    BY <1>1, <1>2 DEF RotationInv, OrphansAreSpoiled, Maybe
<1>6. StoredAccounted'
    BY <1>1 DEF RotationInv, StoredAccounted, BeingExchanged
<1> QED
    BY <1>3, <1>4, <1>5, <1>6 DEF RotationInv

(* The answer d to the call c brings a new token, or none.                    *)
LEMMA AnswerSent ==
    ASSUME RotationInv, TypeOK, NoToken \notin Nat, NoTab \notin Tabs,
           NEW c \in calls, NEW d, d.rt = c.rt, d.tab = c.tab, Answer(c, d),
           \/ d.refresh = issued' /\ issued' = issued + 1 /\ issued' \in live'
           \/ d.refresh \in {NoToken, c.refresh} /\ issued' \in {issued, issued + 1},
           UNCHANGED refreshTok, spoiled \subseteq spoiled',
           live \ {c.rt} \subseteq live' \union spoiled',
           \/ c.rt \notin live
           \/ c.rt \in live' \union spoiled'
           \/ c.tab \notin Tabs
           \/ d.stage = "ok" /\ d.refresh # NoToken,
           \/ c.stage # "ok" \/ c.refresh = NoToken
           \/ c.rt \in spoiled' \union {NoToken}
    PROVE  RotationInv'
<1>1. issued \in Nat /\ issued' \in Nat /\ issued <= issued' /\ issued + 1 \notin 1..issued
    BY DEF TypeOK
<1>2. calls' = IF d.tab = NoTab THEN calls \ {c} ELSE (calls \ {c}) \union {d}
    BY DEF Answer
<1>3. TokensWereIssued'
    <2>1. 1..issued \subseteq 1..issued'
        BY <1>1
    <2>2. {c.rt, c.refresh} \subseteq Maybe(1..issued)
        BY DEF RotationInv, TokensWereIssued
    <2>3. d.rt \in Maybe(1..issued') /\ d.refresh \in Maybe(1..issued')
        BY <1>1, <2>1, <2>2 DEF Maybe
    <2>4. \A x \in calls : {x.rt, x.refresh} \subseteq Maybe(1..issued')
        BY <2>1 DEF RotationInv, TokensWereIssued, Maybe
    <2>5. refreshTok' \in Maybe(1..issued')
        BY <2>1 DEF RotationInv, TokensWereIssued, Maybe
    <2> QED
        BY <1>2, <2>3, <2>4, <2>5 DEF TokensWereIssued
<1>4. UnderWayIsFresh'
    <2>1. ASSUME NEW x \in calls, x.refresh # NoToken
          PROVE  /\ x.refresh # refreshTok /\ x.refresh \in live' \union spoiled'
                 /\ x.refresh # issued + 1
                 /\ \A y \in calls : y.rt # x.refresh /\ (y.refresh = x.refresh => y = x)
        <3>1. x.refresh # c.rt /\ x.refresh \in live \union spoiled
            BY <2>1 DEF RotationInv, UnderWayIsFresh
        <3>2. x.refresh \in 1..issued
            BY <2>1 DEF RotationInv, TokensWereIssued, Maybe
        <3> QED
            BY <1>1, <2>1, <3>1, <3>2 DEF RotationInv, UnderWayIsFresh
    <2>2. CASE d.refresh = issued' /\ issued' = issued + 1 /\ issued' \in live'
        <3>1. \A y \in calls : y.rt # issued + 1 /\ y.refresh # issued + 1
            BY <1>1 DEF RotationInv, TokensWereIssued, Maybe
        <3>2. refreshTok # issued + 1
            BY <1>1 DEF RotationInv, TokensWereIssued, Maybe
        <3> QED
            BY <1>2, <2>1, <2>2, <3>1, <3>2 DEF UnderWayIsFresh
    <2>3. CASE d.refresh \in {NoToken, c.refresh}
        BY <1>2, <2>1, <2>3 DEF UnderWayIsFresh
    <2> QED
        BY <2>2, <2>3
<1>5. OrphansAreSpoiled'
    BY <1>2 DEF RotationInv, OrphansAreSpoiled, Maybe
<1>6. StoredAccounted'
    <2>1. CASE refreshTok \in live \union spoiled \union {NoToken}
        <3>1. CASE refreshTok \in live' \union spoiled' \union {NoToken}
            BY <3>1 DEF StoredAccounted
        <3>2. CASE refreshTok \notin live' \union spoiled' \union {NoToken}
            <4>1. refreshTok = c.rt /\ c.rt \in live
                BY <2>1, <3>2
            <4>2. c.tab # NoTab
                BY <3>2, <4>1 DEF RotationInv, OrphansAreSpoiled, Maybe
            <4>3. c.tab \in Tabs
                BY <4>2 DEF TypeOK, Call
            <4>4. d \in calls' /\ d.rt = refreshTok' /\ d.tab \in Tabs /\ d.stage = "ok"
                  /\ d.refresh # NoToken
                BY <1>2, <3>2, <4>1, <4>2, <4>3
            <4> QED
                BY <4>4 DEF StoredAccounted, BeingExchanged
        <3> QED
            BY <3>1, <3>2
    <2>2. CASE BeingExchanged(refreshTok)
        <3>1. PICK x \in calls :
                  x.rt = refreshTok /\ x.tab \in Tabs /\ x.stage = "ok" /\ x.refresh # NoToken
            BY <2>2 DEF BeingExchanged
        <3>2. CASE x = c
            BY <3>1, <3>2 DEF StoredAccounted
        <3>3. CASE x # c
            BY <1>2, <3>1, <3>3 DEF StoredAccounted, BeingExchanged
        <3> QED
            BY <3>2, <3>3
    <2> QED
        BY <2>1, <2>2 DEF RotationInv, StoredAccounted
<1> QED
    BY <1>3, <1>4, <1>5, <1>6 DEF RotationInv

(* A page that is gone: what it presented is spoiled.                         *)
LEMMA PageGone ==
    ASSUME RotationInv, TypeOK, NoTab \notin Tabs, NEW t \in Tabs, Forget(t),
           UNCHANGED <<refreshTok, issued, live>>
    PROVE  RotationInv'
<1> DEFINE gone(c) == IF c.tab = t THEN [c EXCEPT !.tab = NoTab] ELSE c
<1>1. calls' = {gone(c) : c \in calls}
    BY DEF Forget
<1>2. \A c \in calls : /\ gone(c).rt = c.rt /\ gone(c).refresh = c.refresh
                       /\ c.tab # t => gone(c) = c
                       /\ gone(c).tab = NoTab => c.tab \in {t, NoTab}
    BY CallFields DEF TypeOK
<1>3. \A c \in calls : c.tab = t /\ c.rt # NoToken => c.rt \in spoiled'
    BY DEF Forget, Presented, CallsOf
<1>4. spoiled \subseteq spoiled'
    BY DEF Forget
<1> HIDE DEF gone
<1>5. TokensWereIssued'
    BY <1>1, <1>2 DEF RotationInv, TokensWereIssued
<1>6. UnderWayIsFresh'
    <2>1. ASSUME NEW x \in calls, x.refresh # NoToken
          PROVE  /\ x.refresh # refreshTok' /\ x.refresh \in live' \union spoiled'
                 /\ \A y \in calls : y.rt # x.refresh /\ (y.refresh = x.refresh => y = x)
        BY <1>4, <2>1 DEF RotationInv, UnderWayIsFresh
    <2>2. ASSUME NEW a \in calls', a.refresh # NoToken
          PROVE  /\ a.refresh # refreshTok' /\ a.refresh \in live' \union spoiled'
                 /\ \A b \in calls' : b.rt # a.refresh /\ (b.refresh = a.refresh => b = a)
        <3>1. PICK x \in calls : a = gone(x)
            BY <1>1
        <3>2. x.refresh = a.refresh
            BY <1>2, <3>1
        <3>3. ASSUME NEW b \in calls'
              PROVE  b.rt # a.refresh /\ (b.refresh = a.refresh => b = a)
            <4>1. PICK y \in calls : b = gone(y)
                BY <1>1
            <4>2. y.refresh = b.refresh /\ y.rt = b.rt
                BY <1>2, <4>1
            <4> QED
                BY <2>1, <2>2, <3>1, <3>2, <4>1, <4>2
        <3> QED
            BY <2>1, <2>2, <3>2, <3>3
    <2> QED
        BY <2>2 DEF UnderWayIsFresh
<1>7. OrphansAreSpoiled'
    <2>1. ASSUME NEW a \in calls', a.tab = NoTab PROVE a.rt \in Maybe(spoiled')
        <3>1. PICK x \in calls : a = gone(x)
            BY <1>1
        <3>2. x.rt = a.rt /\ x.tab \in {t, NoTab}
            BY <1>2, <2>1, <3>1
        <3>3. CASE x.tab = t
            BY <1>3, <3>2, <3>3 DEF Maybe
        <3>4. CASE x.tab = NoTab
            BY <1>4, <3>2, <3>4 DEF RotationInv, OrphansAreSpoiled, Maybe
        <3> QED
            BY <3>2, <3>3, <3>4
    <2> QED
        BY <2>1 DEF OrphansAreSpoiled
<1>8. StoredAccounted'
    <2>1. CASE refreshTok \in live \union spoiled \union {NoToken}
        BY <1>4, <2>1 DEF StoredAccounted
    <2>2. CASE BeingExchanged(refreshTok)
        <3>1. PICK x \in calls :
                  x.rt = refreshTok /\ x.tab \in Tabs /\ x.stage = "ok" /\ x.refresh # NoToken
            BY <2>2 DEF BeingExchanged
        <3>2. CASE x.tab = t
            BY <1>3, <3>1, <3>2 DEF StoredAccounted
        <3>3. CASE x.tab # t
            <4>1. x \in calls'
                BY <1>1, <1>2, <3>3
            <4> QED
                BY <3>1, <4>1 DEF StoredAccounted, BeingExchanged
        <3> QED
            BY <3>2, <3>3
    <2> QED
        BY <2>1, <2>2 DEF RotationInv, StoredAccounted
<1> QED
    BY <1>5, <1>6, <1>7, <1>8 DEF RotationInv

LEMMA RotationStep ==
    ASSUME WebAuthAssumption, TypeOK, RotationInv, [Next]_vars
    PROVE  RotationInv'
<1> USE DEF storage, ui, server, WebAuthAssumption
<1>1. CASE UNCHANGED <<refreshTok, calls, issued>> /\ live \union spoiled = live' \union spoiled'
           /\ spoiled \subseteq spoiled'
    BY <1>1, CallsOnlyGo
<1>2. ASSUME NEW t \in Tabs, Close(t) \/ SignOutTorn(t)
      PROVE  RotationInv'
    BY <1>2, PageGone DEF Close, SignOutTorn
<1>3. ASSUME NEW t \in Tabs, Open(t) \/ ToggleMode(t) \/ FillForm(t)
      PROVE  RotationInv'
    BY <1>3, <1>1 DEF Open, ToggleMode, FillForm
<1>4. ASSUME NEW t \in Tabs, Submit(t) \/ StartRefresh(t)
      PROVE  RotationInv'
    <2>1. \E k : Send(t, k, NoToken) \/ Send(t, k, refreshTok)
        BY <1>4 DEF Submit, StartRefresh
    <2>2. UNCHANGED <<refreshTok, issued, live, spoiled>>
        BY <1>4 DEF Submit, StartRefresh
    <2> QED
        BY <2>1, <2>2, CallSent
<1>5. ASSUME NEW t \in Tabs, SignOut(t)
      PROVE  RotationInv'
    BY <1>5, CallsOnlyGo DEF SignOut
<1>6. ASSUME NEW c \in calls, SignedIn(c) \/ Refreshed(c)
      PROVE  RotationInv'
    <2>1. /\ calls' = calls \ {c} /\ UNCHANGED <<issued, live, spoiled>>
          /\ refreshTok' = IF c.refresh = NoToken THEN refreshTok ELSE c.refresh
        BY <1>6 DEF SignedIn, Refreshed, Settle, Install, Extracted
    <2> QED
        BY <2>1, CallsOnlyGo
<1>7. ASSUME NEW c \in calls, SignInFailed(c) \/ RefreshFailed(c)
      PROVE  RotationInv'
    <2>1. /\ calls' = calls \ {c} /\ UNCHANGED <<issued, live, spoiled>> /\ c.stage = "failed"
          /\ refreshTok' \in {refreshTok, NoToken}
        BY <1>7 DEF SignInFailed, RefreshFailed, Settle
    <2> QED
        BY <2>1, CallsOnlyGo
<1>8. ASSUME NEW c \in calls, Grant(c) \/ Exchange(c)
      PROVE  RotationInv'
    <2> DEFINE d == Pair(c, issued')
    <2>1. d.rt = c.rt /\ d.tab = c.tab /\ d.stage = "ok" /\ d.refresh = issued'
        BY CallFields DEF TypeOK
    <2>2. /\ issued' = issued + 1 /\ issued' \in live' /\ live \ {c.rt} \subseteq live'
          /\ UNCHANGED <<refreshTok, spoiled>> /\ Answer(c, d) /\ c.stage = "sent"
        BY <1>8 DEF Grant, Exchange
    <2>3. d.refresh # NoToken
        BY <2>1, <2>2 DEF TypeOK
    <2> HIDE DEF d
    <2> QED
        BY <2>1, <2>2, <2>3, AnswerSent
<1>9. ASSUME NEW c \in calls, ExchangeBare(c) \/ Refuse(c)
      PROVE  RotationInv'
    <2>1. PICK d \in {[c EXCEPT !.stage = "ok", !.access = issued'],
                      [c EXCEPT !.stage = "failed"]} : Answer(c, d)
        BY <1>9 DEF ExchangeBare, Refuse
    <2>2. d.rt = c.rt /\ d.tab = c.tab /\ d.refresh = c.refresh
        BY DEF TypeOK, Call
    <2>3. /\ issued' \in {issued, issued + 1} /\ UNCHANGED <<refreshTok, live, spoiled>>
          /\ c.stage = "sent"
        BY <1>9 DEF ExchangeBare, Refuse
    <2> QED
        BY <2>1, <2>2, <2>3, AnswerSent
<1>10. ASSUME NEW c \in calls, Lose(c)
       PROVE  RotationInv'
    <2> DEFINE d == [c EXCEPT !.stage = "failed", !.access = NoToken, !.refresh = NoToken]
    <2>1. d.rt = c.rt /\ d.tab = c.tab /\ d.refresh = NoToken
        BY LostFields DEF TypeOK
    <2>2. Answer(c, d) /\ UNCHANGED <<refreshTok, issued, live>> /\ spoiled \subseteq spoiled'
        BY <1>10 DEF Lose
    <2>3. c.rt \in spoiled' \union {NoToken} /\ NoToken \notin live
        BY <1>10 DEF Lose, Presented, TypeOK, Tokens
    <2> HIDE DEF d
    <2> QED
        BY <2>1, <2>2, <2>3, AnswerSent
<1>11. ASSUME NEW r \in live, Revoke(r)
       PROVE  RotationInv'
    BY <1>11, <1>1 DEF Revoke
<1>12. CASE UNCHANGED vars
    BY <1>12, <1>1 DEF vars
<1> QED
    BY <1>2, <1>3, <1>4, <1>5, <1>6, <1>7, <1>8, <1>9, <1>10, <1>11, <1>12 DEF Next

(* useKimbuAuth.ts:107-108 with PENTEST.md:311: however many tabs share the    *)
(* storage and in whatever order their calls settle, close or get lost, the    *)
(* stored refresh token is one the server takes, one being exchanged, or one   *)
(* spoiled from outside.                                                       *)
THEOREM StoredIsLive == Spec => []StoredTokenLive
<1>1. Init => RotationInv
    BY DEF Init, RotationInv, TokensWereIssued, UnderWayIsFresh, OrphansAreSpoiled,
           StoredAccounted, Maybe
<1>2. TypeOK /\ RotationInv /\ [Next]_vars => RotationInv'
    BY RotationStep, WebAuthAssumption
<1>3. RotationInv => StoredTokenLive
    BY DEF RotationInv, StoredAccounted, BeingExchanged, StoredTokenLive
<1> QED
    BY <1>1, <1>2, <1>3, TypeCorrect, PTL DEF Spec
=============================================================================
