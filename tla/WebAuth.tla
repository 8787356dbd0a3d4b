------------------------------- MODULE WebAuth -------------------------------
(* web-app/src/hooks/useKimbuAuth.ts with the App of main.tsx that mounts it   *)
(* and the form of LoginPage.tsx that calls it: browser tabs that share one    *)
(* localStorage, each with a React state of its own, and calls to the          *)
(* authentication server that settle in any order, or not as they should.      *)
(* Refresh tokens are used once (PENTEST.md:311).                              *)
EXTENDS Naturals, FiniteSets

CONSTANTS
    Tabs,       \* browser tabs of one profile
    NoToken,    \* null, in localStorage and in React's state
    NoTab,      \* the caller of a call whose page is gone
    MaxCalls,   \* bound: calls to the server
    MaxFaults   \* bound: lost calls, revocations, closed pages, torn writes

ASSUME WebAuthAssumption ==
    /\ NoToken \notin Nat
    /\ NoTab \notin Tabs
    /\ MaxCalls \in Nat /\ MaxFaults \in Nat

VARIABLES
    access,     \* localStorage[TOKEN_KEY]
    refreshTok, \* localStorage[REFRESH_KEY]
    page,       \* tab -> closed, open, or broken by an exception while rendering
    token,      \* tab -> React state
    loading,    \* tabs whose `loading' is true
    failed,     \* tabs whose `error' is set
    inflight,   \* tabs whose inflightRef holds a promise
    form,       \* tab -> LoginPage's mode
    filled,     \* tabs whose form has an e-mail and a password
    calls,      \* fetches in flight
    made,       \* number of calls made
    issued,     \* number of token pairs issued
    live,       \* server: refresh tokens it would accept
    spoiled,    \* history: refresh tokens revoked, or used up by a call whose
                \* answer no page gets
    faults

storage == <<access, refreshTok>>
ui      == <<page, token, loading, failed, inflight, form, filled>>
server  == <<issued, live, spoiled>>
vars    == <<storage, ui, calls, made, server, faults>>

(* An access token and the refresh token issued with it share a number. *)
Tokens == Nat \ {0}
Maybe(S) == S \union {NoToken}

Call ==
    [id: Nat, tab: Tabs \union {NoTab}, kind: {"login", "register", "refresh"},
     rt: Maybe(Tokens), stage: {"sent", "ok", "failed"},
     access: Maybe(Tokens), refresh: Maybe(Tokens)]

TypeOK ==
    /\ access \in Maybe(Tokens) /\ refreshTok \in Maybe(Tokens)
    /\ page \in [Tabs -> {"closed", "open", "broken"}]
    /\ token \in [Tabs -> Maybe(Tokens)]
    /\ loading \subseteq Tabs /\ failed \subseteq Tabs
    /\ inflight \subseteq Tabs /\ filled \subseteq Tabs
    /\ form \in [Tabs -> {"login", "register"}]
    /\ calls \subseteq Call
    /\ made \in Nat /\ issued \in Nat /\ faults \in Nat
    /\ live \subseteq Tokens /\ spoiled \subseteq Tokens

Init ==
    /\ access = NoToken /\ refreshTok = NoToken
    /\ page = [t \in Tabs |-> "closed"]
    /\ token = [t \in Tabs |-> NoToken]
    /\ loading = {} /\ failed = {} /\ inflight = {} /\ filled = {}
    /\ form = [t \in Tabs |-> "login"]
    /\ calls = {} /\ made = 0
    /\ issued = 0 /\ live = {} /\ spoiled = {}
    /\ faults = 0

(* The calls a page waits for. *)
CallsOf(t) == {c \in calls : c.tab = t}

Presented(cs) == {c.rt : c \in cs} \ {NoToken}

(* What App renders. *)
View(t) ==
    IF page[t] # "open" THEN page[t]
    ELSE IF t \in loading /\ token[t] = NoToken THEN "loading"
    ELSE IF token[t] = NoToken THEN "login" ELSE "tasks"

Fault == faults < MaxFaults /\ faults' = faults + 1

-----------------------------------------------------------------------------
(* The page's life. *)

(* First render.  The initializer that refreshes when only a refresh token is *)
(* stored names `refresh' above its declaration: it throws.                   *)
Open(t) ==
    /\ page[t] = "closed"
    /\ page' = [page EXCEPT ![t] =
                    IF refreshTok # NoToken /\ access = NoToken
                    THEN "broken" ELSE "open"]
    /\ token' = [token EXCEPT ![t] = access]
    /\ UNCHANGED <<storage, loading, failed, inflight, form, filled, calls,
                   made, server, faults>>

(* A closed page's memory is gone; its call may still reach the server. *)
Forget(t) ==
    /\ token' = [token EXCEPT ![t] = NoToken]
    /\ loading' = loading \ {t}
    /\ failed' = failed \ {t}
    /\ inflight' = inflight \ {t}
    /\ form' = [form EXCEPT ![t] = "login"]
    /\ filled' = filled \ {t}
    /\ page' = [page EXCEPT ![t] = "closed"]
    /\ calls' = {IF c.tab = t THEN [c EXCEPT !.tab = NoTab] ELSE c : c \in calls}
    /\ spoiled' = spoiled \union Presented(CallsOf(t))

Close(t) ==
    /\ page[t] # "closed"
    /\ Fault
    /\ Forget(t)
    /\ UNCHANGED <<storage, made, issued, live>>

-----------------------------------------------------------------------------
(* LoginPage. *)

ToggleMode(t) ==
    /\ View(t) = "login"
    /\ form' = [form EXCEPT ![t] = IF @ = "login" THEN "register" ELSE "login"]
    /\ UNCHANGED <<storage, page, token, loading, failed, inflight, filled,
                   calls, made, server, faults>>

FillForm(t) ==
    /\ View(t) = "login"
    /\ t \notin filled
    /\ filled' = filled \union {t}
    /\ UNCHANGED <<storage, page, token, loading, failed, inflight, form,
                   calls, made, server, faults>>

Send(t, kind, rt) ==
    /\ made < MaxCalls
    /\ made' = made + 1
    /\ calls' = calls \union
         {[id |-> made, tab |-> t, kind |-> kind, rt |-> rt, stage |-> "sent",
           access |-> NoToken, refresh |-> NoToken]}

(* The submit button is enabled.                                              *)
CanSubmit(t) == View(t) = "login" /\ t \in filled /\ t \notin loading

(* handleSubmit, and login or register up to their await.  App then shows     *)
(* "Loading" in the form's place, and what it held is lost.                   *)
Submit(t) ==
    /\ CanSubmit(t)
    /\ Send(t, form[t], NoToken)
    /\ loading' = loading \union {t}
    /\ failed' = failed \ {t}
    /\ form' = [form EXCEPT ![t] = "login"]
    /\ filled' = filled \ {t}
    /\ UNCHANGED <<storage, page, token, inflight, server, faults>>

-----------------------------------------------------------------------------
(* Answers as the hook handles them. *)

(* extractTokens. *)
Extracted(c) == [access |-> c.access, refresh |-> c.refresh]

(* Slip: the rotated refresh token is not stored. *)
InstallAccessOnly(t, c) ==
    /\ access' = Extracted(c).access
    /\ refreshTok' = IF c.kind = "refresh" THEN refreshTok ELSE Extracted(c).refresh
    /\ token' = [token EXCEPT ![t] = access']

Install(t, c) ==
    /\ access' = Extracted(c).access
    /\ refreshTok' = IF Extracted(c).refresh = NoToken
                     THEN refreshTok ELSE Extracted(c).refresh
    /\ token' = [token EXCEPT ![t] = access']

SignedIn(c) ==
    /\ c.kind \in {"login", "register"}
    /\ c.stage = "ok" /\ c.tab \in Tabs
    /\ Install(c.tab, c)
    /\ loading' = loading \ {c.tab}
    /\ calls' = calls \ {c}
    /\ UNCHANGED <<page, failed, inflight, form, filled, made, server, faults>>

SignInFailed(c) ==
    /\ c.kind \in {"login", "register"}
    /\ c.stage = "failed" /\ c.tab \in Tabs
    /\ failed' = failed \union {c.tab}
    /\ loading' = loading \ {c.tab}
    /\ calls' = calls \ {c}
    /\ UNCHANGED <<storage, page, token, inflight, form, filled, made, server, faults>>

(* Slip: without the look at inflightRef. *)
StartEveryRefresh(t) ==
    /\ View(t) = "tasks"
    /\ refreshTok # NoToken
    /\ Send(t, "refresh", refreshTok)
    /\ loading' = loading \union {t}
    /\ inflight' = inflight \union {t}
    /\ UNCHANGED <<storage, page, token, failed, form, filled, server, faults>>

(* refresh, called by the connect effect and by the relay's warning, up to    *)
(* its await.  A second caller gets the promise that is in flight, a caller   *)
(* without a stored refresh token gets null: neither changes anything.        *)
StartRefresh(t) ==
    /\ View(t) = "tasks"
    /\ t \notin inflight
    /\ refreshTok # NoToken
    /\ Send(t, "refresh", refreshTok)
    /\ loading' = loading \union {t}
    /\ inflight' = inflight \union {t}
    /\ UNCHANGED <<storage, page, token, failed, form, filled, server, faults>>

(* Slip: inflightRef is reset, loading is not. *)
SettleStillLoading(c) ==
    /\ inflight' = inflight \ {c.tab}
    /\ calls' = calls \ {c}
    /\ UNCHANGED <<page, loading, failed, form, filled, made, server, faults>>

(* The finally block. *)
Settle(c) ==
    /\ loading' = loading \ {c.tab}
    /\ inflight' = inflight \ {c.tab}
    /\ calls' = calls \ {c}
    /\ UNCHANGED <<page, failed, form, filled, made, server, faults>>

Refreshed(c) ==
    /\ c.kind = "refresh" /\ c.stage = "ok" /\ c.tab \in Tabs
    /\ Install(c.tab, c)
    /\ Settle(c)

(* Any failure, of the network too, clears both tokens. *)
RefreshFailed(c) ==
    /\ c.kind = "refresh" /\ c.stage = "failed" /\ c.tab \in Tabs
    /\ access' = NoToken /\ refreshTok' = NoToken
    /\ token' = [token EXCEPT ![c.tab] = NoToken]
    /\ Settle(c)

(* The button of TaskList.  A refresh in flight goes on. *)
SignOut(t) ==
    /\ View(t) = "tasks"
    /\ access' = NoToken /\ refreshTok' = NoToken
    /\ token' = [token EXCEPT ![t] = NoToken]
    /\ UNCHANGED <<page, loading, failed, inflight, form, filled, calls, made,
                   server, faults>>

(* The browser dies between logout's two removals. *)
SignOutTorn(t) ==
    /\ View(t) = "tasks"
    /\ Fault
    /\ access' = NoToken
    /\ Forget(t)
    /\ UNCHANGED <<refreshTok, made, issued, live>>

-----------------------------------------------------------------------------
(* The server and the network (external). *)

(* An answer nobody waits for is dropped. *)
Answer(c, d) == calls' = (calls \ {c}) \union {x \in {d} : x.tab # NoTab}

Pair(c, new) == [c EXCEPT !.stage = "ok", !.access = new, !.refresh = new]

Grant(c) ==
    /\ c.stage = "sent" /\ c.kind # "refresh"
    /\ issued' = issued + 1
    /\ live' = live \union {issued'}
    /\ Answer(c, Pair(c, issued'))
    /\ UNCHANGED <<storage, ui, made, spoiled, faults>>

(* Rotation: the token presented is dead from now on. *)
Exchange(c) ==
    /\ c.stage = "sent" /\ c.kind = "refresh" /\ c.rt \in live
    /\ issued' = issued + 1
    /\ live' = (live \ {c.rt}) \union {issued'}
    /\ Answer(c, Pair(c, issued'))
    /\ UNCHANGED <<storage, ui, made, spoiled, faults>>

(* An answer without a refresh token, which the hook allows for. *)
ExchangeBare(c) ==
    /\ c.stage = "sent" /\ c.kind = "refresh" /\ c.rt \in live
    /\ issued' = issued + 1
    /\ Answer(c, [c EXCEPT !.stage = "ok", !.access = issued'])
    /\ UNCHANGED <<storage, ui, made, live, spoiled, faults>>

(* Wrong credentials, or a refresh token that is not accepted any more. *)
Refuse(c) ==
    /\ c.stage = "sent"
    /\ c.kind = "refresh" => c.rt \notin live
    /\ Answer(c, [c EXCEPT !.stage = "failed"])
    /\ UNCHANGED <<storage, ui, made, server, faults>>

(* The request or its answer is lost, or the server errs: fetch rejects, or   *)
(* the response is not ok.  The token of a request that was processed is      *)
(* used up all the same.                                                      *)
Lose(c) ==
    /\ c.stage # "failed"
    /\ Fault
    /\ Answer(c, [c EXCEPT !.stage = "failed", !.access = NoToken, !.refresh = NoToken])
    /\ spoiled' = spoiled \union Presented({c})
    /\ UNCHANGED <<storage, ui, made, issued, live>>

Revoke(r) ==
    /\ Fault
    /\ live' = live \ {r}
    /\ spoiled' = spoiled \union {r}
    /\ UNCHANGED <<storage, ui, calls, made, issued>>

Next ==
    \/ \E t \in Tabs :
          \/ Open(t) \/ Close(t) \/ ToggleMode(t) \/ FillForm(t) \/ Submit(t)
          \/ StartRefresh(t) \/ SignOut(t) \/ SignOutTorn(t)
    \/ \E c \in calls :
          \/ SignedIn(c) \/ SignInFailed(c) \/ Refreshed(c) \/ RefreshFailed(c)
          \/ Grant(c) \/ Exchange(c) \/ ExchangeBare(c) \/ Refuse(c) \/ Lose(c)
    \/ \E r \in live : Revoke(r)

Spec == Init /\ [][Next]_vars

(* Fetches settle, and their promises' handlers run. *)
Progress(t) ==
    \E c \in CallsOf(t) :
        \/ SignedIn(c) \/ SignInFailed(c) \/ Refreshed(c) \/ RefreshFailed(c)
        \/ Grant(c) \/ Exchange(c) \/ Refuse(c)

FairSpec == Spec /\ \A t \in Tabs : WF_vars(Progress(t))

-----------------------------------------------------------------------------
(* Properties. *)

(* useKimbuAuth.ts:98, LoginPage.tsx:62, main.tsx:17-21: one `loading' serves  *)
(* login, register and refresh, and each clears it when it ends.  That is      *)
(* right only because a page never waits for two calls: the promise in flight  *)
(* is shared, and the form is on the screen only while nothing is under way.   *)
OneCallPerTab ==
    \A t \in Tabs :
        /\ \A c, d \in CallsOf(t) : c = d
        /\ t \in loading <=> CallsOf(t) # {}
        /\ t \in inflight <=> \E c \in CallsOf(t) : c.kind = "refresh"

(* useKimbuAuth.ts:107-108 with PENTEST.md:311: whatever tabs do to each other *)
(* in the storage they share, the refresh token in it is one the server takes, *)
(* one that a page is exchanging right now, or one that was lost or revoked    *)
(* through no fault of the pages: no page puts a used token back.              *)
StoredTokenLive ==
    refreshTok # NoToken =>
        \/ refreshTok \in live \union spoiled
        \/ \E c \in calls : c.rt = refreshTok /\ c.stage # "sent"

(* main.tsx:17-19: the "Loading" view, which offers nothing to press, ends     *)
(* when the browser's fetches settle.                                          *)
LoadingEnds == \A t \in Tabs : t \in loading ~> t \notin loading

-----------------------------------------------------------------------------
(* The inductive invariant from which WebAuthProofs derives OneCallPerTab and *)
(* StoredTokenLive.                                                           *)

(* Only an open page waits for anything. *)
ClosedWaitsForNothing == \A t \in Tabs : page[t] # "open" => CallsOf(t) = {}

(* The form is not on the screen of a page that has a token. *)
SignInsAreSignedOut ==
    \A c \in calls : c.tab \in Tabs /\ c.kind # "refresh" => token[c.tab] = NoToken

(* Every token was issued. *)
TokensWereIssued ==
    /\ refreshTok \in Maybe(1..issued)
    /\ \A c \in calls : {c.rt, c.refresh} \subseteq Maybe(1..issued)

(* A refresh token still under way to a page is in nobody's hands. *)
UnderWayIsFresh ==
    \A c \in calls : c.refresh # NoToken =>
        /\ c.refresh # refreshTok
        /\ c.refresh \in live \union spoiled
        /\ \A d \in calls : d.rt # c.refresh /\ (d.refresh = c.refresh => d = c)

(* A page that is gone does not count on its call. *)
OrphansAreSpoiled ==
    \A c \in calls : c.tab = NoTab => c.rt \in Maybe(spoiled)

(* What a call whose answer brings a new token presented. *)
BeingExchanged(r) ==
    \E c \in calls : c.rt = r /\ c.tab \in Tabs /\ c.stage = "ok" /\ c.refresh # NoToken

StoredAccounted ==
    refreshTok \in live \union spoiled \union {NoToken} \/ BeingExchanged(refreshTok)

AuthInv ==
    /\ TypeOK
    /\ OneCallPerTab
    /\ ClosedWaitsForNothing
    /\ SignInsAreSignedOut

RotationInv ==
    /\ TokensWereIssued
    /\ UnderWayIsFresh
    /\ OrphansAreSpoiled
    /\ StoredAccounted
=============================================================================
