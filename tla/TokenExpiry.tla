----------------------------- MODULE TokenExpiry -----------------------------
(* One authenticated connection against the clock: the handler of ws.go from  *)
(* the validated token on, its reader as far as control messages go, and the  *)
(* goroutine that warns of the token's expiry and closes the connection.      *)
(*                                                                            *)
(* Time is discrete, a tick standing for a time in which every goroutine that *)
(* can run has run: Tick waits for those.  What does take time is a token's   *)
(* validation (it may fetch keys) and a write to a peer that does not read.   *)
EXTENDS Integers, Sequences

CONSTANTS
    Grace,       (* reAuthWarningBefore, two minutes in the code             *)
    NoExpiry,    (* the ExpiresAt of a token that has none                   *)
    Lifetimes,   (* bound: how long the tokens presented are still good for  *)
    MaxTime,     (* bound: the clock stops here                              *)
    MaxReauths   (* bound: reauth messages of the client                     *)

ASSUME TokenExpiryAssumption ==
    /\ Grace \in Nat
    /\ NoExpiry \notin Int
    /\ Lifetimes \subseteq Nat
    /\ MaxTime \in Nat
    /\ MaxReauths \in Nat

(* A token is known by its expiry. *)
Token == Nat \union {NoExpiry}

VARIABLES
    now,        (* the clock                                                 *)
    ws,         (* the WebSocket: open, stalled (the peer is not reading,    *)
                (* writes wait), closed                                      *)
    ctx,        (* the handler's context: live, cancelled                    *)
    pc,         (* the handler: upgrading, reading, checking, acking, gone   *)
    token,      (* the token being checked                                   *)
    reauths,    (* reauth messages so far                                    *)
    expiry,     (* the goroutine: off, warn, writing, grace, done            *)
    deadline,   (* when its timer fires                                      *)
    reauthCh,   (* reauthCh, with the token each duration was computed from  *)
    taken,      (* auxiliary: the token the timer is set for                 *)
    due,        (* auxiliary: when the tokens accepted so far allow no more  *)
    waited,     (* auxiliary: ticks spent writing a warning, all together    *)
    warned      (* auxiliary: when the last warning had been written         *)

socket == <<ws, ctx>>
reader == <<pc, token, reauths>>
timer  == <<expiry, deadline, reauthCh>>
aux    == <<taken, due, waited, warned>>
vars   == <<now, socket, reader, timer, aux>>

-----------------------------------------------------------------------------
Larger(a, b) == IF a < b THEN b ELSE a

(* Validation refuses a token at its expiry; a token without one passes. *)
Unexpired(t) == t # NoExpiry => now < t

TimeUntilExpiry(t) == IF t = NoExpiry THEN 0 ELSE t - now

(* Slip: the warning comes when the token has expired. *)
WarnAtExpiry(ttl) == Larger(ttl, 0)
(* How long the goroutine waits before it warns. *)
WarnAfter(ttl) == Larger(ttl - Grace, 0)

(* A connection that presents token t now may stay open until then. *)
EndOf(t) == IF t = NoExpiry THEN now + Grace ELSE Larger(t, now + Grace)

(* A write returns at once, unless the peer is not reading. *)
CanWrite == ws # "stalled" \/ ctx = "cancelled"

(* The tokens a client may present. *)
Presented == {now + l : l \in Lifetimes} \union {NoExpiry}
-----------------------------------------------------------------------------
(* A token was validated; the upgrade, Register and the replay are under way. *)
Init ==
    /\ now = 0
    /\ ws = "open"
    /\ ctx = "live"
    /\ pc = "upgrading"
    /\ token \in {t \in Presented : Unexpired(t)}
    /\ reauths = 0
    /\ expiry = "off"
    /\ deadline = 0
    /\ reauthCh = <<>>
    /\ taken = token
    /\ due = 0
    /\ waited = 0
    /\ warned = 0

(* The handler sets the timer, which may be after the token expired, and      *)
(* starts the goroutine and the reader loop.                                  *)
Start ==
    /\ pc = "upgrading"
    /\ pc' = "reading"
    /\ expiry' = "warn"
    /\ deadline' = now + WarnAfter(TimeUntilExpiry(token))
    /\ due' = EndOf(token)
    /\ UNCHANGED <<now, socket, token, reauths, reauthCh,
                   taken, waited, warned>>

(* The reader gets a reauth message. *)
Reauth ==
    /\ pc = "reading"
    /\ ws # "closed" /\ ctx = "live"
    /\ reauths < MaxReauths
    /\ reauths' = reauths + 1
    /\ token' \in Presented
    /\ pc' = "checking"
    /\ UNCHANGED <<now, socket, timer, aux>>

(* A send on reauthCh that does not wait: its capacity is one. *)
Offer ==
    reauthCh' = IF reauthCh = <<>>
                THEN <<[of |-> token, ttl |-> TimeUntilExpiry(token)]>>
                ELSE reauthCh

(* Validate accepts the token.  It is acknowledged, offered or not. *)
Accept ==
    /\ pc = "checking"
    /\ Unexpired(token)
    /\ Offer
    /\ pc' = "acking"
    /\ due' = Larger(due, EndOf(token))
    /\ UNCHANGED <<now, socket, token, reauths, expiry, deadline, taken, waited, warned>>

(* Slip: the handler returns without cancelling its context. *)
ReturnUncancelled ==
    /\ pc' = "gone"
    /\ ws' = "closed"
    /\ UNCHANGED ctx
(* The handler returns: its deferred cancel runs, the connection is over. *)
Return ==
    /\ pc' = "gone"
    /\ ws' = "closed"
    /\ ctx' = "cancelled"

(* Validate refuses: expired, not verifiable, or the context was cancelled. *)
Refuse ==
    /\ pc = "checking"
    /\ Return
    /\ UNCHANGED <<now, token, reauths, timer, aux>>

(* reauth_ok is written, or the write failed, which is not looked at. *)
Ack ==
    /\ pc = "acking"
    /\ CanWrite
    /\ pc' = "reading"
    /\ UNCHANGED <<now, socket, token, reauths, timer, aux>>

(* The reader fails: the peer left, or the connection was closed under it. *)
ReaderEnds ==
    /\ pc = "reading"
    /\ Return
    /\ UNCHANGED <<now, token, reauths, timer, aux>>

-----------------------------------------------------------------------------
(* The goroutine's timer fires in its first select; the warning is under way. *)
Warn ==
    /\ expiry = "warn"
    /\ deadline <= now
    /\ expiry' = "writing"
    /\ UNCHANGED <<now, socket, reader, deadline, reauthCh, aux>>

(* Slip: the second timer is not started anew. *)
WarnedSameTimer ==
    /\ expiry = "writing"
    /\ CanWrite
    /\ expiry' = "grace"
    /\ warned' = now
    /\ UNCHANGED <<now, socket, reader, deadline, reauthCh,
                   taken, due, waited>>
(* The warning was written, or could not be; the second select begins. *)
Warned ==
    /\ expiry = "writing"
    /\ CanWrite
    /\ expiry' = "grace"
    /\ deadline' = now + Grace
    /\ warned' = now
    /\ UNCHANGED <<now, socket, reader, reauthCh, taken, due, waited>>

(* Either select receives a duration.  It may do so with the timer due. *)
TakeReauth ==
    /\ expiry \in {"warn", "grace"}
    /\ reauthCh # <<>>
    /\ expiry' = "warn"
    /\ deadline' = now + WarnAfter(Head(reauthCh).ttl)
    /\ reauthCh' = Tail(reauthCh)
    /\ taken' = Head(reauthCh).of
    /\ UNCHANGED <<now, socket, reader, due, waited, warned>>

(* The grace period is over, also if a duration has come in meanwhile. *)
Expire ==
    /\ expiry = "grace"
    /\ deadline <= now
    /\ expiry' = "done"
    /\ ws' = "closed"
    /\ ctx' = "cancelled"
    /\ UNCHANGED <<now, reader, deadline, reauthCh, aux>>

(* Either select sees that the context is cancelled. *)
Stop ==
    /\ expiry \in {"warn", "grace"}
    /\ ctx = "cancelled"
    /\ expiry' = "done"
    /\ UNCHANGED <<now, socket, reader, deadline, reauthCh, aux>>

-----------------------------------------------------------------------------
(* The peer stops reading, or reads again. *)
Stall ==
    /\ ws # "closed"
    /\ ws' = IF ws = "open" THEN "stalled" ELSE "open"
    /\ UNCHANGED <<now, ctx, reader, timer, aux>>

(* Some goroutine can run. *)
Runnable ==
    \/ expiry \in {"warn", "grace"} /\ (deadline <= now \/ reauthCh # <<>> \/ ctx = "cancelled")
    \/ expiry = "writing" /\ CanWrite
    \/ pc = "acking" /\ CanWrite
    \/ pc = "reading" /\ ws = "closed"

Tick ==
    /\ now < MaxTime
    /\ ~Runnable
    /\ now' = now + 1
    /\ waited' = waited + IF expiry = "writing" THEN 1 ELSE 0
    /\ UNCHANGED <<socket, reader, timer, taken, due, warned>>

Handler == Start \/ Reauth \/ Accept \/ Refuse \/ Ack \/ ReaderEnds
Goroutine == Warn \/ Warned \/ TakeReauth \/ Expire \/ Stop
Next == Handler \/ Goroutine \/ Stall \/ Tick

(* A goroutine that can run does.  Nothing makes the clock advance, the peer  *)
(* read, or a validation answer before its context is cancelled.              *)
Spec ==
    /\ Init /\ [][Next]_vars
    /\ WF_vars(Goroutine)
    /\ WF_vars(Ack)
    /\ WF_vars(ctx = "cancelled" /\ Refuse)
    /\ WF_vars(ws = "closed" /\ ReaderEnds)

-----------------------------------------------------------------------------
TypeOK ==
    /\ now \in Nat
    /\ ws \in {"open", "stalled", "closed"}
    /\ ctx \in {"live", "cancelled"}
    /\ pc \in {"upgrading", "reading", "checking", "acking", "gone"}
    /\ token \in Token
    /\ reauths \in 0..MaxReauths
    /\ expiry \in {"off", "warn", "writing", "grace", "done"}
    /\ deadline \in Nat
    /\ Len(reauthCh) <= 1
    /\ reauthCh \in Seq([of : Token, ttl : Int])
    /\ taken \in Token
    /\ due \in Nat /\ waited \in Nat /\ warned \in Nat

(* "After expiry, close the connection" (ws.go:89): a connection is not open  *)
(* later than the longest-lived token it presented, or, for a token that had  *)
(* less than the grace period left, than the grace period after that.  The    *)
(* time the goroutine waits for the peer to read a warning (ws.go:118, which  *)
(* has no limit) comes on top, and nothing else does.                         *)
ClosedInTime == pc # "upgrading" /\ ws # "closed" => now <= due + waited

(* The goroutine closes only a connection whose timer's token has expired and *)
(* whose client had the whole grace period to answer the warning.             *)
EndsFairly ==
    [][expiry' = "done" /\ ctx = "live" =>
           /\ TimeUntilExpiry(taken) <= 0
           /\ now - warned >= Grace]_vars

(* Reader and goroutine end together: the goroutine does not sit out its      *)
(* timer when the connection is gone, and a reader that waits for a           *)
(* validation, for a frame or for a stalled peer ends when it is closed.      *)
EndTogether ==
    ctx = "cancelled" \/ pc = "gone" ~> pc = "gone" /\ expiry = "done"
=============================================================================
