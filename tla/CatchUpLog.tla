----------------------------- MODULE CatchUpLog -----------------------------
(* What the relay promises a device that joins a room late: a window over the *)
(* frames the room has accepted.  The window always ends with the newest      *)
(* frames the relay still holds, old frames leave it from the front only, and *)
(* a relay restart may lose frames but never reorders, repeats or invents     *)
(* one.  RoomBuffer (memory plus SQLite) is shown to implement this module.   *)
EXTENDS Naturals, Sequences

CONSTANTS Rooms,   (* the rooms of the relay                     *)
          Frame    (* the frames a device may push into a room   *)

VARIABLES log,     (* log[r]: every frame room r ever accepted   *)
          window   (* window[r]: what a device joining r is sent *)

vars == <<log, window>>

(* w lists some entries of l, each at most once and in l's order. *)
IsSelection(w, l) ==
    \E p \in [1..Len(w) -> 1..Len(l)] :
        /\ \A i, j \in 1..Len(w) : i < j => p[i] < p[j]
        /\ \A i \in 1..Len(w) : w[i] = l[p[i]]

(* s without its first k entries. *)
DropFirst(s, k) == SubSeq(s, k + 1, Len(s))

Init ==
    /\ log = [r \in Rooms |-> <<>>]
    /\ window = [r \in Rooms |-> <<>>]

(* A frame is accepted; the oldest frames of the window may be evicted. *)
Accept(r, f) ==
    /\ log' = [log EXCEPT ![r] = Append(@, f)]
    /\ \E k \in 0..(Len(window[r]) + 1) :
          window' = [window EXCEPT ![r] = DropFirst(Append(@, f), k)]

(* The relay process dies: nobody can be caught up until it is back. *)
Crash ==
    /\ window' = [r \in Rooms |-> <<>>]
    /\ UNCHANGED log

(* A room comes back after a crash with the frames that reached the disk. *)
Restore(r) ==
    /\ window[r] = <<>>
    /\ window' = [window EXCEPT ![r] = window'[r]]
    /\ IsSelection(window'[r], log[r])
    /\ UNCHANGED log

Next ==
    \/ \E r \in Rooms, f \in Frame : Accept(r, f)
    \/ Crash
    \/ \E r \in Rooms : Restore(r)

Spec == Init /\ [][Next]_vars
=============================================================================
