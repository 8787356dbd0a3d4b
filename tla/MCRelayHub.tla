----------------------------- MODULE MCRelayHub -----------------------------
(* RelayHub on small instances.  p1 and p2 are two connections of the phone,  *)
(* the second made before or after the relay noticed the end of the first; t1 *)
(* is the tablet's, in the same room; o1 is another user's, in another room.  *)
EXTENDS RelayHub

CONSTANTS p1, p2, t1, o1,  (* connections *)
          phone, tablet, other,
          roomA, roomB,
          uuidP, uuidT, uuidO

(* A reconnecting phone and a tablet. *)
ThreeDeviceOf == [c \in {p1, p2, t1} |-> IF c = t1 THEN tablet ELSE phone]
ThreeRoomOf   == [c \in {p1, p2, t1} |-> roomA]

(* With a JWT the device id is the token's, the frames carry a local UUID. *)
ThreeLocalId == [c \in {p1, p2, t1} |-> IF c = t1 THEN uuidT ELSE uuidP]

(* A reconnecting phone and another user in another room. *)
RoomsDeviceOf == [c \in {p1, p2, o1} |-> IF c = o1 THEN other ELSE phone]
RoomsRoomOf   == [c \in {p1, p2, o1} |-> IF c = o1 THEN roomB ELSE roomA]
RoomsLocalId  == [c \in {p1, p2, o1} |-> IF c = o1 THEN uuidO ELSE uuidP]

(* Who sends how many frames. *)
TabletTwice   == [c \in Conns |-> IF c = t1 THEN 2 ELSE 0]
TabletOnce    == [c \in Conns |-> IF c = t1 THEN 1 ELSE 0]
FirstAndOther == [c \in Conns |-> IF c = p2 THEN 0 ELSE 1]
=============================================================================
