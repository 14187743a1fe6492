--------------------------------- MODULE Seating -------------------------------
(***************************************************************************)
(* What a room promises about its players' seats and the connections that  *)
(* sit in them, whatever happens on the wire.  A seat, once minted, stays; *)
(* one connection at most sits in it; a connection sits down at most once, *)
(* in one seat, and when it gets up or is made to, it is over.             *)
(***************************************************************************)
EXTENDS Sequences, FiniteSets

CONSTANTS
  Conn,        \* connections, each used once
  NoConn       \* an empty seat

VARIABLES
  seat,        \* who sits where, in the order the seats were minted
  status       \* each connection: "new", "seated" or "over"

vars == <<seat, status>>

Seated == {c \in Conn : status[c] = "seated"}

Without(seats, leaving) ==
  [p \in DOMAIN seats |-> IF seats[p] \in leaving THEN NoConn ELSE seats[p]]

Status(seated, leaving) ==
  [c \in Conn |-> IF c \in leaving THEN "over"
                  ELSE IF c \in seated THEN "seated" ELSE status[c]]

Init ==
  /\ seat = <<>>
  /\ status = [c \in Conn |-> "new"]

(* A newcomer mints a seat.  The news may cost those who do not read their *)
(* seats, itself included.                                                 *)
Sit(c, slow) ==
  /\ status[c] = "new"
  /\ slow \subseteq Seated \cup {c}
  /\ seat' = Without(Append(seat, c), slow)
  /\ status' = Status({c}, slow)

(* A player comes back to its seat; who sits there still is made to go.    *)
Take(c, p) ==
  /\ status[c] = "new"
  /\ p \in DOMAIN seat
  /\ seat' = [seat EXCEPT ![p] = c]
  /\ status' = Status({c}, {seat[p]} \ {NoConn})

(* Some get up, or are dropped, or never sat down: only their own seats    *)
(* are emptied.                                                            *)
Leave(leaving) ==
  /\ \A c \in leaving : status[c] # "over"
  /\ seat' = Without(seat, leaving)
  /\ status' = Status({}, leaving)

Next ==
  \/ \E c \in Conn :
       \/ \E slow \in SUBSET Conn : Sit(c, slow)
       \/ \E p \in DOMAIN seat : Take(c, p)
  \/ \E leaving \in SUBSET Conn : Leave(leaving)

Spec == Init /\ [][Next]_vars
===============================================================================
