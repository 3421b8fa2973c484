------------------------------ MODULE ByteFifo ------------------------------
(***************************************************************************)
(* What the transmit side of an FPGA connection promises to the rest of    *)
(* the program: a bounded first-in first-out queue of bytes between        *)
(* dbg_guv_send_cmd and the socket.  Whole words enter at the tail, any    *)
(* non-empty prefix leaves in one write, nothing is lost, reordered or     *)
(* repeated while the connection is up.  TxRing implements it.             *)
(***************************************************************************)
EXTENDS Naturals, Sequences

CONSTANTS Capacity,  \* bytes the queue can hold (FCI_BUF_SIZE)
          Words      \* the words that can be queued, each a sequence of bytes

VARIABLES queue,  \* the bytes accepted and not yet written, oldest first
          wire,   \* the bytes handed to the socket by the latest write, <<>> otherwise
          up      \* the connection is open

fifoVars == <<queue, wire, up>>

Init ==
  /\ queue = << >>
  /\ wire = << >>
  /\ up = TRUE

(* One word is accepted. *)
Put(w) ==
  /\ up
  /\ Len(queue) + Len(w) <= Capacity
  /\ queue' = queue \o w
  /\ wire' = << >>
  /\ up' = up

(* Two words are accepted together: an address word and its parameter. *)
PutTwo(v, w) ==
  /\ up
  /\ Len(queue) + Len(v) + Len(w) <= Capacity
  /\ queue' = (queue \o v) \o w
  /\ wire' = << >>
  /\ up' = up

(* Nothing is accepted, or the socket would have blocked. *)
Idle ==
  /\ up
  /\ wire' = << >>
  /\ UNCHANGED <<queue, up>>

(* The socket takes the n oldest bytes. *)
Take(n) ==
  /\ up
  /\ wire' = SubSeq(queue, 1, n)
  /\ queue' = SubSeq(queue, n + 1, Len(queue))
  /\ up' = up

(* The connection is closed and what it still held is gone. *)
Drop ==
  /\ up
  /\ up' = FALSE
  /\ queue' = << >>
  /\ wire' = << >>

Next ==
  \/ \E w \in Words : Put(w)
  \/ \E v, w \in Words : PutTwo(v, w)
  \/ Idle
  \/ \E n \in 1 .. Len(queue) : Take(n)
  \/ Drop

Spec == Init /\ [][Next]_fifoVars
=============================================================================
