------------------------------- MODULE TxRing -------------------------------
(***************************************************************************)
(* The transmit ring of one FPGA connection (src/dbg_guv.c): commands are  *)
(* copied into a circular byte buffer by fpga_enqueue_tx, and the libevent *)
(* write callback drains it into a non-blocking socket.  wr_ev is a        *)
(* one-shot event: a byte left in the ring while it is not pending would   *)
(* stay there until the next command.                                      *)
(***************************************************************************)
EXTENDS Integers, Sequences

CONSTANTS Size,     \* FCI_BUF_SIZE
          W,        \* sizeof(uint32_t): bytes in an address or parameter word
          Byte,     \* byte values
          Zero,     \* the byte calloc leaves in a new buffer
          Latches,  \* address words whose register is LATCH
          Cmds,     \* address words of the other registers
          Params    \* parameter words

Words == Latches \cup Cmds \cup Params

(* The ring holds a whole number of words.  The code has 512 and 4. *)
ASSUME SizeAssumption ==
  /\ W \in Nat \ {0}
  /\ Size \in Nat \ {0}
  /\ \E m \in 1 .. Size : Size = m * W

ASSUME WordsAssumption ==
  /\ Zero \in Byte
  /\ Words \subseteq [1 .. W -> Byte]

VARIABLES out_buf,      \* fpga_connection_info.out_buf
          out_buf_pos,  \* read position
          out_buf_len,  \* bytes stored
          wr_pending,   \* wr_ev has been added and has not fired yet
          error_str,    \* the outcome the latest operation left in f->error_str
          alive,        \* the connection has not been cleaned up
          wire          \* what the latest write() handed to the socket

vars == <<out_buf, out_buf_pos, out_buf_len, wr_pending, error_str, alive, wire>>

Outcomes == {"SUCC", "NOT_ENOUGH_SPACE", "CNX_CLOSED", "EAGAIN", "EPIPE"}

-----------------------------------------------------------------------------
(* fpga_enqueue_tx, as operators on a buffer state *)

(* A length check one byte too generous. *)
LaxHasRoom(len) == ~ (Size - len + 1 < W)

(* The check at the top: is there room for one more word? *)
HasRoom(len) == ~ (Size - len < W)

WrPos(pos, len) == (pos + len) % Size

(* memcpy of a word at position p, split in two when it straddles the end. *)
Store(buf, p, w) ==
  IF p + W > Size
  THEN LET first_half_len  == Size - p - 1
           second_half_len == W - first_half_len
       IN  [i \in 0 .. Size - 1 |->
              CASE i \in p .. p + first_half_len - 1 -> w[i - p + 1]
                [] i \in 0 .. second_half_len - 1    -> w[first_half_len + i + 1]
                [] OTHER                             -> buf[i]]
  ELSE [i \in 0 .. Size - 1 |-> IF i \in p .. p + W - 1 THEN w[i - p + 1] ELSE buf[i]]

(* fpga_enqueue_tx of one word that fits. *)
EnqueueTx(w) ==
  /\ HasRoom(out_buf_len)
  /\ out_buf' = Store(out_buf, WrPos(out_buf_pos, out_buf_len), w)
  /\ out_buf_len' = out_buf_len + W

(* Two calls of fpga_enqueue_tx, both fitting. *)
EnqueueTwo(v, w) ==
  LET once == Store(out_buf, WrPos(out_buf_pos, out_buf_len), v)
  IN  /\ HasRoom(out_buf_len)
      /\ HasRoom(out_buf_len + W)
      /\ out_buf' = Store(once, WrPos(out_buf_pos, out_buf_len + W), w)
      /\ out_buf_len' = out_buf_len + W + W

-----------------------------------------------------------------------------
(* dbg_guv_send_cmd *)

(* Every word fitted; each enqueue has added wr_ev. *)
CmdQueued ==
  /\ wr_pending' = TRUE
  /\ error_str' = "SUCC"
  /\ wire' = << >>
  /\ UNCHANGED <<out_buf_pos, alive>>

(* The first enqueue already failed: nothing was touched. *)
CmdRefused ==
  /\ ~ HasRoom(out_buf_len)
  /\ error_str' = "NOT_ENOUGH_SPACE"
  /\ wire' = << >>
  /\ UNCHANGED <<out_buf, out_buf_pos, out_buf_len, wr_pending, alive>>

(* LATCH has no parameter word. *)
SendLatch(a) ==
  /\ alive
  /\ \/ EnqueueTx(a) /\ CmdQueued
     \/ CmdRefused

(* The address word fitted and the parameter did not: the call fails with  *)
(* the address word left in the ring and wr_ev pending.                    *)
CmdHalfQueued(a) ==
  /\ EnqueueTx(a)
  /\ ~ HasRoom(out_buf_len + W)
  /\ wr_pending' = TRUE
  /\ error_str' = "NOT_ENOUGH_SPACE"
  /\ wire' = << >>
  /\ UNCHANGED <<out_buf_pos, alive>>

SendReg(a, p) ==
  /\ alive
  /\ \/ EnqueueTwo(a, p) /\ CmdQueued
     \/ CmdHalfQueued(a)
     \/ CmdRefused

-----------------------------------------------------------------------------
(* write_fpga_connection, called by fpga_write_cb when wr_ev fires *)

(* The stored bytes that can be written without wrapping. *)
Contig ==
  IF out_buf_pos + out_buf_len > Size THEN Size - out_buf_pos ELSE out_buf_len

(* cleanup_fpga_connection: the events are freed, then the buffer. *)
Closed ==
  /\ alive' = FALSE
  /\ wr_pending' = FALSE
  /\ wire' = << >>
  /\ out_buf' = [i \in 0 .. Size - 1 |-> Zero]
  /\ out_buf_pos' = 0
  /\ out_buf_len' = 0

(* What errno can be when write() returns -1; write() of no bytes returns  *)
(* 0, which the code takes for a hang-up.                                  *)
WriteErrors == IF Contig = 0 THEN {"CNX_CLOSED"} ELSE {"EAGAIN", "EPIPE"}

(* write() returned -1 or 0.  The code compares rc, not errno, with        *)
(* EAGAIN, so every errno takes the error branch and fpga_write_cb cleans  *)
(* the connection up.                                                      *)
WriteFails ==
  /\ alive /\ wr_pending
  /\ error_str' \in WriteErrors
  /\ Closed

(* The read position after n bytes were written, or the start as soon as   *)
(* less than a word is left.                                               *)
EarlyReset(n) == IF out_buf_len - n < W THEN 0 ELSE (out_buf_pos + n) % Size
NextPos(n) == IF out_buf_len = n THEN 0 ELSE (out_buf_pos + n) % Size

(* Whether the callback adds wr_ev again, or never does. *)
NoRearm(n) == FALSE
Rearm(n) == out_buf_len # n

(* The socket took n bytes. *)
WriteSome(n) ==
  /\ alive /\ wr_pending
  /\ n \in 1 .. Contig
  /\ wire' = [i \in 1 .. n |-> out_buf[out_buf_pos + i - 1]]
  /\ out_buf_len' = out_buf_len - n
  /\ out_buf_pos' = NextPos(n)
  /\ wr_pending' = Rearm(n)
  /\ error_str' = "SUCC"
  /\ UNCHANGED <<out_buf, alive>>

WriteCb ==
  \/ WriteFails
  \/ \E n \in 1 .. Size : WriteSome(n)

(* fpga_read_cb or the close command cleans the connection up. *)
CloseConn ==
  /\ alive
  /\ error_str' = "CNX_CLOSED"
  /\ Closed

-----------------------------------------------------------------------------
(* new_fpga_connection and fpga_conn_cb *)
Init ==
  /\ out_buf = [i \in 0 .. Size - 1 |-> Zero]
  /\ out_buf_pos = 0
  /\ out_buf_len = 0
  /\ wr_pending = FALSE
  /\ error_str = "SUCC"
  /\ alive = TRUE
  /\ wire = << >>

Next ==
  \/ \E a \in Latches : SendLatch(a)
  \/ \E a \in Cmds, p \in Params : SendReg(a, p)
  \/ WriteCb
  \/ CloseConn

Spec == Init /\ [][Next]_vars

(* libevent fires a pending event of a ready descriptor, and the peer      *)
(* keeps reading.                                                          *)
FairSpec == Spec /\ WF_vars(WriteCb)

-----------------------------------------------------------------------------
(* The ring is well typed: positions stay inside the buffer. *)
TypeOK ==
  /\ out_buf \in [0 .. Size - 1 -> Byte]
  /\ out_buf_pos \in 0 .. Size - 1
  /\ out_buf_len \in 0 .. Size
  /\ wr_pending \in BOOLEAN
  /\ error_str \in Outcomes
  /\ alive \in BOOLEAN
  /\ wire \in Seq(Byte)

(* The write position is at a word boundary, whatever the socket took. *)
Aligned(n) == \E k \in 0 .. n : n = k * W
WriteAligned == Aligned(out_buf_pos + out_buf_len)

(* No word that fits ever straddles the end of the buffer, so the branch   *)
(* that splits one, with its off-by-one first half, is never taken.        *)
NeverSplits ==
  HasRoom(out_buf_len) => WrPos(out_buf_pos, out_buf_len) + W <= Size

(* wr_ev is pending exactly when there are bytes to write: no byte is left *)
(* without a wake-up, and no wake-up finds an empty ring, where write()    *)
(* would return 0 and the connection would be closed as if by the peer.    *)
ArmedIffPending == wr_pending <=> out_buf_len > 0

(* The bytes of a ring, oldest first. *)
Stored(buf, pos, len) == [i \in 1 .. len |-> buf[(pos + i - 1) % Size]]
Contents == Stored(out_buf, out_buf_pos, out_buf_len)

Fifo == INSTANCE ByteFifo
          WITH Capacity <- Size, queue <- Contents, up <- alive

(* The ring, its wrap-around and its partial writes are a FIFO of bytes. *)
ImplementsFifo == Fifo!Spec

(* A full ring makes room again unless the connection goes away, so a      *)
(* refused command can be given again: a partial write reschedules itself. *)
RoomAgain == ~ HasRoom(out_buf_len) ~> (HasRoom(out_buf_len) \/ ~ alive)

(* What the comment in write_fpga_connection says of a write that would    *)
(* block, "Nothing to do, but not an error": it does not close the         *)
(* connection.                                                             *)
EagainIsNotAnError == error_str = "EAGAIN" => alive
=============================================================================
