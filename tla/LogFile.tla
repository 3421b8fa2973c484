------------------------------- MODULE LogFile ------------------------------
(***************************************************************************)
(* The logging half of the file I/O manager (src/timonier.c): logs from    *)
(* the dbg_guv are copied into a circular buffer by log_fio, and the       *)
(* callback of a one-shot write event drains it into the file that rxfile  *)
(* opened.                                                                 *)
(***************************************************************************)
EXTENDS Integers, Sequences

CONSTANTS Size,   \* FIO_BUF_SIZE
          W,      \* the bytes of a log that are saved, whatever its length
          Logs,   \* the logs, each the function of its first W bytes
          Blank,  \* the byte calloc leaves in a new buffer
          Most,   \* bound: logs saved in one file
          Opens   \* bound: rxfile commands that open a file

(* The code has 512 and 8. *)
ASSUME LogFileAssumption ==
  /\ {W, Size} \subseteq Nat \ {0}
  /\ {Most, Opens} \subseteq Nat
  /\ \E m \in 1 .. Size : Size = m * W

Byte == {Blank} \cup UNION {{log[i] : i \in 1 .. W} : log \in Logs}
ASSUME LogsAssumption == Logs \subseteq [1 .. W -> Byte]

VARIABLES log_state,
          log_numsaved,  \* the count on display
          out_buf, out_buf_pos, out_buf_len,
          wr_ev,         \* file_wr_ev: none, idle, pending, freed
          wire,          \* what the latest write() put into the file
          written,       \* history: bytes written to the open file
          carried,       \* history: bytes the buffer held when it was opened
          opens,
          fault          \* memory misuse: none, or what happened

ring == <<out_buf, out_buf_pos, out_buf_len>>
history == <<written, carried>>
vars == <<log_state, log_numsaved, ring, wr_ev, wire, history, opens, fault>>

-----------------------------------------------------------------------------
(* log_fio *)

LaxHasRoom == Size - out_buf_len + 1 >= W
HasRoom == Size - out_buf_len >= W
WrPos == (out_buf_pos + out_buf_len) % Size

(* memcpy of a log at position p.  A log that straddles the end would be   *)
(* split one byte early and go on W words, not bytes, further in the log.  *)
Store(p, log) ==
  LET first == Size - p - 1
  IN  [i \in 0 .. Size - 1 |->
         IF p + W > Size
         THEN IF i \in p .. p + first - 1 THEN log[i - p + 1]
              ELSE IF i \in 0 .. W - first - 1 THEN Blank ELSE out_buf[i]
         ELSE IF i \in p .. p + W - 1 THEN log[i - p + 1] ELSE out_buf[i]]

(* event_add(f->file_wr_ev) *)
ForgetEvent == UNCHANGED <<wr_ev, fault>>
AddEvent ==
  IF wr_ev = "freed"
  THEN fault' = "freed_event" /\ UNCHANGED wr_ev
  ELSE wr_ev' = "pending" /\ UNCHANGED fault

Running == fault = "none" /\ log_state # "FREED"

(* An overflow that drops the log and goes on. *)
DropLog ==
  /\ log_numsaved' = log_numsaved + 1
  /\ UNCHANGED <<log_state, ring, wr_ev, fault>>
Overflow ==
  /\ log_state' = "ERROR"
  /\ UNCHANGED <<log_numsaved, ring, wr_ev, fault>>

Log(log) ==
  /\ Running
  /\ log_state = "LOGGING"
  /\ log_numsaved < Most
  /\ IF HasRoom
     THEN /\ out_buf' = Store(WrPos, log)
          /\ out_buf_len' = out_buf_len + W
          /\ log_numsaved' = log_numsaved + 1
          /\ AddEvent
          /\ UNCHANGED <<log_state, out_buf_pos>>
     ELSE Overflow
  /\ wire' = << >>
  /\ UNCHANGED <<history, opens>>

-----------------------------------------------------------------------------
(* fio_file_wr_ev *)

Contig == IF out_buf_pos + out_buf_len > Size THEN Size - out_buf_pos ELSE out_buf_len

(* The read position, or the start whenever less than a log is left. *)
EarlyReset(n) == IF out_buf_len - n < W THEN 0 ELSE (out_buf_pos + n) % Size
NextPos(n) == IF out_buf_len = n THEN 0 ELSE (out_buf_pos + n) % Size

WriteSome(n) ==
  /\ n \in 1 .. Contig
  /\ wire' = [i \in 1 .. n |-> out_buf[out_buf_pos + i - 1]]
  /\ out_buf_len' = out_buf_len - n
  /\ out_buf_pos' = NextPos(n)
  /\ wr_ev' = IF out_buf_len = n THEN "idle" ELSE "pending"
  /\ written' = written + n
  /\ UNCHANGED <<log_state, out_buf>>

(* write() failed, or wrote nothing; the test for EAGAIN is of rc, which   *)
(* is -1, so every errno is an error.                                      *)
WriteFails ==
  /\ log_state' = "ERROR"
  /\ wr_ev' = "idle"
  /\ wire' = << >>
  /\ UNCHANGED <<ring, written>>

FileWriteCb ==
  /\ Running
  /\ wr_ev = "pending"
  /\ WriteFails \/ \E n \in 1 .. Size : WriteSome(n)
  /\ UNCHANGED <<log_numsaved, carried, opens, fault>>

-----------------------------------------------------------------------------
(* got_line_fio *)

(* The event of a file that was open is freed, unless it already was. *)
FreeEvent == fault' = IF wr_ev = "freed" THEN "freed_event" ELSE "none"

(* rxfile of a file that opens.  The buffer is not emptied. *)
RxFile ==
  /\ Running
  /\ opens < Opens
  /\ opens' = opens + 1
  /\ FreeEvent
  /\ wr_ev' = "idle"
  /\ log_state' = "IDLE"
  /\ log_numsaved' = 0
  /\ written' = 0
  /\ carried' = out_buf_len
  /\ wire' = << >>
  /\ UNCHANGED ring

(* rxfile of a file that does not: the state still names the closed file.  *)
RxFileFails ==
  /\ Running
  /\ FreeEvent
  /\ wr_ev' = IF log_state = "NOFILE" THEN wr_ev ELSE "freed"
  /\ wire' = << >>
  /\ UNCHANGED <<log_state, log_numsaved, ring, history, opens>>

LogOn ==
  /\ Running
  /\ log_state = "IDLE"
  /\ log_state' = "LOGGING"
  /\ wire' = << >>
  /\ UNCHANGED <<log_numsaved, ring, wr_ev, history, opens, fault>>

LogOff ==
  /\ Running
  /\ log_state = "LOGGING"
  /\ log_state' = "IDLE"
  /\ wire' = << >>
  /\ UNCHANGED <<log_numsaved, ring, wr_ev, history, opens, fault>>

(* cleanup_fio *)
Cleanup ==
  /\ Running
  /\ IF log_state = "NOFILE" THEN UNCHANGED fault ELSE FreeEvent
  /\ wr_ev' = "none"
  /\ log_state' = "FREED"
  /\ wire' = << >>
  /\ UNCHANGED <<log_numsaved, ring, history, opens>>

-----------------------------------------------------------------------------
(* init_fio *)
Init ==
  /\ log_state = "NOFILE"
  /\ log_numsaved = 0
  /\ out_buf = [i \in 0 .. Size - 1 |-> Blank]
  /\ out_buf_pos = 0
  /\ out_buf_len = 0
  /\ wr_ev = "none"
  /\ wire = << >>
  /\ written = 0 /\ carried = 0
  /\ opens = 0
  /\ fault = "none"

Next ==
  \/ \E log \in Logs : Log(log)
  \/ FileWriteCb
  \/ RxFile
  \/ RxFileFails
  \/ LogOn
  \/ LogOff
  \/ Cleanup

Spec == Init /\ [][Next]_vars

(* libevent fires the pending event of a file that can be written. *)
FairSpec == Spec /\ WF_vars(FileWriteCb)

-----------------------------------------------------------------------------
TypeOK ==
  /\ log_state \in {"NOFILE", "IDLE", "LOGGING", "ERROR", "FREED"}
  /\ log_numsaved \in 0 .. Most
  /\ out_buf \in [0 .. Size - 1 -> Byte]
  /\ out_buf_pos \in 0 .. Size - 1
  /\ out_buf_len \in 0 .. Size
  /\ wr_ev \in {"none", "idle", "pending", "freed"}
  /\ written \in Nat
  /\ carried \in 0 .. Size
  /\ opens \in 0 .. Opens
  /\ fault \in {"none", "freed_event"}

(* However the writes cut the buffer up, a log that fits does not straddle *)
(* its end: the branch that would corrupt it is dead.                      *)
NeverSplits == HasRoom => WrPos + W <= Size

(* The bytes of the ring, oldest first. *)
Contents == [i \in 1 .. out_buf_len |-> out_buf[(out_buf_pos + i - 1) % Size]]
Fifo == INSTANCE ByteFifo
          WITH Capacity <- Size, Words <- Logs, queue <- Contents, up <- TRUE

(* What is written is what was logged, in order and each byte once, across *)
(* errors and changes of file.                                             *)
ImplementsFifo == Fifo!Spec

(* The count on display accounts for every byte that is in the file or on  *)
(* its way there, but for those an earlier file left in the buffer.        *)
SavedCount ==
  log_state \notin {"NOFILE", "FREED"} => W * log_numsaved + carried = written + out_buf_len

(* Once a log has been saved in a file, bytes that wait have a wake-up     *)
(* pending, and no wake-up finds an empty buffer, whose write() of nothing *)
(* would be taken for a file that was closed.                              *)
Awake ==
  /\ wr_ev = "pending" => out_buf_len > 0
  /\ log_state \in {"IDLE", "LOGGING"} /\ log_numsaved > 0 /\ wr_ev # "freed" =>
       (out_buf_len > 0 => wr_ev = "pending")

(* What waits in the buffer gets into the file, unless there is an error   *)
(* or the user turns to another file.                                      *)
GivenUp == ~ Running \/ log_state = "ERROR" \/ log_numsaved = 0 \/ wr_ev = "freed"
Drains == out_buf_len > 0 ~> out_buf_len = 0 \/ GivenUp
=============================================================================
