-------------------------------- MODULE Fio ---------------------------------
(***************************************************************************)
(* The sending half of the file I/O manager (src/timonier.c): a file is    *)
(* read a piece at a time and injected a word at a time into the stream    *)
(* behind a dbg_guv, each word waiting for the receipt of its LATCH.  The  *)
(* state machine is driven by four callbacks: file readable, receipt,      *)
(* retry timer and command line.  The FPGA behind the connection is the    *)
(* software model in src/fake_dbg_guv.c.                                   *)
(***************************************************************************)
EXTENDS Integers, Sequences, FiniteSets, SequencesExt

CONSTANTS W,        \* bytes in a TDATA word
          Size,     \* FIO_BUF_SIZE
          FileLen,  \* bytes in the file opened by txfile
          Queue,    \* bound: commands between the program and the FPGA
          Line,     \* the commands the user gives beside txfile and send
          Opens,    \* bound: txfile commands
          Latches,  \* bound: LATCHes the user sends
          Timers    \* bound: retry timers pending at once

ASSUME FioAssumption ==
  /\ {W, Size, Queue, Opens} \subseteq Nat \ {0}
  /\ {FileLen, Latches, Timers} \subseteq Nat
  /\ \E m \in 1 .. Size : Size = m * W
  /\ Line \subseteq {"pause", "cont", "latch", "badfile", "mgr"}

VARIABLES send_state, resume_pos, send_retries, send_pause, send_bytes,
          in_buf,       \* the in_buf_len bytes from in_buf_pos on
          in_buf_pos,
          offset,       \* bytes read from the open file
          rd_ev,        \* file_rd_ev: none, idle, pending, freed
          timers,       \* pending event_base_once(retry_inject)
          inj_failed,   \* the owner's mirror of the last receipt
          to_dev,       \* commands on their way to the FPGA
          to_host,      \* receipts on their way back: did the inject fail
          dev,          \* the FPGA's scratch and live inject registers
          injected,     \* the words the FPGA has taken
          opens, latches,
          fault         \* memory misuse: none, or what happened

fsm == <<send_state, resume_pos, send_retries, send_bytes>>
buffer == <<in_buf, in_buf_pos>>
file == <<offset, rd_ev>>
fpga == <<to_host, dev, injected>>
user == <<opens, latches>>
vars == <<fsm, send_pause, buffer, file, timers, inj_failed, to_dev, fpga, user, fault>>

Sending == {"WAIT_READ", "WAIT_ACK"}
SendStates == {"NOFILE", "IDLE", "PAUSED", "DONE", "ERROR", "FREED"} \cup Sending
Labels == {"schedule_read", "schedule_retry_inject", "schedule_buffer_topup", "send_next_inject"}

Junk == << >>   \* an indeterminate word

Tdata(w) == <<"INJ_TDATA", w>>
Tvalid(b) == <<"INJ_TVALID", b>>
Latch == <<"LATCH">>
Cmds == ({"INJ_TDATA"} \X Seq(Int)) \cup ({"INJ_TVALID"} \X BOOLEAN) \cup {Latch}

-----------------------------------------------------------------------------
(* dbg_guv_send_cmd for each command in turn, up to the first that does    *)
(* not fit.                                                                *)
Fits(cmds) == Len(to_dev) + Len(cmds) <= Queue
Enqueue(cmds) ==
  to_dev' = to_dev \o (IF Fits(cmds) THEN cmds ELSE SubSeq(cmds, 1, Queue - Len(to_dev)))

(* Commands that move the machine to a state, or to FIO_ERROR. *)
SendThen(cmds, state) ==
  /\ Enqueue(cmds)
  /\ send_state' = IF Fits(cmds) THEN state ELSE "ERROR"

(* event_add(f->file_rd_ev), or only the state that waits for it. *)
ForgetToSchedule ==
  /\ send_state' = "WAIT_READ"
  /\ UNCHANGED <<rd_ev, fault>>
ScheduleRead ==
  /\ IF rd_ev = "freed"
     THEN fault' = "freed_event" /\ UNCHANGED rd_ev
     ELSE rd_ev' = "pending" /\ UNCHANGED fault
  /\ send_state' = "WAIT_READ"

Pause(label) ==
  /\ send_state' = "PAUSED"
  /\ resume_pos' = label

-----------------------------------------------------------------------------
(* sendfile_fsm, by label.  Each leaves offset, the receipts, the FPGA and *)
(* the user's bounds alone.                                                *)

(* schedule_read and schedule_buffer_topup *)
WaitForRead ==
  /\ ScheduleRead
  /\ UNCHANGED <<resume_pos, send_retries, timers, to_dev>>

(* One try too many before giving up. *)
LaxTooManyRetries == send_retries > 3
TooManyRetries == send_retries > 2

(* A retry that is sent at once as well as later. *)
RetryTwice ==
  /\ IF TooManyRetries
     THEN send_state' = "ERROR" /\ UNCHANGED <<send_retries, timers, to_dev>>
     ELSE /\ send_retries' = send_retries + 1
          /\ timers' = timers + 1
          /\ Enqueue(<<Latch>>)
          /\ UNCHANGED send_state
  /\ UNCHANGED <<resume_pos, rd_ev, fault>>

(* schedule_retry_inject does not set send_state unless it gives up, and   *)
(* asks the file's event for the event loop.                               *)
RetryInject ==
  /\ IF TooManyRetries
     THEN send_state' = "ERROR" /\ UNCHANGED <<send_retries, timers, fault>>
     ELSE /\ timers < Timers
          /\ fault' = IF rd_ev = "freed" THEN "freed_event" ELSE fault
          /\ send_retries' = send_retries + 1
          /\ timers' = timers + 1
          /\ UNCHANGED send_state
  /\ UNCHANGED <<resume_pos, rd_ev, to_dev>>

(* The next word latched before it is written. *)
NextLatchFirst(w) == <<Latch, Tdata(w)>>
NextCmds(w) == <<Tdata(w), Latch>>

(* send_next_inject *)
SendNext(w) ==
  /\ SendThen(NextCmds(w), "WAIT_ACK")
  /\ UNCHANGED <<resume_pos, send_retries, rd_ev, timers, fault>>

(* FIO_IDLE *)
FsmIdle(paused) ==
  /\ IF paused
     THEN Pause("schedule_read") /\ UNCHANGED <<send_retries, rd_ev, timers, to_dev, fault>>
     ELSE WaitForRead
  /\ UNCHANGED <<send_bytes, buffer>>

(* FIO_WAIT_ACK after a failed inject *)
FsmFailed(paused) ==
  /\ IF paused
     THEN /\ Pause("schedule_retry_inject")
          /\ UNCHANGED <<send_retries, rd_ev, timers, to_dev, fault>>
     ELSE RetryInject
  /\ UNCHANGED <<send_bytes, buffer>>

(* Take the next word out of the buffer. *)
Word == SubSeq(in_buf, 1, W)
TakeWord(b, p) ==
  /\ in_buf' = SubSeq(b, W + 1, Len(b))
  /\ in_buf_pos' = p + W

(* FIO_WAIT_ACK after a successful inject: read more, or send the next     *)
(* word, which leaves the buffer before the machine looks at send_pause.   *)
FsmAcked(paused) ==
  /\ send_bytes' = send_bytes + W
  /\ send_retries' = 0
  /\ UNCHANGED timers
  /\ IF Len(in_buf) < W
     THEN /\ IF paused
             THEN Pause("schedule_buffer_topup") /\ UNCHANGED <<rd_ev, fault>>
             ELSE ScheduleRead /\ UNCHANGED resume_pos
          /\ UNCHANGED <<buffer, to_dev>>
     ELSE /\ TakeWord(in_buf, in_buf_pos)
          /\ IF paused
             THEN Pause("send_next_inject") /\ UNCHANGED to_dev
             ELSE SendThen(NextCmds(Word), "WAIT_ACK") /\ UNCHANGED resume_pos
          /\ UNCHANGED <<rd_ev, fault>>

(* FIO_PAUSED and no longer to be: goto *resume_pos.  tdata is a local of  *)
(* sendfile_fsm, so at send_next_inject it is indeterminate: what an       *)
(* earlier call left there, or anything else.                              *)
FsmResume ==
  /\ CASE resume_pos \in {"schedule_read", "schedule_buffer_topup"} -> WaitForRead
       [] resume_pos = "schedule_retry_inject" -> RetryInject
       [] OTHER -> \E w \in {Junk, [i \in 1 .. W |-> offset - Len(in_buf) - W + i]} : SendNext(w)
  /\ UNCHANGED <<send_bytes, buffer>>

FsmNothing == UNCHANGED <<fsm, buffer, rd_ev, timers, to_dev, fault>>

Fsm(paused) ==
  CASE send_state = "IDLE" -> FsmIdle(paused)
    [] send_state = "WAIT_ACK" -> IF inj_failed THEN FsmFailed(paused) ELSE FsmAcked(paused)
    [] send_state = "PAUSED" /\ ~ paused -> FsmResume
    [] OTHER -> FsmNothing

-----------------------------------------------------------------------------
(* The callbacks *)

Running == fault = "none"

(* Reading where the buffer is full looks like the end of the file. *)
KeepPosition == in_buf_pos
Start == IF in_buf = << >> THEN 0 ELSE in_buf_pos
Room == Size - (Start + Len(in_buf))

(* Commands of the first word of a piece, without the valid bit. *)
FirstWithoutValid(w) == <<Tdata(w), Latch>>
FirstCmds(w) == <<Tdata(w), Tvalid(TRUE), Latch>>

(* fio_file_rd_ev *)
ReadFails ==
  /\ send_state' = "ERROR"
  /\ in_buf_pos' = Start
  /\ UNCHANGED <<resume_pos, send_retries, send_bytes, in_buf, offset, to_dev>>

(* read() returned 0.  A failure to send the commands is overwritten.      *)
ReadEnds ==
  /\ Room = 0 \/ offset = FileLen
  /\ Enqueue(<<Tvalid(FALSE), Latch>>)
  /\ send_state' = IF in_buf = << >> THEN "DONE" ELSE "ERROR"
  /\ in_buf_pos' = Start
  /\ UNCHANGED <<resume_pos, send_retries, send_bytes, in_buf, offset>>

(* It returned n bytes: wait for more, or send the first word. *)
ReadSome(n) ==
  LET got == in_buf \o [i \in 1 .. n |-> offset + i]
  IN  /\ n \in 1 .. Room
      /\ offset + n <= FileLen
      /\ offset' = offset + n
      /\ IF Len(got) < W
         THEN /\ send_state' = "WAIT_READ"
              /\ in_buf' = got
              /\ in_buf_pos' = Start
              /\ UNCHANGED <<send_retries, to_dev>>
         ELSE /\ SendThen(FirstCmds(SubSeq(got, 1, W)), "WAIT_ACK")
              /\ TakeWord(got, Start)
              /\ send_retries' = IF Fits(FirstCmds(SubSeq(got, 1, W))) THEN 0 ELSE send_retries
      /\ UNCHANGED <<resume_pos, send_bytes>>

FileReadCb ==
  /\ Running
  /\ rd_ev = "pending"
  /\ \/ ReadFails
     \/ ReadEnds
     \/ \E n \in 1 .. Size : ReadSome(n)
  /\ rd_ev' = IF send_state' = "WAIT_READ" THEN "pending" ELSE "idle"
  /\ UNCHANGED <<send_pause, timers, inj_failed, fpga, user, fault>>

(* read_fpga_connection updates the mirror, then cmd_receipt_fio. *)
ReceiptCb ==
  /\ Running
  /\ to_host # << >>
  /\ to_host' = Tail(to_host)
  /\ inj_failed' = Head(to_host)
  /\ IF send_state = "WAIT_ACK"
     THEN IF Head(to_host) THEN FsmFailed(send_pause) ELSE FsmAcked(send_pause)
     ELSE FsmNothing
  /\ UNCHANGED <<send_pause, offset, dev, injected, user>>

(* A retry that puts the machine back to waiting for a receipt. *)
RetryCbWaits ==
  /\ Running
  /\ timers > 0
  /\ timers' = timers - 1
  /\ send_state' = "WAIT_ACK"
  /\ Enqueue(<<Latch>>)
  /\ UNCHANGED <<resume_pos, send_retries, send_bytes, send_pause, buffer, file, inj_failed, fpga,
                  user, fault>>

(* retry_inject.  The timer cannot be cancelled. *)
RetryCb ==
  /\ Running
  /\ timers > 0
  /\ timers' = timers - 1
  /\ IF send_state = "FREED"
     THEN fault' = "freed_manager" /\ UNCHANGED to_dev
     ELSE Enqueue(<<Latch>>) /\ UNCHANGED fault
  /\ UNCHANGED <<fsm, send_pause, buffer, file, inj_failed, fpga, user>>

-----------------------------------------------------------------------------
(* got_line_fio, and other commands that bear on the transfer *)

Command == Running /\ send_state # "FREED"

(* The event of a file that was open is freed, unless it already was. *)
FreeEvent == fault' = IF rd_ev = "freed" THEN "freed_event" ELSE "none"

(* txfile of a file that opens.  The read buffer is not emptied. *)
TxFile ==
  /\ Command
  /\ opens < Opens
  /\ opens' = opens + 1
  /\ FreeEvent
  /\ rd_ev' = "idle"
  /\ offset' = 0
  /\ send_state' = "IDLE"
  /\ send_bytes' = 0
  /\ UNCHANGED <<resume_pos, send_retries, send_pause, buffer, timers, inj_failed, to_dev, fpga,
                  latches>>

(* txfile of a file that does not: the state still names the closed file.  *)
TxFileFails ==
  /\ Command
  /\ "badfile" \in Line
  /\ FreeEvent
  /\ rd_ev' = IF send_state = "NOFILE" THEN rd_ev ELSE "freed"
  /\ UNCHANGED <<fsm, send_pause, buffer, offset, timers, inj_failed, to_dev, fpga, user>>

SendLine ==
  /\ Command
  /\ send_state = "IDLE"
  /\ FsmIdle(send_pause)
  /\ UNCHANGED <<send_pause, offset, inj_failed, fpga, user>>

PauseLine ==
  /\ Command
  /\ "pause" \in Line
  /\ send_pause' = TRUE
  /\ UNCHANGED <<fsm, buffer, file, timers, inj_failed, to_dev, fpga, user, fault>>

ContLine ==
  /\ Command
  /\ "cont" \in Line
  /\ send_pause' = FALSE
  /\ Fsm(FALSE)
  /\ UNCHANGED <<offset, inj_failed, fpga, user>>

(* CMD_DBG_REG: the user commits the registers by hand. *)
LatchLine ==
  /\ Command
  /\ "latch" \in Line
  /\ latches < Latches
  /\ latches' = latches + 1
  /\ Enqueue(<<Latch>>)
  /\ UNCHANGED <<fsm, send_pause, buffer, file, timers, inj_failed, fpga, opens, fault>>

(* CMD_MGR back to the default manager: cleanup_fio. *)
CleanupFio ==
  /\ Command
  /\ "mgr" \in Line
  /\ IF send_state = "NOFILE" THEN UNCHANGED fault ELSE FreeEvent
  /\ send_state' = "FREED"
  /\ rd_ev' = "none"
  /\ UNCHANGED <<resume_pos, send_retries, send_bytes, send_pause, buffer, offset, timers,
                  inj_failed, to_dev, fpga, user>>

-----------------------------------------------------------------------------
(* fake_dbg_guv.c *)

(* A LATCH takes the scratch registers, unless a word is still waiting to  *)
(* be taken, and is answered with a receipt.                               *)
DevLatch ==
  /\ to_host' = Append(to_host, dev.live)
  /\ dev' = IF dev.live THEN dev ELSE [dev EXCEPT !.live = dev.valid]
  /\ injected' = IF dev.valid /\ ~ dev.live THEN Append(injected, dev.data) ELSE injected

DevCommand ==
  /\ to_dev # << >>
  /\ to_dev' = Tail(to_dev)
  /\ CASE Head(to_dev)[1] = "INJ_TDATA" -> dev' = [dev EXCEPT !.data = Head(to_dev)[2]] /\ UNCHANGED <<to_host, injected>>
       [] Head(to_dev)[1] = "INJ_TVALID" -> dev' = [dev EXCEPT !.valid = Head(to_dev)[2]] /\ UNCHANGED <<to_host, injected>>
       [] OTHER -> DevLatch
  /\ UNCHANGED <<fsm, send_pause, buffer, file, timers, inj_failed, user, fault>>

(* The stream takes the waiting word; nothing says it ever does. *)
DevTaken ==
  /\ dev.live
  /\ dev' = [dev EXCEPT !.live = FALSE]
  /\ UNCHANGED <<fsm, send_pause, buffer, file, timers, inj_failed, to_dev, to_host, injected, user,
                  fault>>

-----------------------------------------------------------------------------
(* init_fio *)
Init ==
  /\ send_state = "NOFILE"
  /\ resume_pos = "schedule_read"
  /\ send_retries = 0
  /\ send_pause = FALSE
  /\ send_bytes = 0
  /\ in_buf = << >>
  /\ in_buf_pos = 0
  /\ offset = 0
  /\ rd_ev = "none"
  /\ timers = 0
  /\ inj_failed = FALSE
  /\ to_dev = << >>
  /\ to_host = << >>
  /\ dev = [data |-> Junk, valid |-> FALSE, live |-> FALSE]
  /\ injected = << >>
  /\ opens = 0
  /\ latches = 0
  /\ fault = "none"

Next ==
  \/ FileReadCb
  \/ ReceiptCb
  \/ RetryCb
  \/ TxFile
  \/ TxFileFails
  \/ SendLine
  \/ PauseLine
  \/ ContLine
  \/ LatchLine
  \/ CleanupFio
  \/ DevCommand
  \/ DevTaken

Spec == Init /\ [][Next]_vars

(* libevent runs ready events and due timers, and the FPGA answers.        *)
FairSpec ==
  /\ Spec
  /\ WF_vars(FileReadCb)
  /\ WF_vars(ReceiptCb)
  /\ WF_vars(RetryCb)
  /\ WF_vars(DevCommand)

-----------------------------------------------------------------------------
TypeOK ==
  /\ send_state \in SendStates
  /\ resume_pos \in Labels
  /\ send_retries \in 0 .. 3
  /\ send_pause \in BOOLEAN
  /\ send_bytes \in Nat
  /\ in_buf \in Seq(1 .. FileLen)
  /\ in_buf_pos \in Nat /\ in_buf_pos + Len(in_buf) <= Size
  /\ offset \in 0 .. FileLen
  /\ rd_ev \in {"none", "idle", "pending", "freed"}
  /\ timers \in 0 .. Timers
  /\ inj_failed \in BOOLEAN
  /\ to_dev \in Seq(Cmds) /\ Len(to_dev) <= Queue
  /\ dev \in [data : Seq(Int), valid : BOOLEAN, live : BOOLEAN]
  /\ to_host \in Seq(BOOLEAN)
  /\ injected \in Seq(Seq(Int))
  /\ opens \in 0 .. Opens /\ latches \in 0 .. Latches
  /\ fault \in {"none", "freed_event", "freed_manager"}

(* The words of the file. *)
FileWords == [i \in 1 .. FileLen \div W |-> [j \in 1 .. W |-> W * (i - 1) + j]]

(* However the reads cut the file up and however often an inject fails,    *)
(* the FPGA takes the words of the file in order and each once.            *)
InOrder == IsPrefix(injected, FileWords)

(* When the display says Done, the FPGA has taken the whole file, and the  *)
(* count shown is the file's length.                                       *)
DoneIsAll == send_state = "DONE" => injected = FileWords /\ send_bytes = FileLen

(* Exactly one thing is under way that will call the machine again while   *)
(* it waits for a receipt: a LATCH, its receipt or the retry timer.  With  *)
(* two it would take one inject's receipt for another's, with none it      *)
(* would wait for ever.                                                    *)
Wakers ==
  Cardinality({i \in DOMAIN to_dev : to_dev[i] = Latch}) + Len(to_host) + timers
OneWaker ==
  /\ send_state = "WAIT_ACK" => Wakers = 1
  /\ send_state = "WAIT_READ" => Wakers = 0

(* The file is waited for exactly in the state that says so, unless the    *)
(* event went with a file that txfile could not replace.                   *)
ReadEvArmed ==
  Running /\ rd_ev # "freed" => (rd_ev = "pending" <=> send_state = "WAIT_READ")

(* A read never asks for no bytes, whose answer would be taken for the end *)
(* of the file.                                                            *)
RoomToRead == send_state = "WAIT_READ" => Room > 0

(* An error stays on display until a file is opened or the manager goes:   *)
(* no late receipt, timer or command clears it.                            *)
ErrorSticks ==
  [][send_state = "ERROR" => send_state' = "ERROR" \/ TxFile \/ CleanupFio]_vars

(* A transfer ends: the retries are bounded even if the FPGA never takes   *)
(* another word.                                                           *)
TransferEnds == send_state \in Sending ~> send_state \notin Sending

(* "To unpause, set this to 0 and call the sendfile_fsm function again".   *)
Unpauses == (send_state = "PAUSED" /\ ~ send_pause) ~> (send_state # "PAUSED" \/ send_pause)

(* retry_inject runs on a manager that is still there. *)
NoFault == Running
=============================================================================
