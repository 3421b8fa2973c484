----------------------------- MODULE Fio_proofs -----------------------------
(***************************************************************************)
(* Proofs about Fio.  The first part is for every use of the manager; the  *)
(* second for a transfer the user neither pauses nor disturbs with a LATCH *)
(* or a second file, whatever the sizes of the file, buffer and words.     *)
(***************************************************************************)
EXTENDS Fio, FiniteSetTheorems, SequenceTheorems, TLAPS

(* The parameters, one by one. *)
LEMMA Parameters ==
  /\ W \in Nat /\ W > 0 /\ Size \in Nat /\ Size > 0 /\ Queue \in Nat /\ Queue > 0
  /\ FileLen \in Nat /\ Opens \in Nat /\ Latches \in Nat /\ Timers \in Nat
  /\ W <= Size
<1>1. /\ W \in Nat /\ W > 0 /\ Size \in Nat /\ Size > 0 /\ Queue \in Nat /\ Queue > 0
      /\ FileLen \in Nat /\ Opens \in Nat /\ Latches \in Nat /\ Timers \in Nat
  BY FioAssumption
<1>2. PICK m \in 1 .. Size : Size = m * W
  BY FioAssumption
<1>3. W <= m * W
  BY <1>1, <1>2, SMT
<1>. QED  BY <1>1, <1>2, <1>3

-----------------------------------------------------------------------------
(* Every use of the manager *)

LEMMA CmdsTyped ==
  /\ Latch \in Cmds
  /\ \A b \in BOOLEAN : Tvalid(b) \in Cmds
  /\ \A w \in Seq(Int) : Tdata(w) \in Cmds
BY DEF Latch, Tvalid, Tdata, Cmds

LEMMA Tuples ==
  ASSUME NEW S, NEW a \in S, NEW b \in S, NEW c \in S
  PROVE  <<a>> \in Seq(S) /\ <<a, b>> \in Seq(S) /\ <<a, b, c>> \in Seq(S)
OBVIOUS

LEMMA EnqueueTyped ==
  ASSUME TypeOK, NEW cmds \in Seq(Cmds), Enqueue(cmds)
  PROVE  /\ to_dev' \in Seq(Cmds) /\ Len(to_dev') <= Queue
         /\ Fits(cmds) => to_dev' = to_dev \o cmds
<1>1. to_dev \in Seq(Cmds) /\ Len(to_dev) \in 0 .. Queue
  BY Parameters DEF TypeOK
<1>2. CASE Fits(cmds)
  BY <1>1, <1>2, Parameters, ConcatProperties DEF Enqueue, Fits
<1>3. CASE ~ Fits(cmds)
  <2>. DEFINE n == Queue - Len(to_dev)
              first == SubSeq(cmds, 1, n)
  <2>1. n \in 0 .. Len(cmds)
    BY <1>1, <1>3, Parameters DEF Fits
  <2>2. first \in Seq(Cmds) /\ Len(first) = n
    BY <2>1, SubSeqProperties
  <2>3. to_dev' = to_dev \o first
    BY <1>3 DEF Enqueue
  <2>. HIDE DEF first
  <2>. QED  BY <1>1, <1>3, <2>1, <2>2, <2>3, ConcatProperties, Parameters
<1>. QED  BY <1>2, <1>3

(* Each label of the machine, and each state it acts in, keeps the types   *)
(* of what it moves.                                                       *)
Moved ==
  /\ send_state \in SendStates /\ resume_pos \in Labels /\ send_retries \in 0 .. 3
  /\ send_bytes \in Nat
  /\ in_buf \in Seq(1 .. FileLen)
  /\ in_buf_pos \in Nat /\ in_buf_pos + Len(in_buf) <= Size
  /\ rd_ev \in {"none", "idle", "pending", "freed"}
  /\ timers \in 0 .. Timers
  /\ to_dev \in Seq(Cmds) /\ Len(to_dev) <= Queue
  /\ fault \in {"none", "freed_event", "freed_manager"}

LEMMA WordTyped ==
  ASSUME TypeOK, Len(in_buf) >= W
  PROVE  /\ Word \in Seq(1 .. FileLen) /\ Word \in Seq(Int)
         /\ SubSeq(in_buf, W + 1, Len(in_buf)) \in Seq(1 .. FileLen)
         /\ Len(SubSeq(in_buf, W + 1, Len(in_buf))) = Len(in_buf) - W
<1>1. in_buf \in Seq(1 .. FileLen)
  BY DEF TypeOK
<1>. QED  BY <1>1, Parameters, SubSeqProperties DEF Word

LEMMA ScheduleReadMoves ==
  ASSUME TypeOK, ScheduleRead
  PROVE  /\ send_state' \in SendStates
         /\ rd_ev' \in {"none", "idle", "pending", "freed"}
         /\ fault' \in {"none", "freed_event", "freed_manager"}
BY DEF TypeOK, ScheduleRead, SendStates, Sending

LEMMA SendThenMoves ==
  ASSUME TypeOK, NEW cmds \in Seq(Cmds), NEW state \in SendStates, SendThen(cmds, state)
  PROVE  send_state' \in SendStates /\ to_dev' \in Seq(Cmds) /\ Len(to_dev') <= Queue
BY EnqueueTyped DEF SendThen, SendStates

LEMMA RetryInjectMoves ==
  ASSUME TypeOK, RetryInject
  PROVE  /\ send_state' \in SendStates /\ send_retries' \in 0 .. 3 /\ timers' \in 0 .. Timers
         /\ fault' \in {"none", "freed_event", "freed_manager"}
<1>1. CASE TooManyRetries
  BY <1>1 DEF RetryInject, TypeOK, SendStates
<1>2. CASE ~ TooManyRetries
  <2>1. /\ timers < Timers /\ send_retries' = send_retries + 1 /\ timers' = timers + 1
        /\ send_state' = send_state /\ fault' \in {"freed_event", fault}
    BY <1>2 DEF RetryInject
  <2>2. send_retries \in 0 .. 2
    BY <1>2 DEF TooManyRetries, TypeOK
  <2>. QED  BY <2>1, <2>2, Parameters DEF TypeOK
<1>. QED  BY <1>1, <1>2

LEMMA FailedMoves ==
  ASSUME TypeOK, NEW paused \in BOOLEAN, FsmFailed(paused)
  PROVE  Moved'
<1>1. CASE paused
  BY <1>1 DEF FsmFailed, Pause, TypeOK, Moved, SendStates, Labels, buffer
<1>2. CASE ~ paused
  <2>1. RetryInject /\ UNCHANGED <<send_bytes, buffer>>
    BY <1>2 DEF FsmFailed
  <2>2. UNCHANGED <<resume_pos, rd_ev, to_dev>>
    BY <2>1 DEF RetryInject
  <2>. QED  BY <2>1, <2>2, RetryInjectMoves DEF TypeOK, Moved, buffer
<1>. QED  BY <1>1, <1>2

LEMMA IdleMoves ==
  ASSUME TypeOK, NEW paused \in BOOLEAN, FsmIdle(paused)
  PROVE  Moved'
<1>1. CASE paused
  BY <1>1 DEF FsmIdle, Pause, TypeOK, Moved, SendStates, Labels, buffer
<1>2. CASE ~ paused
  BY <1>2, ScheduleReadMoves DEF FsmIdle, WaitForRead, TypeOK, Moved, buffer
<1>. QED  BY <1>1, <1>2

LEMMA NextCmdsTyped ==
  ASSUME NEW w \in Seq(Int)
  PROVE  NextCmds(w) \in Seq(Cmds) /\ FirstCmds(w) \in Seq(Cmds)
<1>1. Tdata(w) \in Cmds /\ Tvalid(TRUE) \in Cmds /\ Latch \in Cmds
  BY CmdsTyped
<1>. QED  BY <1>1, Tuples DEF NextCmds, FirstCmds

LEMMA AckedMoves ==
  ASSUME TypeOK, NEW paused \in BOOLEAN, FsmAcked(paused)
  PROVE  Moved'
<1>. USE Parameters
<1>1. /\ send_bytes' \in Nat /\ send_retries' \in 0 .. 3 /\ timers' \in 0 .. Timers
  BY DEF FsmAcked, TypeOK
<1>2. CASE Len(in_buf) < W
  <2>1. UNCHANGED <<buffer, to_dev>>
    BY <1>2 DEF FsmAcked
  <2>2. /\ send_state' \in SendStates /\ resume_pos' \in Labels
        /\ rd_ev' \in {"none", "idle", "pending", "freed"}
        /\ fault' \in {"none", "freed_event", "freed_manager"}
    <3>1. CASE paused
      BY <1>2, <3>1 DEF FsmAcked, Pause, TypeOK, SendStates, Labels
    <3>2. CASE ~ paused
      BY <1>2, <3>2, ScheduleReadMoves DEF FsmAcked, TypeOK
    <3>. QED  BY <3>1, <3>2
  <2>. QED  BY <1>1, <2>1, <2>2 DEF TypeOK, Moved, buffer
<1>3. CASE Len(in_buf) >= W
  <2>1. TakeWord(in_buf, in_buf_pos) /\ UNCHANGED <<rd_ev, fault>>
    BY <1>3 DEF FsmAcked, TypeOK
  <2>2. /\ in_buf' \in Seq(1 .. FileLen)
        /\ in_buf_pos' \in Nat /\ in_buf_pos' + Len(in_buf') <= Size
    <3>. DEFINE rest == SubSeq(in_buf, W + 1, Len(in_buf))
    <3>1. rest \in Seq(1 .. FileLen) /\ Len(rest) = Len(in_buf) - W
      BY <1>3, WordTyped
    <3>2. in_buf' = rest /\ in_buf_pos' = in_buf_pos + W
      BY <2>1 DEF TakeWord
    <3>. HIDE DEF rest
    <3>3. in_buf_pos \in Nat /\ in_buf_pos + Len(in_buf) <= Size /\ Len(in_buf) \in Nat
      BY DEF TypeOK
    <3>. QED  BY <3>1, <3>2, <3>3
  <2>3. /\ send_state' \in SendStates /\ resume_pos' \in Labels
        /\ to_dev' \in Seq(Cmds) /\ Len(to_dev') <= Queue
    <3>1. CASE paused
      BY <1>3, <3>1 DEF FsmAcked, Pause, TypeOK, SendStates, Labels
    <3>2. CASE ~ paused
      <4>1. SendThen(NextCmds(Word), "WAIT_ACK") /\ UNCHANGED resume_pos
        BY <1>3, <3>2 DEF FsmAcked, TypeOK
      <4>2. NextCmds(Word) \in Seq(Cmds) /\ "WAIT_ACK" \in SendStates
        BY <1>3, WordTyped, NextCmdsTyped DEF SendStates, Sending
      <4>. QED  BY <4>1, <4>2, SendThenMoves DEF TypeOK
    <3>. QED  BY <3>1, <3>2
  <2>. QED  BY <1>1, <2>1, <2>2, <2>3 DEF TypeOK, Moved
<1>. QED  BY <1>2, <1>3 DEF TypeOK

LEMMA ResumeMoves ==
  ASSUME TypeOK, FsmResume
  PROVE  Moved'
<1>. USE Parameters
<1>0. UNCHANGED <<send_bytes, buffer>>
  BY DEF FsmResume
<1>1. CASE resume_pos \in {"schedule_read", "schedule_buffer_topup"}
  BY <1>0, <1>1, ScheduleReadMoves DEF FsmResume, WaitForRead, TypeOK, Moved, buffer
<1>2. CASE resume_pos = "schedule_retry_inject"
  <2>1. RetryInject
    BY <1>2 DEF FsmResume
  <2>2. UNCHANGED <<resume_pos, rd_ev, to_dev>>
    BY <2>1 DEF RetryInject
  <2>. QED  BY <1>0, <2>1, <2>2, RetryInjectMoves DEF TypeOK, Moved, buffer
<1>3. CASE resume_pos = "send_next_inject"
  <2>1. PICK w \in {Junk, [i \in 1 .. W |-> offset - Len(in_buf) - W + i]} : SendNext(w)
    BY <1>3 DEF FsmResume
  <2>2. w \in Seq(Int)
    <3>1. offset - Len(in_buf) - W \in Int
      BY DEF TypeOK
    <3>2. [i \in 1 .. W |-> offset - Len(in_buf) - W + i] \in Seq(Int)
      BY <3>1
    <3>3. << >> \in Seq(Int)
      OBVIOUS
    <3>. QED  BY <3>2, <3>3 DEF Junk
  <2>3. NextCmds(w) \in Seq(Cmds) /\ "WAIT_ACK" \in SendStates
    BY <2>2, NextCmdsTyped DEF SendStates, Sending
  <2>. QED  BY <1>0, <2>1, <2>3, SendThenMoves DEF SendNext, TypeOK, Moved, buffer
<1>. QED  BY <1>1, <1>2, <1>3 DEF TypeOK, Labels

LEMMA NothingMoves ==
  ASSUME TypeOK, FsmNothing
  PROVE  Moved'
BY Parameters DEF FsmNothing, TypeOK, Moved, fsm, buffer

LEMMA FsmMoves ==
  ASSUME TypeOK, NEW paused \in BOOLEAN, Fsm(paused)
  PROVE  Moved'
<1>1. CASE send_state = "IDLE"
  BY <1>1, IdleMoves DEF Fsm
<1>2. CASE send_state = "WAIT_ACK"
  BY <1>2, FailedMoves, AckedMoves DEF Fsm
<1>3. CASE send_state = "PAUSED" /\ ~ paused
  BY <1>3, ResumeMoves DEF Fsm
<1>4. CASE /\ send_state # "IDLE" /\ send_state # "WAIT_ACK"
           /\ ~ (send_state = "PAUSED" /\ ~ paused)
  <2>1. FsmNothing
    BY <1>4 DEF Fsm
  <2>. QED  BY <2>1, NothingMoves
<1>. QED  BY <1>1, <1>2, <1>3, <1>4

LEMMA ReadMoves ==
  ASSUME TypeOK, FileReadCb
  PROVE  TypeOK'
<1>. USE Parameters
<1>1. /\ in_buf \in Seq(1 .. FileLen) /\ Len(in_buf) \in Nat /\ offset \in 0 .. FileLen
      /\ in_buf_pos \in Nat /\ in_buf_pos + Len(in_buf) <= Size
  BY DEF TypeOK
<1>2. Start \in Nat /\ Start + Len(in_buf) <= Size
  BY <1>1 DEF Start
<1>3. rd_ev' \in {"idle", "pending"}
  BY DEF FileReadCb
<1>4. CASE ReadFails
  BY <1>2, <1>3, <1>4 DEF FileReadCb, ReadFails, TypeOK, SendStates, fpga, user
<1>5. CASE ReadEnds
  <2>1. to_dev' \in Seq(Cmds) /\ Len(to_dev') <= Queue
    <3>1. <<Tvalid(FALSE), Latch>> \in Seq(Cmds)
      BY CmdsTyped, Tuples
    <3>. QED  BY <1>5, <3>1, EnqueueTyped DEF ReadEnds
  <2>. QED  BY <1>2, <1>3, <1>5, <2>1 DEF FileReadCb, ReadEnds, TypeOK, SendStates, fpga, user
<1>6. ASSUME NEW n \in 1 .. Size, ReadSome(n)
      PROVE  TypeOK'
  <2>. DEFINE got == in_buf \o [i \in 1 .. n |-> offset + i]
  <2>1. /\ n \in 1 .. Room /\ offset + n <= FileLen /\ offset' = offset + n
        /\ UNCHANGED <<resume_pos, send_bytes>>
    BY <1>6 DEF ReadSome
  <2>2. got \in Seq(1 .. FileLen) /\ Len(got) = Len(in_buf) + n
    <3>1. [i \in 1 .. n |-> offset + i] \in Seq(1 .. FileLen)
      BY <1>1, <2>1
    <3>. QED  BY <1>1, <3>1, ConcatProperties
  <2>3. Start + Len(got) <= Size
    BY <1>1, <1>2, <2>1, <2>2 DEF Room
  <2>4. CASE Len(got) < W
    <3>1. /\ send_state' = "WAIT_READ" /\ in_buf' = got /\ in_buf_pos' = Start
          /\ UNCHANGED <<send_retries, to_dev>>
      BY <1>6, <2>4 DEF ReadSome
    <3>. HIDE DEF got
    <3>. QED
      BY <1>1, <1>2, <1>3, <2>1, <2>2, <2>3, <3>1
         DEF FileReadCb, TypeOK, SendStates, Sending, fpga, user
  <2>5. CASE Len(got) >= W
    <3>. DEFINE w == SubSeq(got, 1, W)
                rest == SubSeq(got, W + 1, Len(got))
    <3>1. /\ SendThen(FirstCmds(w), "WAIT_ACK")
          /\ in_buf' = rest /\ in_buf_pos' = Start + W
          /\ send_retries' \in {0, send_retries}
      <4>1. ~ Len(got) < W
        BY <2>2, <2>5
      <4>2. /\ SendThen(FirstCmds(w), "WAIT_ACK") /\ TakeWord(got, Start)
            /\ send_retries' = IF Fits(FirstCmds(w)) THEN 0 ELSE send_retries
        BY <1>6, <4>1, Zenon DEF ReadSome
      <4>. QED  BY <4>2 DEF TakeWord
    <3>. HIDE DEF got
    <3>2. w \in Seq(1 .. FileLen) /\ rest \in Seq(1 .. FileLen) /\ Len(rest) = Len(got) - W
      BY <2>2, <2>5, SubSeqProperties
    <3>3. FirstCmds(w) \in Seq(Cmds)
      <4>1. w \in Seq(Int)
        BY <3>2
      <4>. QED  BY <4>1, NextCmdsTyped
    <3>4. send_state' \in SendStates /\ to_dev' \in Seq(Cmds) /\ Len(to_dev') <= Queue
      BY <3>1, <3>3, SendThenMoves DEF SendStates, Sending
    <3>. HIDE DEF w, rest
    <3>5. in_buf_pos' \in Nat /\ in_buf_pos' + Len(in_buf') <= Size
      BY <1>2, <2>2, <2>3, <3>1, <3>2
    <3>. QED  BY <1>1, <1>3, <2>1, <3>1, <3>2, <3>4, <3>5 DEF FileReadCb, TypeOK, fpga, user
  <2>. QED  BY <2>2, <2>4, <2>5
<1>. QED  BY <1>4, <1>5, <1>6 DEF FileReadCb

LEMMA DevMoves ==
  ASSUME TypeOK, DevCommand
  PROVE  TypeOK'
<1>. DEFINE c == Head(to_dev)
<1>1. c \in Cmds /\ to_dev' \in Seq(Cmds) /\ Len(to_dev') <= Queue
  <2>1. to_dev \in Seq(Cmds) /\ to_dev # << >> /\ to_dev' = Tail(to_dev) /\ Len(to_dev) <= Queue
    BY DEF DevCommand, TypeOK
  <2>2. c \in Cmds /\ Tail(to_dev) \in Seq(Cmds) /\ Len(Tail(to_dev)) = Len(to_dev) - 1
    BY <2>1, HeadTailProperties
  <2>. HIDE DEF c
  <2>. QED  BY <2>1, <2>2, Parameters
<1>2. /\ dev' \in [data : Seq(Int), valid : BOOLEAN, live : BOOLEAN] /\ to_host' \in Seq(BOOLEAN)
      /\ injected' \in Seq(Seq(Int))
  <2>1. CASE c[1] = "INJ_TDATA"
    <3>1. c[2] \in Seq(Int)
      BY <1>1, <2>1 DEF Cmds, Latch
    <3>. QED  BY <2>1, <3>1 DEF DevCommand, TypeOK
  <2>2. CASE c[1] = "INJ_TVALID"
    <3>1. c[2] \in BOOLEAN
      BY <1>1, <2>2 DEF Cmds, Latch
    <3>. QED  BY <2>2, <3>1 DEF DevCommand, TypeOK
  <2>3. CASE c[1] \notin {"INJ_TDATA", "INJ_TVALID"}
    <3>1. DevLatch
      BY <2>3 DEF DevCommand
    <3>. QED  BY <3>1, AppendProperties DEF DevLatch, TypeOK
  <2>. QED  BY <2>1, <2>2, <2>3
<1>. QED  BY <1>1, <1>2 DEF DevCommand, TypeOK, fsm, buffer, file, user

LEMMA MovedTypeOK ==
  ASSUME TypeOK, Moved',
         offset' \in 0 .. FileLen, send_pause' \in BOOLEAN, inj_failed' \in BOOLEAN,
         to_host' \in Seq(BOOLEAN), UNCHANGED <<injected, user>>,
         dev' \in [data : Seq(Int), valid : BOOLEAN, live : BOOLEAN]
  PROVE  TypeOK'
BY DEF Moved, TypeOK, user

LEMMA StepTypeOK == TypeOK /\ [Next]_vars => TypeOK'
<1>. SUFFICES ASSUME TypeOK, [Next]_vars PROVE TypeOK'
  OBVIOUS
<1>. USE Parameters
<1>1. CASE FileReadCb
  BY <1>1, ReadMoves
<1>2. CASE ReceiptCb
  <2>1. Head(to_host) \in BOOLEAN /\ Tail(to_host) \in Seq(BOOLEAN)
    BY <1>2, HeadTailProperties DEF ReceiptCb, TypeOK
  <2>2. Moved'
    BY <1>2, <2>1, FailedMoves, AckedMoves, NothingMoves DEF ReceiptCb, TypeOK
  <2>. QED  BY <1>2, <2>1, <2>2, MovedTypeOK DEF ReceiptCb, TypeOK
<1>3. CASE RetryCb
  <2>1. to_dev' \in Seq(Cmds) /\ Len(to_dev') <= Queue
    <3>1. <<Latch>> \in Seq(Cmds)
      BY CmdsTyped, Tuples
    <3>. QED  BY <1>3, <3>1, EnqueueTyped DEF RetryCb, TypeOK
  <2>2. timers' \in 0 .. Timers /\ fault' \in {"none", "freed_event", "freed_manager"}
    BY <1>3 DEF RetryCb, TypeOK
  <2>. QED  BY <1>3, <2>1, <2>2 DEF RetryCb, TypeOK, fsm, buffer, file, fpga, user
<1>4. CASE TxFile
  BY <1>4 DEF TxFile, FreeEvent, TypeOK, SendStates, buffer, fpga
<1>5. CASE TxFileFails
  BY <1>5 DEF TxFileFails, FreeEvent, TypeOK, fsm, buffer, fpga, user
<1>6. CASE SendLine
  <2>1. Moved'
    BY <1>6, IdleMoves DEF SendLine, TypeOK
  <2>. QED  BY <1>6, <2>1, MovedTypeOK DEF SendLine, TypeOK, fpga
<1>7. CASE PauseLine
  BY <1>7 DEF PauseLine, TypeOK, fsm, buffer, file, fpga, user
<1>8. CASE ContLine
  <2>1. Moved'
    BY <1>8, FsmMoves DEF ContLine, TypeOK
  <2>. QED  BY <1>8, <2>1, MovedTypeOK DEF ContLine, TypeOK, fpga
<1>9. CASE LatchLine
  <2>1. to_dev' \in Seq(Cmds) /\ Len(to_dev') <= Queue
    <3>1. <<Latch>> \in Seq(Cmds)
      BY CmdsTyped, Tuples
    <3>. QED  BY <1>9, <3>1, EnqueueTyped DEF LatchLine
  <2>. QED  BY <1>9, <2>1 DEF LatchLine, TypeOK, fsm, buffer, file, fpga
<1>10. CASE CleanupFio
  BY <1>10 DEF CleanupFio, FreeEvent, TypeOK, SendStates, buffer, fpga, user
<1>11. CASE DevCommand
  BY <1>11, DevMoves
<1>12. CASE DevTaken
  BY <1>12 DEF DevTaken, TypeOK, fsm, buffer, file, user
<1>13. CASE UNCHANGED vars
  BY <1>13 DEF vars, TypeOK, fsm, buffer, file, fpga, user
<1>. QED
  BY <1>1, <1>2, <1>3, <1>4, <1>5, <1>6, <1>7, <1>8, <1>9, <1>10, <1>11, <1>12, <1>13 DEF Next

LEMMA InitTypeOK == Init => TypeOK
<1>. SUFFICES ASSUME Init PROVE TypeOK
  OBVIOUS
<1>1. /\ in_buf \in Seq(1 .. FileLen) /\ Len(in_buf) = 0
      /\ injected \in Seq(Seq(Int)) /\ opens \in 0 .. Opens /\ latches \in 0 .. Latches
      /\ to_dev \in Seq(Cmds) /\ Len(to_dev) = 0
      /\ to_host \in Seq(BOOLEAN)
  BY Parameters DEF Init
<1>2. dev \in [data : Seq(Int), valid : BOOLEAN, live : BOOLEAN]
  <2>1. Junk \in Seq(Int)
    BY DEF Junk
  <2>. QED  BY <2>1 DEF Init
<1>3. /\ send_state \in SendStates /\ resume_pos \in Labels /\ send_retries \in 0 .. 3
      /\ send_pause \in BOOLEAN /\ send_bytes \in Nat /\ in_buf_pos = 0
      /\ offset \in 0 .. FileLen /\ rd_ev \in {"none", "idle", "pending", "freed"}
      /\ timers \in 0 .. Timers /\ inj_failed \in BOOLEAN
      /\ fault \in {"none", "freed_event", "freed_manager"}
  <2>1. /\ send_state = "NOFILE" /\ resume_pos = "schedule_read" /\ send_retries = 0
        /\ send_pause = FALSE /\ send_bytes = 0 /\ in_buf_pos = 0 /\ offset = 0
        /\ rd_ev = "none" /\ timers = 0 /\ inj_failed = FALSE /\ fault = "none"
    BY DEF Init
  <2>2. send_state \in SendStates /\ resume_pos \in Labels
    BY <2>1 DEF SendStates, Labels
  <2>3. send_pause \in BOOLEAN /\ inj_failed \in BOOLEAN
    BY <2>1
  <2>4. send_retries \in 0 .. 3 /\ offset \in 0 .. FileLen /\ timers \in 0 .. Timers
    BY <2>1, Parameters
  <2>. QED  BY <2>1, <2>2, <2>3, <2>4
<1>. QED  BY <1>1, <1>2, <1>3, Parameters DEF TypeOK

(* Every variable has its type, however the user uses the manager. *)
THEOREM FioTypeCorrect == Spec => []TypeOK
BY InitTypeOK, StepTypeOK, PTL DEF Spec

(* The file's event is pending exactly in FIO_WAIT_READ. *)
LEMMA AckedArms ==
  ASSUME ReadEvArmed, Running, NEW paused \in BOOLEAN, FsmAcked(paused), send_state = "WAIT_ACK"
  PROVE  ReadEvArmed'
<1>1. \/ ScheduleRead
      \/ rd_ev' = rd_ev /\ send_state' \in {"PAUSED", "WAIT_ACK", "ERROR"}
  BY DEF FsmAcked, Pause, SendThen
<1>. QED  BY <1>1 DEF ScheduleRead, ReadEvArmed, Running

LEMMA FsmArms ==
  ASSUME ReadEvArmed, Running, NEW paused \in BOOLEAN, Fsm(paused)
  PROVE  ReadEvArmed'
<1>1. CASE send_state = "IDLE"
  BY <1>1 DEF Fsm, FsmIdle, Pause, WaitForRead, ScheduleRead, ReadEvArmed, Running
<1>2. CASE send_state = "WAIT_ACK" /\ inj_failed
  BY <1>2 DEF Fsm, FsmFailed, Pause, RetryInject, ReadEvArmed, Running
<1>3. CASE send_state = "WAIT_ACK" /\ ~ inj_failed
  BY <1>3, AckedArms DEF Fsm
<1>4. CASE send_state = "PAUSED" /\ ~ paused
  <2>1. FsmResume
    BY <1>4 DEF Fsm
  <2>2. \/ WaitForRead
        \/ RetryInject
        \/ rd_ev' = rd_ev /\ send_state' \in {"WAIT_ACK", "ERROR"}
    BY <2>1 DEF FsmResume, SendNext, SendThen
  <2>. QED  BY <1>4, <2>2 DEF WaitForRead, ScheduleRead, RetryInject, ReadEvArmed, Running
<1>5. CASE /\ send_state # "IDLE" /\ send_state # "WAIT_ACK"
           /\ ~ (send_state = "PAUSED" /\ ~ paused)
  <2>1. FsmNothing
    BY <1>5 DEF Fsm
  <2>. QED  BY <2>1 DEF FsmNothing, fsm, ReadEvArmed, Running
<1>. QED  BY <1>1, <1>2, <1>3, <1>4, <1>5

LEMMA StepArms == TypeOK /\ ReadEvArmed /\ [Next]_vars => ReadEvArmed'
<1>. SUFFICES ASSUME TypeOK, ReadEvArmed, [Next]_vars PROVE ReadEvArmed'
  OBVIOUS
<1>1. CASE FileReadCb
  BY <1>1 DEF FileReadCb, ReadEvArmed, Running
<1>2. CASE ReceiptCb
  <2>1. CASE send_state = "WAIT_ACK" /\ Head(to_host)
    BY <1>2, <2>1 DEF ReceiptCb, FsmFailed, Pause, RetryInject, ReadEvArmed, Running
  <2>2. CASE send_state = "WAIT_ACK" /\ ~ Head(to_host)
    <3>1. Running /\ FsmAcked(send_pause) /\ send_pause \in BOOLEAN
      BY <1>2, <2>2 DEF ReceiptCb, TypeOK
    <3>. QED  BY <2>2, <3>1, AckedArms
  <2>3. CASE send_state # "WAIT_ACK"
    BY <1>2, <2>3 DEF ReceiptCb, FsmNothing, fsm, ReadEvArmed, Running
  <2>. QED  BY <2>1, <2>2, <2>3
<1>3. CASE RetryCb
  BY <1>3 DEF RetryCb, fsm, file, ReadEvArmed, Running
<1>4. CASE TxFile
  BY <1>4 DEF TxFile, ReadEvArmed
<1>5. CASE TxFileFails
  BY <1>5 DEF TxFileFails, Command, fsm, ReadEvArmed, Running
<1>6. CASE SendLine
  BY <1>6 DEF SendLine, Command, FsmIdle, Pause, WaitForRead, ScheduleRead, ReadEvArmed, Running
<1>7. CASE ContLine
  BY <1>7, FsmArms DEF ContLine, Command
<1>8. CASE CleanupFio
  BY <1>8 DEF CleanupFio, ReadEvArmed
<1>9. CASE PauseLine \/ LatchLine \/ DevCommand \/ DevTaken \/ UNCHANGED vars
  <2>1. UNCHANGED <<send_state, rd_ev, fault>>
    BY <1>9 DEF PauseLine, LatchLine, DevCommand, DevTaken, vars, fsm, file
  <2>. QED  BY <2>1 DEF ReadEvArmed, Running
<1>. QED  BY <1>1, <1>2, <1>3, <1>4, <1>5, <1>6, <1>7, <1>8, <1>9 DEF Next

(* The machine and the event loop agree on whether the file is waited for, *)
(* however the user uses the manager.                                      *)
THEOREM EventIsArmed == Spec => []ReadEvArmed
<1>1. Init => ReadEvArmed
  BY DEF Init, ReadEvArmed
<1>. QED  BY <1>1, FioTypeCorrect, StepArms, PTL DEF Spec

(* Nothing but opening a file or leaving the manager clears FIO_ERROR.     *)
THEOREM ErrorStays == Spec => ErrorSticks
<1>1. ASSUME ReadEvArmed, [Next]_vars, send_state = "ERROR"
      PROVE  send_state' = "ERROR" \/ TxFile \/ CleanupFio
  <2>1. ~ FileReadCb
    BY <1>1 DEF FileReadCb, ReadEvArmed
  <2>2. CASE ReceiptCb
    BY <1>1, <2>2 DEF ReceiptCb, FsmNothing, fsm
  <2>3. CASE ContLine
    BY <1>1, <2>3 DEF ContLine, Fsm, FsmNothing, fsm
  <2>4. CASE RetryCb \/ TxFileFails \/ PauseLine \/ LatchLine \/ DevCommand \/ DevTaken \/ UNCHANGED vars
    BY <1>1, <2>4 DEF RetryCb, TxFileFails, PauseLine, LatchLine, DevCommand, DevTaken, vars, fsm
  <2>. QED  BY <1>1, <2>1, <2>2, <2>3, <2>4 DEF Next, SendLine
<1>2. ReadEvArmed /\ [Next]_vars
        => [send_state = "ERROR" => send_state' = "ERROR" \/ TxFile \/ CleanupFio]_vars
  BY <1>1
<1>. QED  BY <1>2, EventIsArmed, PTL DEF Spec, ErrorSticks

-----------------------------------------------------------------------------
(* A transfer nobody pauses or disturbs.  At(k) bytes are k words long.    *)
Undisturbed == Line \subseteq {"badfile", "mgr"} /\ Opens = 1

At(k) == k * W
WordAt(k) == [j \in 1 .. W |-> W * (k - 1) + j]
Words(k) == [i \in 1 .. k |-> WordAt(i)]

LEMMA AtMoves ==
  /\ At(0) = 0
  /\ \A k \in Nat : At(k) \in Nat /\ At(k + 1) = At(k) + W
  /\ \A k \in Nat \ {0} : At(k) = At(k - 1) + W
<1>. USE Parameters
<1>1. \A k \in Nat : k * W \in Nat /\ (k + 1) * W = k * W + W
  BY SMT
<1>2. \A k \in Nat \ {0} : k * W = (k - 1) * W + W
  BY SMT
<1>3. 0 * W = 0
  BY SMT
<1>. QED  BY <1>1, <1>2, <1>3 DEF At

LEMMA WordAtBytes ==
  ASSUME NEW k \in Nat
  PROVE  WordAt(k + 1) = [j \in 1 .. W |-> At(k) + j]
<1>. USE Parameters
<1>1. W * ((k + 1) - 1) = k * W
  BY SMT
<1>. QED  BY <1>1 DEF WordAt, At

(* A file of FileLen bytes holds every word that ends within it. *)
LEMMA WordsInFile ==
  ASSUME NEW k \in Nat, At(k) <= FileLen
  PROVE  /\ FileLen \div W \in Nat /\ k <= FileLen \div W
         /\ At(k) = FileLen => k = FileLen \div W
<1>. USE Parameters
<1>. DEFINE d == FileLen \div W
<1>1. d \in Nat /\ d * W <= FileLen /\ FileLen < d * W + W
  BY SMT
<1>. HIDE DEF d
<1>2. (d + 1) * W = d * W + W
  BY <1>1, SMT
<1>3. ASSUME k > d PROVE FALSE
  <2>1. (d + 1) * W <= k * W
    BY <1>1, <1>3, SMT
  <2>. QED  BY <1>1, <1>2, <2>1, AtMoves DEF At
<1>4. ASSUME k < d, At(k) = FileLen PROVE FALSE
  <2>1. (k + 1) * W <= d * W
    BY <1>1, <1>4, SMT
  <2>2. (k + 1) * W = k * W + W
    BY SMT
  <2>. QED  BY <1>1, <1>4, <2>1, <2>2, AtMoves DEF At
<1>5. k <= d /\ (At(k) = FileLen => k = d)
  BY <1>1, <1>3, <1>4
<1>. QED  BY <1>1, <1>5 DEF d

LEMMA WordsProperties ==
  ASSUME NEW k \in Nat
  PROVE  /\ Words(k) \in Seq(Seq(Int)) /\ Len(Words(k)) = k
         /\ \A i \in 1 .. k : Words(k)[i] = WordAt(i)
<1>. USE Parameters
<1>1. \A i \in 1 .. k : WordAt(i) \in Seq(Int)
  <2>. SUFFICES ASSUME NEW i \in 1 .. k PROVE WordAt(i) \in Seq(Int)
    OBVIOUS
  <2>1. \A j \in 1 .. W : W * (i - 1) + j \in Int
    BY SMT
  <2>. QED  BY <2>1 DEF WordAt
<1>. QED  BY <1>1 DEF Words

LEMMA NextWord ==
  ASSUME NEW k \in Nat \ {0}
  PROVE  Append(Words(k - 1), WordAt(k)) = Words(k)
<1>1. /\ Words(k - 1) \in Seq(Seq(Int)) /\ Len(Words(k - 1)) = k - 1
      /\ \A i \in 1 .. k - 1 : Words(k - 1)[i] = WordAt(i)
      /\ Words(k) \in Seq(Seq(Int)) /\ Len(Words(k)) = k
      /\ \A i \in 1 .. k : Words(k)[i] = WordAt(i)
  <2>1. k - 1 \in Nat
    OBVIOUS
  <2>. QED  BY <2>1, WordsProperties
<1>2. WordAt(k) \in Seq(Int)
  <2>1. k \in 1 .. k /\ Words(k)[k] \in Seq(Int)
    BY <1>1
  <2>. QED  BY <1>1, <2>1
<1>. DEFINE s == Words(k - 1)
            t == Words(k)
            w == WordAt(k)
<1>. HIDE DEF s, t
<1>3. Append(s, w) \in Seq(Seq(Int)) /\ Len(Append(s, w)) = k
  BY <1>1, <1>2, AppendProperties DEF s
<1>4. ASSUME NEW i \in 1 .. k PROVE Append(s, w)[i] = t[i]
  <2>0. s \in Seq(Seq(Int)) /\ Len(s) = k - 1 /\ t[i] = WordAt(i)
    BY <1>1 DEF s, t
  <2>1. CASE i = k
    <3>1. Append(s, w)[Len(s) + 1] = w
      BY <1>2, <2>0, AppendProperties
    <3>. QED  BY <2>0, <2>1, <3>1
  <2>2. CASE i # k
    <3>1. i \in 1 .. k - 1
      BY <2>2
    <3>2. Append(s, w)[i] = s[i]
      BY <1>2, <2>0, <3>1, AppendProperties
    <3>3. s[i] = WordAt(i)
      BY <1>1, <3>1 DEF s
    <3>. QED  BY <2>0, <3>2, <3>3
  <2>. QED  BY <2>1, <2>2
<1>5. Append(s, w) = t
  BY <1>1, <1>3, <1>4, SeqEqual DEF t
<1>. QED  BY <1>5 DEF s, t

LEMMA NoWords == Words(0) = << >>
<1>1. Words(0) \in Seq(Seq(Int)) /\ Len(Words(0)) = 0
  BY WordsProperties
<1>. QED  BY <1>1

LEMMA WordsPrefix ==
  ASSUME NEW k \in Nat, NEW j \in 0 .. k
  PROVE  IsPrefix(Words(j), Words(k))
<1>1. /\ Words(j) \in Seq(Seq(Int)) /\ Len(Words(j)) = j
      /\ \A i \in 1 .. j : Words(j)[i] = WordAt(i)
      /\ Words(k) \in Seq(Seq(Int)) /\ Len(Words(k)) = k
      /\ \A i \in 1 .. k : Words(k)[i] = WordAt(i)
  BY WordsProperties
<1>. DEFINE s == Words(j)
            t == Words(k)
<1>. HIDE DEF s, t
<1>2. /\ SubSeq(s, 1, j) \in Seq(Seq(Int)) /\ Len(SubSeq(s, 1, j)) = j
      /\ \A i \in 1 .. j : SubSeq(s, 1, j)[i] = s[i]
      /\ SubSeq(t, 1, j) \in Seq(Seq(Int)) /\ Len(SubSeq(t, 1, j)) = j
      /\ \A i \in 1 .. j : SubSeq(t, 1, j)[i] = t[i]
  BY <1>1, SubSeqProperties DEF s, t
<1>3. \A i \in 1 .. j : SubSeq(s, 1, j)[i] = SubSeq(t, 1, j)[i]
  BY <1>1, <1>2 DEF s, t
<1>4. SubSeq(s, 1, j) = SubSeq(t, 1, j)
  BY <1>2, <1>3, SeqEqual
<1>. QED  BY <1>1, <1>4 DEF IsPrefix, s, t

-----------------------------------------------------------------------------
(* The inductive invariant.  k words have left the buffer, and it holds    *)
(* the bytes of the file that come next.                                   *)
Buffered(k) ==
  /\ offset = At(k) + Len(in_buf)
  /\ \A i \in 1 .. Len(in_buf) : in_buf[i] = At(k) + i
  /\ in_buf # << >> => \E q \in Nat : in_buf_pos = At(q)

(* Nothing is on its way to the FPGA or back, and no retry is due. *)
Quiet == to_dev = << >> /\ to_host = << >> /\ timers = 0

(* One LATCH will make the FPGA take w. *)
OnItsWay(w) ==
  \/ to_dev = <<Tdata(w), Tvalid(TRUE), Latch>>
  \/ to_dev = <<Tvalid(TRUE), Latch>> /\ dev.data = w
  \/ to_dev = <<Tdata(w), Latch>> /\ dev.valid
  \/ to_dev = <<Latch>> /\ dev.data = w /\ dev.valid

(* Word k: sent, refused, to be tried again, taken. *)
Sent(k) == OnItsWay(WordAt(k)) /\ to_host = << >> /\ timers = 0 /\ injected = Words(k - 1)
Loaded(k) == to_dev = << >> /\ dev.valid /\ dev.data = WordAt(k) /\ injected = Words(k - 1)
Refused(k) == Loaded(k) /\ to_host = <<TRUE>> /\ timers = 0
Retried(k) == Loaded(k) /\ to_host = << >> /\ timers = 1
Taken(k) == to_dev = << >> /\ dev.valid /\ to_host = <<FALSE>> /\ timers = 0 /\ injected = Words(k)
Underway(k) == k > 0 /\ (Sent(k) \/ Refused(k) \/ Retried(k) \/ Taken(k))

(* No command on its way makes the FPGA take a word. *)
Harmless ==
  \/ \A i \in 1 .. Len(to_dev) : to_dev[i] # Latch
  \/ to_dev = <<Latch>> /\ ~ dev.valid
  \/ to_dev = <<Tvalid(FALSE), Latch>>
Over(k) == Harmless /\ timers = 0 /\ \E j \in 0 .. k : injected = Words(j)

Stage(k) ==
  /\ send_state # "PAUSED"
  /\ send_state \in {"NOFILE", "IDLE"} =>
       k = 0 /\ in_buf = << >> /\ send_bytes = 0 /\ Quiet /\ injected = << >>
  /\ send_state = "WAIT_READ" =>
       Len(in_buf) < W /\ send_bytes = At(k) /\ Quiet /\ injected = Words(k)
  /\ send_state = "WAIT_ACK" => Underway(k) /\ send_bytes = At(k - 1)
  /\ send_state = "DONE" =>
       /\ in_buf = << >> /\ offset = FileLen /\ send_bytes = At(k)
       /\ Harmless /\ timers = 0 /\ injected = Words(k)
  /\ send_state = "ERROR" => Over(k)
  /\ send_state = "FREED" => Over(k) \/ Underway(k)

NotPaused == ~ send_pause
OneFile == opens = 0 => send_state \in {"NOFILE", "FREED"}
Carried == \E k \in Nat : Buffered(k) /\ Stage(k)
IInv == TypeOK /\ ReadEvArmed /\ NotPaused /\ OneFile /\ Carried

LEMMA CmdsDiffer ==
  /\ \A b : Tvalid(b) # Latch
  /\ \A w : Tdata(w) # Latch
  /\ \A b, w : Tvalid(b) # Tdata(w)
BY DEF Tvalid, Tdata, Latch

LEMMA Fields ==
  ASSUME NEW x
  PROVE  /\ Tdata(x)[1] = "INJ_TDATA" /\ Tdata(x)[2] = x
         /\ Tvalid(x)[1] = "INJ_TVALID" /\ Tvalid(x)[2] = x
BY DEF Tdata, Tvalid

LEMMA TailOfOne ==
  ASSUME NEW a
  PROVE  Head(<<a>>) = a /\ Tail(<<a>>) = << >> /\ <<a>> # << >>
OBVIOUS

LEMMA TailOfThree ==
  ASSUME NEW a, NEW b, NEW c
  PROVE  Head(<<a, b, c>>) = a /\ Tail(<<a, b, c>>) = <<b, c>>
<1>. DEFINE S == {a, b, c}
            s == <<a, b, c>>
            t == <<b, c>>
<1>1. s \in Seq(S) /\ s # << >> /\ Len(s) = 3 /\ s[1] = a /\ s[2] = b /\ s[3] = c
  OBVIOUS
<1>2. t \in Seq(S) /\ Len(t) = 2 /\ t[1] = b /\ t[2] = c
  OBVIOUS
<1>. HIDE DEF S, s, t
<1>3. /\ Head(s) = a /\ Tail(s) \in Seq(S) /\ Len(Tail(s)) = 2
      /\ \A i \in 1 .. Len(Tail(s)) : Tail(s)[i] = s[i + 1]
  BY <1>1, HeadTailProperties
<1>4. \A i \in 1 .. Len(t) : Tail(s)[i] = t[i]
  <2>. DEFINE u == Tail(s)
  <2>0. Len(u) = 2 /\ \A i \in 1 .. Len(u) : u[i] = s[i + 1]
    BY <1>3
  <2>. HIDE DEF u
  <2>1. u[1] = s[1 + 1] /\ u[2] = s[2 + 1]
    <3>1. 1 \in 1 .. Len(u) /\ 2 \in 1 .. Len(u)
      BY <2>0
    <3>. QED  BY <2>0, <3>1, Zenon
  <2>2. 1 + 1 = 2 /\ 2 + 1 = 3
    OBVIOUS
  <2>3. u[1] = t[1] /\ u[2] = t[2]
    BY <1>1, <1>2, <2>1, <2>2
  <2>4. \A i \in 1 .. Len(t) : i = 1 \/ i = 2
    BY <1>2
  <2>. QED  BY <2>3, <2>4 DEF u
<1>5. Tail(s) = t
  BY <1>2, <1>3, <1>4, SeqEqual
<1>. QED  BY <1>3, <1>5 DEF s, t

LEMMA InitIInv == Init => IInv
<1>. SUFFICES ASSUME Init PROVE IInv
  OBVIOUS
<1>1. TypeOK
  BY InitTypeOK
<1>2. ReadEvArmed /\ NotPaused /\ OneFile
  BY DEF Init, ReadEvArmed, NotPaused, OneFile
<1>3. Buffered(0)
  BY AtMoves DEF Init, Buffered
<1>4. Stage(0)
  BY DEF Init, Stage, Quiet
<1>. QED  BY <1>1, <1>2, <1>3, <1>4 DEF IInv, Carried

-----------------------------------------------------------------------------
(* The FPGA's side *)

LEMMA HarmlessSteps ==
  ASSUME TypeOK, Harmless, DevCommand
  PROVE  Harmless' /\ injected' = injected
<1>1. /\ to_dev \in Seq(Cmds) /\ to_dev # << >> /\ to_dev' = Tail(to_dev)
  BY DEF TypeOK, DevCommand
<1>2. CASE \A i \in 1 .. Len(to_dev) : to_dev[i] # Latch
  <2>1. Head(to_dev) # Latch /\ Head(to_dev) \in Cmds
    BY <1>1, <1>2
  <2>2. Head(to_dev)[1] \in {"INJ_TDATA", "INJ_TVALID"}
    BY <2>1 DEF Cmds
  <2>3. injected' = injected
    BY <2>2 DEF DevCommand
  <2>4. \A i \in 1 .. Len(to_dev') : to_dev'[i] # Latch
    BY <1>1, <1>2
  <2>. QED  BY <2>3, <2>4 DEF Harmless
<1>3. CASE to_dev = <<Latch>> /\ ~ dev.valid
  <2>1. Head(to_dev) = Latch /\ Tail(to_dev) = << >>
    BY <1>3
  <2>2. DevLatch
    BY <2>1 DEF DevCommand, Latch
  <2>3. injected' = injected /\ to_dev' = << >>
    BY <1>1, <1>3, <2>1, <2>2 DEF DevLatch
  <2>. QED  BY <2>3 DEF Harmless
<1>4. CASE to_dev = <<Tvalid(FALSE), Latch>>
  <2>1. Head(to_dev) = Tvalid(FALSE) /\ Tail(to_dev) = <<Latch>>
    BY <1>4
  <2>2. injected' = injected /\ dev' = [dev EXCEPT !.valid = FALSE] /\ to_dev' = <<Latch>>
    <3>1. Head(to_dev)[1] = "INJ_TVALID" /\ Head(to_dev)[2] = FALSE
      BY <2>1, Fields
    <3>. QED  BY <1>1, <2>1, <3>1, Zenon DEF DevCommand
  <2>. QED  BY <2>2 DEF Harmless, TypeOK
<1>. QED  BY <1>2, <1>3, <1>4 DEF Harmless

LEMMA UnderwaySteps ==
  ASSUME TypeOK, NEW k \in Nat, Underway(k), DevCommand
  PROVE  Underway(k)'
<1>. DEFINE w == WordAt(k)
<1>1. /\ k > 0 /\ OnItsWay(w) /\ to_host = << >> /\ timers = 0 /\ injected = Words(k - 1)
      /\ to_dev' = Tail(to_dev) /\ timers' = timers
  BY DEF Underway, Sent, Loaded, Refused, Retried, Taken, DevCommand
<1>. HIDE DEF w
<1>2. CASE to_dev = <<Tdata(w), Tvalid(TRUE), Latch>>
  <2>1. Head(to_dev) = Tdata(w) /\ Tail(to_dev) = <<Tvalid(TRUE), Latch>>
    BY <1>2, TailOfThree
  <2>2. dev' = [dev EXCEPT !.data = w] /\ UNCHANGED <<to_host, injected>>
    BY <2>1 DEF DevCommand, Tdata
  <2>3. OnItsWay(w)'
    BY <1>1, <2>1, <2>2 DEF OnItsWay, TypeOK
  <2>. QED  BY <1>1, <2>2, <2>3 DEF Underway, Sent, w
<1>3. CASE to_dev = <<Tvalid(TRUE), Latch>> /\ dev.data = w
  <2>1. Head(to_dev) = Tvalid(TRUE) /\ Tail(to_dev) = <<Latch>>
    BY <1>3
  <2>2. dev' = [dev EXCEPT !.valid = TRUE] /\ UNCHANGED <<to_host, injected>>
    <3>1. Head(to_dev)[1] = "INJ_TVALID" /\ Head(to_dev)[2] = TRUE
      BY <2>1, Fields
    <3>. QED  BY <3>1, Zenon DEF DevCommand
  <2>3. OnItsWay(w)'
    BY <1>1, <1>3, <2>1, <2>2 DEF OnItsWay, TypeOK
  <2>. QED  BY <1>1, <2>2, <2>3 DEF Underway, Sent, w
<1>4. CASE to_dev = <<Tdata(w), Latch>> /\ dev.valid
  <2>1. Head(to_dev) = Tdata(w) /\ Tail(to_dev) = <<Latch>>
    BY <1>4
  <2>2. dev' = [dev EXCEPT !.data = w] /\ UNCHANGED <<to_host, injected>>
    BY <2>1 DEF DevCommand, Tdata
  <2>3. OnItsWay(w)'
    BY <1>1, <1>4, <2>1, <2>2 DEF OnItsWay, TypeOK
  <2>. QED  BY <1>1, <2>2, <2>3 DEF Underway, Sent, w
<1>5. CASE to_dev = <<Latch>> /\ dev.data = w /\ dev.valid
  <2>1. Head(to_dev) = Latch /\ Tail(to_dev) = << >>
    BY <1>5
  <2>2. DevLatch
    BY <2>1 DEF DevCommand, Latch
  <2>3. to_dev' = << >> /\ to_host' = <<dev.live>> /\ dev.live \in BOOLEAN
    BY <1>1, <2>1, <2>2 DEF DevLatch, TypeOK
  <2>4. CASE dev.live
    <3>1. dev' = dev /\ injected' = injected /\ to_host' = <<TRUE>>
      BY <2>2, <2>3, <2>4 DEF DevLatch
    <3>. QED  BY <1>1, <1>5, <2>3, <3>1 DEF Underway, Refused, Loaded, w
  <2>5. CASE ~ dev.live
    <3>1. dev' = [dev EXCEPT !.live = dev.valid] /\ to_host' = <<FALSE>>
      BY <2>2, <2>3, <2>5 DEF DevLatch
    <3>2. injected' = Append(Words(k - 1), w)
      BY <1>1, <1>5, <2>2, <2>5 DEF DevLatch
    <3>3. injected' = Words(k)
      <4>1. k \in Nat \ {0}
        BY <1>1
      <4>. QED  BY <3>2, <4>1, NextWord DEF w
    <3>4. dev'.valid
      BY <1>5, <3>1 DEF TypeOK
    <3>. QED  BY <1>1, <2>3, <3>1, <3>3, <3>4 DEF Underway, Taken
  <2>. QED  BY <2>3, <2>4, <2>5
<1>. QED  BY <1>1, <1>2, <1>3, <1>4, <1>5 DEF OnItsWay

-----------------------------------------------------------------------------
(* The program's side *)

(* Of commands that do not all fit the last is left out. *)
LEMMA EnqueueEmpty ==
  ASSUME TypeOK, to_dev = << >>, NEW cmds \in Seq(Cmds), Enqueue(cmds),
         \A i \in 1 .. Len(cmds) - 1 : cmds[i] # Latch
  PROVE  /\ Fits(cmds) => to_dev' = cmds
         /\ ~ Fits(cmds) => \A i \in 1 .. Len(to_dev') : to_dev'[i] # Latch
<1>. USE Parameters
<1>0. Len(to_dev) = 0
  OBVIOUS
<1>1. CASE Fits(cmds)
  BY <1>0, <1>1 DEF Enqueue
<1>2. CASE ~ Fits(cmds)
  <2>. DEFINE first == SubSeq(cmds, 1, Queue)
  <2>1. Queue < Len(cmds) /\ Len(cmds) \in Nat
    BY <1>0, <1>2 DEF Fits
  <2>2. /\ first \in Seq(Cmds) /\ Len(first) = Queue
        /\ \A i \in 1 .. Queue : first[i] = cmds[i]
    BY <2>1, SubSeqProperties
  <2>3. to_dev' = to_dev \o first
    BY <1>0, <1>2 DEF Enqueue
  <2>. HIDE DEF first
  <2>4. to_dev' = first
    BY <2>2, <2>3
  <2>5. \A i \in 1 .. Queue : first[i] # Latch
    BY <2>1, <2>2
  <2>. QED  BY <1>2, <2>2, <2>4, <2>5
<1>. QED  BY <1>1, <1>2

LEMMA SendsWord ==
  ASSUME TypeOK, NEW k \in Nat, to_dev = << >>, injected = Words(k),
         NEW cmds,
         \/ cmds = FirstCmds(WordAt(k + 1))
         \/ cmds = NextCmds(WordAt(k + 1)) /\ dev.valid,
         SendThen(cmds, "WAIT_ACK"),
         to_host' = << >>, timers' = 0, UNCHANGED <<injected, dev>>
  PROVE  /\ Fits(cmds) => send_state' = "WAIT_ACK" /\ Underway(k + 1)'
         /\ ~ Fits(cmds) => send_state' = "ERROR" /\ Over(k + 1)'
<1>. DEFINE w == WordAt(k + 1)
<1>1. w \in Seq(Int)
  <2>1. w = [j \in 1 .. W |-> At(k) + j] /\ At(k) \in Nat
    BY WordAtBytes, AtMoves
  <2>2. [j \in 1 .. W |-> At(k) + j] \in Seq(Int)
    BY <2>1, Parameters
  <2>. QED  BY <2>1, <2>2
<1>. HIDE DEF w
<1>2. cmds \in Seq(Cmds)
  BY <1>1, NextCmdsTyped DEF w
<1>3. \A i \in 1 .. Len(cmds) - 1 : cmds[i] # Latch
  <2>1. CASE cmds = FirstCmds(w)
    <3>1. /\ Len(cmds) = 3 /\ cmds[1] = Tdata(w) /\ cmds[2] = Tvalid(TRUE)
      BY <2>1 DEF FirstCmds
    <3>2. \A i \in 1 .. Len(cmds) - 1 : i = 1 \/ i = 2
      BY <3>1
    <3>. QED  BY <3>1, <3>2, CmdsDiffer
  <2>2. CASE cmds = NextCmds(w)
    BY <2>2, CmdsDiffer DEF NextCmds
  <2>. QED  BY <2>1, <2>2 DEF w
<1>4. /\ Fits(cmds) => to_dev' = cmds
      /\ ~ Fits(cmds) => \A i \in 1 .. Len(to_dev') : to_dev'[i] # Latch
  BY <1>2, <1>3, EnqueueEmpty DEF SendThen
<1>5. CASE Fits(cmds)
  <2>1. OnItsWay(w)'
    BY <1>4, <1>5 DEF OnItsWay, FirstCmds, NextCmds, w
  <2>2. (k + 1) - 1 = k
    OBVIOUS
  <2>3. Underway(k + 1)'
    BY <2>1, <2>2 DEF Underway, Sent, w
  <2>. QED  BY <1>5, <2>3 DEF SendThen
<1>6. CASE ~ Fits(cmds)
  <2>1. Harmless'
    BY <1>4, <1>6 DEF Harmless
  <2>2. Over(k + 1)'
    BY <2>1 DEF Over
  <2>. QED  BY <1>6, <2>2 DEF SendThen
<1>. QED  BY <1>5, <1>6

LEMMA Dropped ==
  ASSUME NEW S, NEW s \in Seq(S), NEW n \in 0 .. Len(s)
  PROVE  /\ SubSeq(s, n + 1, Len(s)) \in Seq(S)
         /\ Len(SubSeq(s, n + 1, Len(s))) = Len(s) - n
         /\ \A i \in 1 .. Len(s) - n : SubSeq(s, n + 1, Len(s))[i] = s[n + i]
OBVIOUS

(* A word taken out of the buffer is the next of the file. *)
LEMMA TakesWord ==
  ASSUME NEW k \in Nat, NEW b \in Seq(1 .. FileLen), NEW p \in Nat, Len(b) >= W,
         \A i \in 1 .. Len(b) : b[i] = At(k) + i,
         \E q \in Nat : p = At(q),
         TakeWord(b, p), offset' = At(k) + Len(b)
  PROVE  /\ SubSeq(b, 1, W) = WordAt(k + 1)
         /\ Buffered(k + 1)'
<1>. USE Parameters
<1>0. Len(b) \in Nat /\ At(k) \in Nat /\ At(k + 1) = At(k) + W
  BY AtMoves
<1>1. SubSeq(b, 1, W) = WordAt(k + 1)
  <2>. DEFINE s == SubSeq(b, 1, W)
              t == WordAt(k + 1)
  <2>1. /\ s \in Seq(1 .. FileLen) /\ Len(s) = W /\ \A i \in 1 .. W : s[i] = b[i]
    BY <1>0, SubSeqProperties
  <2>2. t = [j \in 1 .. W |-> At(k) + j]
    BY WordAtBytes
  <2>. HIDE DEF s, t
  <2>3. t \in Seq(Int) /\ Len(t) = W /\ \A i \in 1 .. W : t[i] = At(k) + i
    BY <1>0, <2>2
  <2>4. \A i \in 1 .. W : s[i] = t[i]
    <3>. SUFFICES ASSUME NEW i \in 1 .. W PROVE s[i] = t[i]
      OBVIOUS
    <3>1. i \in 1 .. Len(b)
      BY <1>0
    <3>2. b[i] = At(k) + i
      BY <3>1
    <3>. QED  BY <2>1, <2>3, <3>2
  <2>5. s = t
    BY <2>1, <2>3, <2>4, SeqEqual
  <2>. QED  BY <2>5 DEF s, t
<1>2. Buffered(k + 1)'
  <2>. DEFINE rest == SubSeq(b, W + 1, Len(b))
  <2>1. /\ rest \in Seq(1 .. FileLen) /\ Len(rest) = Len(b) - W
        /\ \A i \in 1 .. Len(rest) : rest[i] = b[W + i]
    <3>1. W \in 0 .. Len(b)
      BY <1>0
    <3>2. /\ rest \in Seq(1 .. FileLen) /\ Len(rest) = Len(b) - W
          /\ \A i \in 1 .. Len(b) - W : rest[i] = b[W + i]
      BY <3>1, Dropped
    <3>. QED  BY <3>2
  <2>2. in_buf' = rest /\ in_buf_pos' = p + W
    BY DEF TakeWord
  <2>. HIDE DEF rest
  <2>3. \A i \in 1 .. Len(rest) : rest[i] = At(k + 1) + i
    <3>. SUFFICES ASSUME NEW i \in 1 .. Len(rest) PROVE rest[i] = At(k + 1) + i
      OBVIOUS
    <3>1. i \in 1 .. Len(b) - W
      BY <2>1
    <3>2. W + i \in 1 .. Len(b) /\ At(k) + (W + i) = At(k + 1) + i
      BY <1>0, <3>1
    <3>3. b[W + i] = At(k) + (W + i)
      BY <3>2
    <3>. QED  BY <2>1, <3>2, <3>3
  <2>4. offset' = At(k + 1) + Len(rest)
    BY <1>0, <2>1
  <2>5. \E q \in Nat : p + W = At(q)
    <3>1. PICK q \in Nat : p = At(q)
      OBVIOUS
    <3>2. q + 1 \in Nat /\ At(q + 1) = p + W
      BY <3>1, AtMoves
    <3>. QED  BY <3>2
  <2>. QED  BY <2>2, <2>3, <2>4, <2>5 DEF Buffered
<1>. QED  BY <1>1, <1>2

LEMMA ReadCarries ==
  ASSUME IInv, FileReadCb
  PROVE  Carried'
<1>. USE Parameters
<1>1. PICK k \in Nat : Buffered(k) /\ Stage(k)
  BY DEF IInv, Carried
<1>2. TypeOK /\ send_state = "WAIT_READ"
  BY DEF IInv, FileReadCb, ReadEvArmed
<1>3. /\ Len(in_buf) < W /\ send_bytes = At(k) /\ Quiet /\ injected = Words(k)
  BY <1>1, <1>2 DEF Stage
<1>4. /\ UNCHANGED <<timers, to_host, dev, injected>>
  BY DEF FileReadCb, fpga
<1>5. /\ in_buf \in Seq(1 .. FileLen) /\ Len(in_buf) \in Nat /\ offset \in 0 .. FileLen
      /\ in_buf_pos \in Nat /\ in_buf_pos + Len(in_buf) <= Size
      /\ offset = At(k) + Len(in_buf) /\ At(k) \in Nat
      /\ \A i \in 1 .. Len(in_buf) : in_buf[i] = At(k) + i
  BY <1>1, <1>2, AtMoves DEF TypeOK, Buffered
<1>6. \E q \in Nat : Start = At(q)
  <2>1. CASE in_buf = << >>
    BY <2>1, AtMoves DEF Start
  <2>2. CASE in_buf # << >>
    BY <1>1, <2>2 DEF Start, Buffered
  <2>. QED  BY <2>1, <2>2
<1>7. CASE ReadFails
  <2>1. UNCHANGED <<in_buf, offset, to_dev>> /\ in_buf_pos' = Start /\ send_state' = "ERROR"
    BY <1>7 DEF ReadFails
  <2>2. Buffered(k)'
    BY <1>1, <1>6, <2>1 DEF Buffered
  <2>3. Over(k)'
    BY <1>3, <1>4, <2>1 DEF Over, Harmless, Quiet
  <2>. QED  BY <2>1, <2>2, <2>3 DEF Carried, Stage
<1>8. CASE ReadEnds
  <2>1. /\ UNCHANGED <<in_buf, offset, send_bytes>> /\ in_buf_pos' = Start
        /\ send_state' = IF in_buf = << >> THEN "DONE" ELSE "ERROR"
        /\ Enqueue(<<Tvalid(FALSE), Latch>>)
    BY <1>8 DEF ReadEnds
  <2>2. Buffered(k)'
    BY <1>1, <1>6, <2>1 DEF Buffered
  <2>3. Harmless'
    <3>. DEFINE cmds == <<Tvalid(FALSE), Latch>>
    <3>1. cmds \in Seq(Cmds) /\ Len(cmds) = 2 /\ cmds[1] = Tvalid(FALSE)
      BY CmdsTyped, Tuples
    <3>2. \A i \in 1 .. Len(cmds) - 1 : cmds[i] # Latch
      <4>1. \A i \in 1 .. Len(cmds) - 1 : i = 1
        BY <3>1
      <4>. QED  BY <3>1, <4>1, CmdsDiffer
    <3>3. /\ Fits(cmds) => to_dev' = cmds
          /\ ~ Fits(cmds) => \A i \in 1 .. Len(to_dev') : to_dev'[i] # Latch
      BY <1>2, <1>3, <2>1, <3>1, <3>2, EnqueueEmpty DEF Quiet
    <3>. QED  BY <3>3 DEF Harmless
  <2>4. timers' = 0 /\ injected' = Words(k)
    BY <1>3, <1>4 DEF Quiet
  <2>5. CASE in_buf = << >>
    <3>1. offset = FileLen
      BY <1>5, <1>8, <2>5 DEF ReadEnds, Room, Start
    <3>. QED  BY <1>3, <2>1, <2>2, <2>3, <2>4, <2>5, <3>1 DEF Carried, Stage
  <2>6. CASE in_buf # << >>
    <3>1. Over(k)'
      BY <2>3, <2>4 DEF Over
    <3>. QED  BY <2>1, <2>2, <2>6, <3>1 DEF Carried, Stage
  <2>. QED  BY <2>5, <2>6
<1>9. ASSUME NEW n \in 1 .. Size, ReadSome(n)
      PROVE  Carried'
  <2>. DEFINE piece == [i \in 1 .. n |-> offset + i]
              got == in_buf \o piece
  <2>1. n \in 1 .. Room /\ offset + n <= FileLen /\ offset' = offset + n /\ send_bytes' = send_bytes
    BY <1>9 DEF ReadSome
  <2>2. /\ got \in Seq(1 .. FileLen) /\ Len(got) = Len(in_buf) + n
        /\ \A i \in 1 .. Len(got) : got[i] = At(k) + i
    <3>1. piece \in Seq(1 .. FileLen) /\ Len(piece) = n /\ \A i \in 1 .. n : piece[i] = offset + i
      BY <1>5, <2>1
    <3>. HIDE DEF piece
    <3>2. got \in Seq(1 .. FileLen) /\ Len(got) = Len(in_buf) + n
      BY <1>5, <3>1, ConcatProperties
    <3>3. ASSUME NEW i \in 1 .. Len(got) PROVE got[i] = At(k) + i
      <4>1. CASE i <= Len(in_buf)
        BY <1>5, <3>1, <3>2, <4>1, ConcatProperties
      <4>2. CASE i > Len(in_buf)
        <5>1. got[i] = piece[i - Len(in_buf)]
          BY <1>5, <3>1, <3>2, <4>2, ConcatProperties
        <5>2. i - Len(in_buf) \in 1 .. n
          BY <1>5, <3>2, <4>2
        <5>. QED  BY <1>5, <3>1, <5>1, <5>2
      <4>. QED  BY <1>5, <3>2, <4>1, <4>2
    <3>. QED  BY <3>2, <3>3
  <2>3. offset' = At(k) + Len(got)
    BY <1>5, <2>1, <2>2
  <2>4. CASE Len(got) < W
    <3>1. /\ send_state' = "WAIT_READ" /\ in_buf' = got /\ in_buf_pos' = Start
          /\ to_dev' = to_dev
      BY <1>9, <2>4 DEF ReadSome
    <3>. HIDE DEF got
    <3>2. Buffered(k)'
      BY <1>6, <2>2, <2>3, <3>1 DEF Buffered
    <3>3. Stage(k)'
      BY <1>3, <1>4, <2>1, <2>4, <3>1 DEF Stage, Quiet
    <3>. QED  BY <3>2, <3>3 DEF Carried
  <2>5. CASE ~ Len(got) < W
    <3>. DEFINE w == SubSeq(got, 1, W)
    <3>1. /\ SendThen(FirstCmds(w), "WAIT_ACK") /\ TakeWord(got, Start)
      BY <1>9, <2>5, Zenon DEF ReadSome
    <3>. HIDE DEF got
    <3>2. Len(got) >= W /\ Start \in Nat
      BY <1>5, <2>2, <2>5 DEF Start
    <3>3. w = WordAt(k + 1) /\ Buffered(k + 1)'
      BY <1>6, <2>2, <2>3, <3>1, <3>2, TakesWord
    <3>4. \/ send_state' = "WAIT_ACK" /\ Underway(k + 1)'
          \/ send_state' = "ERROR" /\ Over(k + 1)'
      BY <1>2, <1>3, <1>4, <3>1, <3>3, SendsWord DEF Quiet
    <3>5. k + 1 \in Nat /\ (k + 1) - 1 = k
      OBVIOUS
    <3>6. Stage(k + 1)'
      BY <1>3, <2>1, <3>4, <3>5 DEF Stage
    <3>. QED  BY <3>3, <3>5, <3>6 DEF Carried
  <2>. QED  BY <2>4, <2>5
<1>. QED  BY <1>7, <1>8, <1>9 DEF FileReadCb

LEMMA ReceiptCarries ==
  ASSUME IInv, ReceiptCb
  PROVE  Carried'
<1>. USE Parameters
<1>1. PICK k \in Nat : Buffered(k) /\ Stage(k)
  BY DEF IInv, Carried
<1>2. /\ TypeOK /\ ~ send_pause
      /\ to_host # << >> /\ to_host' = Tail(to_host) /\ UNCHANGED <<offset, dev, injected>>
  BY DEF IInv, ReceiptCb, NotPaused
<1>3. Underway(k) => /\ to_host \in {<<TRUE>>, <<FALSE>>} /\ to_host' = << >>
                     /\ Head(to_host) => Refused(k)
                     /\ ~ Head(to_host) => Taken(k)
  <2>. SUFFICES ASSUME Underway(k)
                PROVE  /\ to_host \in {<<TRUE>>, <<FALSE>>} /\ to_host' = << >>
                       /\ Head(to_host) => Refused(k)
                       /\ ~ Head(to_host) => Taken(k)
    OBVIOUS
  <2>1. Refused(k) \/ Taken(k)
    BY <1>2 DEF Underway, Sent, Retried
  <2>2. CASE Refused(k)
    <3>1. to_host = <<TRUE>> /\ Head(to_host) = TRUE /\ to_host' = << >>
      BY <1>2, <2>2, TailOfOne DEF Refused
    <3>. QED  BY <2>2, <3>1
  <2>3. CASE Taken(k)
    <3>1. to_host = <<FALSE>> /\ Head(to_host) = FALSE /\ to_host' = << >>
      BY <1>2, <2>3, TailOfOne DEF Taken
    <3>. QED  BY <2>3, <3>1
  <2>. QED  BY <2>1, <2>2, <2>3
<1>4. CASE send_state = "WAIT_ACK"
  <2>1. Underway(k) /\ k > 0 /\ send_bytes = At(k - 1)
    BY <1>1, <1>4 DEF Stage, Underway
  <2>2. CASE Head(to_host)
    <3>1. Refused(k) /\ RetryInject /\ UNCHANGED <<send_bytes, buffer>>
      BY <1>2, <1>3, <1>4, <2>1, <2>2 DEF ReceiptCb, FsmFailed
    <3>2. Buffered(k)'
      BY <1>1, <1>2, <3>1 DEF Buffered, buffer
    <3>3. CASE TooManyRetries
      <4>1. send_state' = "ERROR" /\ UNCHANGED <<timers, to_dev>>
        BY <3>1, <3>3 DEF RetryInject
      <4>2. Over(k)'
        <5>1. k - 1 \in 0 .. k /\ injected' = Words(k - 1)
          BY <1>2, <2>1, <3>1 DEF Refused, Loaded
        <5>. QED  BY <3>1, <4>1, <5>1 DEF Over, Harmless, Refused, Loaded
      <4>. QED  BY <3>2, <4>1, <4>2 DEF Carried, Stage
    <3>4. CASE ~ TooManyRetries
      <4>1. timers' = timers + 1 /\ UNCHANGED <<send_state, to_dev>>
        BY <3>1, <3>4 DEF RetryInject
      <4>2. Underway(k)'
        <5>1. timers' = 1 /\ to_host' = << >> /\ Loaded(k)'
          <6>1. to_host' = << >>
            BY <1>3, <2>1
          <6>2. timers' = 1
            BY <3>1, <4>1 DEF Refused
          <6>3. Loaded(k)'
            BY <1>2, <3>1, <4>1 DEF Refused, Loaded
          <6>. QED  BY <6>1, <6>2, <6>3
        <5>. QED  BY <2>1, <5>1 DEF Underway, Retried
      <4>. QED  BY <1>4, <2>1, <3>1, <3>2, <4>1, <4>2 DEF Carried, Stage
    <3>. QED  BY <3>3, <3>4
  <2>3. CASE ~ Head(to_host)
    <3>1. Taken(k) /\ FsmAcked(FALSE)
      <4>1. Taken(k) /\ FsmAcked(send_pause)
        BY <1>3, <1>4, <2>1, <2>3 DEF ReceiptCb
      <4>2. send_pause = FALSE
        BY <1>2 DEF TypeOK
      <4>. QED  BY <4>1, <4>2
    <3>2. /\ to_dev = << >> /\ dev.valid /\ timers' = 0 /\ to_host' = << >>
          /\ injected = Words(k)
      BY <1>3, <2>1, <3>1 DEF Taken, FsmAcked
    <3>3. send_bytes' = At(k)
      <4>1. At(k) = At(k - 1) + W
        BY <2>1, AtMoves
      <4>. QED  BY <2>1, <3>1, <4>1 DEF FsmAcked
    <3>4. CASE Len(in_buf) < W
      <4>1. send_state' = "WAIT_READ" /\ UNCHANGED <<buffer, to_dev>>
        BY <3>1, <3>4 DEF FsmAcked, ScheduleRead
      <4>2. Buffered(k)'
        BY <1>1, <1>2, <4>1 DEF Buffered, buffer
      <4>3. Stage(k)'
        BY <1>2, <3>2, <3>3, <3>4, <4>1 DEF Stage, Quiet, buffer
      <4>. QED  BY <4>2, <4>3 DEF Carried
    <3>5. CASE ~ Len(in_buf) < W
      <4>1. TakeWord(in_buf, in_buf_pos) /\ SendThen(NextCmds(Word), "WAIT_ACK")
        BY <3>1, <3>5 DEF FsmAcked
      <4>2. /\ in_buf \in Seq(1 .. FileLen) /\ in_buf_pos \in Nat /\ Len(in_buf) >= W
            /\ \A i \in 1 .. Len(in_buf) : in_buf[i] = At(k) + i
            /\ \E q \in Nat : in_buf_pos = At(q)
            /\ offset' = At(k) + Len(in_buf)
        <5>1. in_buf \in Seq(1 .. FileLen) /\ in_buf_pos \in Nat
          BY <1>2 DEF TypeOK
        <5>2. Len(in_buf) >= W
          BY <3>5, <5>1
        <5>3. in_buf # << >>
          BY <5>2
        <5>. QED  BY <1>1, <1>2, <5>1, <5>2, <5>3 DEF Buffered
      <4>3. Word = WordAt(k + 1) /\ Buffered(k + 1)'
        BY <4>1, <4>2, TakesWord DEF Word
      <4>4. \/ send_state' = "WAIT_ACK" /\ Underway(k + 1)'
            \/ send_state' = "ERROR" /\ Over(k + 1)'
        BY <1>2, <3>2, <4>1, <4>3, SendsWord
      <4>5. k + 1 \in Nat /\ (k + 1) - 1 = k
        OBVIOUS
      <4>6. Stage(k + 1)'
        BY <3>3, <4>4, <4>5 DEF Stage
      <4>. QED  BY <4>3, <4>5, <4>6 DEF Carried
    <3>. QED  BY <3>4, <3>5
  <2>. QED  BY <2>2, <2>3
<1>5. CASE send_state # "WAIT_ACK"
  <2>1. UNCHANGED <<fsm, buffer, timers, to_dev>>
    BY <1>5 DEF ReceiptCb, FsmNothing
  <2>2. Buffered(k)'
    BY <1>1, <1>2, <2>1 DEF Buffered, buffer
  <2>3. Over(k) => Over(k)'
    BY <1>2, <2>1 DEF Over, Harmless
  <2>4. Underway(k) => Over(k)'
    <3>. SUFFICES ASSUME Underway(k) PROVE Over(k)'
      OBVIOUS
    <3>1. to_dev' = << >> /\ timers' = 0 /\ k > 0 /\ (injected' = Words(k) \/ injected' = Words(k - 1))
      BY <1>2, <1>3, <2>1 DEF Underway, Refused, Taken, Loaded
    <3>2. k \in 0 .. k /\ k - 1 \in 0 .. k
      BY <3>1
    <3>. QED  BY <3>1, <3>2 DEF Over, Harmless
  <2>5. send_state \notin {"NOFILE", "IDLE", "WAIT_READ"}
    BY <1>1, <1>2 DEF Stage, Quiet
  <2>6. send_state = "DONE" => Stage(k)'
    BY <1>1, <1>2, <2>1 DEF Stage, Harmless, fsm, buffer
  <2>7. send_state # "DONE" => Stage(k)'
    BY <1>1, <1>5, <2>1, <2>3, <2>4, <2>5 DEF Stage, fsm
  <2>. QED  BY <2>2, <2>6, <2>7 DEF Carried
<1>. QED  BY <1>4, <1>5

LEMMA RetryCarries ==
  ASSUME IInv, RetryCb
  PROVE  Carried'
<1>. USE Parameters
<1>1. PICK k \in Nat : Buffered(k) /\ Stage(k)
  BY DEF IInv, Carried
<1>2. /\ TypeOK /\ timers \in Nat /\ timers > 0 /\ timers' = timers - 1
      /\ UNCHANGED <<fsm, buffer, offset, dev, to_host, injected>>
  BY DEF IInv, TypeOK, RetryCb, file, fpga
<1>3. Buffered(k)'
  BY <1>1, <1>2 DEF Buffered, buffer
<1>4. Retried(k) /\ k > 0 /\ send_state \in {"WAIT_ACK", "FREED"}
  <2>1. send_state \in {"WAIT_ACK", "FREED"}
    BY <1>1, <1>2 DEF Stage, Over, Quiet, TypeOK, SendStates, Sending
  <2>2. Underway(k)
    BY <1>1, <1>2, <2>1 DEF Stage, Over
  <2>3. timers # 0
    BY <1>2
  <2>4. ~ Sent(k) /\ ~ Refused(k) /\ ~ Taken(k)
    BY <2>3 DEF Sent, Refused, Taken
  <2>. QED  BY <2>1, <2>2, <2>4 DEF Underway
<1>5. to_dev = << >> /\ to_host' = << >> /\ timers' = 0 /\ injected' = Words(k - 1)
  BY <1>2, <1>4 DEF Retried, Loaded
<1>6. CASE send_state = "WAIT_ACK"
  <2>1. Enqueue(<<Latch>>)
    BY <1>6 DEF RetryCb
  <2>2. to_dev' = <<Latch>>
    <3>1. Fits(<<Latch>>)
      BY <1>5 DEF Fits
    <3>2. <<Latch>> \in Seq(Cmds) /\ Len(<<Latch>>) = 1
      BY CmdsTyped, Tuples
    <3>3. \A i \in 1 .. Len(<<Latch>>) - 1 : <<Latch>>[i] # Latch
      BY <3>2
    <3>. QED  BY <1>2, <1>5, <2>1, <3>1, <3>2, <3>3, EnqueueEmpty
  <2>3. OnItsWay(WordAt(k))'
    BY <1>2, <1>4, <2>2 DEF OnItsWay, Retried, Loaded
  <2>4. Underway(k)'
    BY <1>4, <1>5, <2>3 DEF Underway, Sent
  <2>. QED  BY <1>1, <1>2, <1>3, <1>6, <2>4 DEF Carried, Stage, fsm
<1>7. CASE send_state = "FREED"
  <2>1. to_dev' = << >>
    BY <1>5, <1>7 DEF RetryCb
  <2>2. k - 1 \in 0 .. k
    BY <1>4
  <2>3. Over(k)'
    BY <1>5, <2>1, <2>2 DEF Over, Harmless
  <2>. QED  BY <1>2, <1>3, <1>7, <2>3 DEF Carried, Stage, fsm
<1>. QED  BY <1>4, <1>6, <1>7

LEMMA LineCarries ==
  ASSUME IInv, Undisturbed, TxFile \/ TxFileFails \/ SendLine \/ CleanupFio
  PROVE  Carried'
<1>. USE Parameters
<1>1. PICK k \in Nat : Buffered(k) /\ Stage(k)
  BY DEF IInv, Carried
<1>2. TypeOK /\ OneFile /\ ~ send_pause
  BY DEF IInv, NotPaused
<1>3. CASE TxFile
  <2>1. send_state = "NOFILE"
    <3>1. opens = 0
      BY <1>2, <1>3 DEF TxFile, Undisturbed, TypeOK
    <3>. QED  BY <1>2, <1>3, <3>1 DEF OneFile, TxFile, Command
  <2>2. k = 0 /\ in_buf = << >> /\ Quiet /\ injected = << >>
    BY <1>1, <2>1 DEF Stage
  <2>3. /\ UNCHANGED <<buffer, timers, to_dev, to_host, injected>>
        /\ offset' = 0 /\ send_state' = "IDLE" /\ send_bytes' = 0
    BY <1>3 DEF TxFile, fpga
  <2>4. Buffered(k)'
    BY <2>2, <2>3, AtMoves DEF Buffered, buffer
  <2>5. Stage(k)'
    BY <2>2, <2>3 DEF Stage, Quiet, buffer
  <2>. QED  BY <2>4, <2>5 DEF Carried
<1>4. CASE TxFileFails
  <2>1. UNCHANGED <<fsm, buffer, offset, timers, to_dev, to_host, dev, injected>>
    BY <1>4 DEF TxFileFails, fpga
  <2>2. Buffered(k)'
    BY <1>1, <2>1 DEF Buffered, buffer
  <2>3. Stage(k)'
    BY <1>1, <2>1 DEF Stage, Quiet, Over, Harmless, Underway, Sent, OnItsWay, Refused, Retried, Taken,
                      Loaded, fsm, buffer
  <2>. QED  BY <2>2, <2>3 DEF Carried
<1>5. CASE SendLine
  <2>1. k = 0 /\ in_buf = << >> /\ send_bytes = 0 /\ Quiet /\ injected = << >>
    BY <1>1, <1>5 DEF SendLine, Stage
  <2>2. /\ UNCHANGED <<send_bytes, buffer, timers, to_dev, offset, to_host, injected>>
        /\ send_state' = "WAIT_READ"
    BY <1>2, <1>5 DEF SendLine, FsmIdle, WaitForRead, ScheduleRead, fpga
  <2>3. Buffered(k)'
    BY <1>1, <2>2 DEF Buffered, buffer
  <2>4. Stage(k)'
    BY <2>1, <2>2, AtMoves, NoWords DEF Stage, Quiet, buffer
  <2>. QED  BY <2>3, <2>4 DEF Carried
<1>6. CASE CleanupFio
  <2>1. /\ UNCHANGED <<buffer, offset, timers, to_dev, to_host, dev, injected>>
        /\ send_state' = "FREED" /\ send_state # "FREED"
    BY <1>6 DEF CleanupFio, Command, fpga
  <2>2. Buffered(k)'
    BY <1>1, <2>1 DEF Buffered, buffer
  <2>3. Over(k) \/ Underway(k)
    <3>1. CASE send_state \in {"NOFILE", "IDLE", "WAIT_READ"}
      <4>1. Quiet /\ injected = Words(k)
        BY <1>1, <3>1, NoWords DEF Stage
      <4>2. k \in 0 .. k
        OBVIOUS
      <4>. QED  BY <4>1, <4>2 DEF Over, Harmless, Quiet
    <3>2. CASE send_state = "DONE"
      <4>1. k \in 0 .. k
        OBVIOUS
      <4>. QED  BY <1>1, <3>2, <4>1 DEF Stage, Over
    <3>3. CASE send_state \in {"WAIT_ACK", "ERROR"}
      BY <1>1, <3>3 DEF Stage
    <3>. QED  BY <1>1, <1>2, <2>1, <3>1, <3>2, <3>3 DEF Stage, TypeOK, SendStates, Sending
  <2>4. Over(k)' \/ Underway(k)'
    BY <2>1, <2>3 DEF Over, Harmless, Underway, Sent, OnItsWay, Refused, Retried, Taken, Loaded
  <2>. QED  BY <2>1, <2>2, <2>4 DEF Carried, Stage
<1>. QED  BY <1>3, <1>4, <1>5, <1>6

LEMMA DevCarries ==
  ASSUME IInv, DevCommand \/ DevTaken
  PROVE  Carried'
<1>1. PICK k \in Nat : Buffered(k) /\ Stage(k)
  BY DEF IInv, Carried
<1>2. TypeOK /\ UNCHANGED <<fsm, buffer, offset, timers>>
  BY DEF IInv, DevCommand, DevTaken, file
<1>3. Buffered(k)'
  BY <1>1, <1>2 DEF Buffered, buffer
<1>4. CASE DevCommand
  <2>1. ~ Quiet
    BY <1>4 DEF DevCommand, Quiet
  <2>2. Harmless => Harmless' /\ injected' = injected
    BY <1>2, <1>4, HarmlessSteps
  <2>3. Underway(k) => Underway(k)'
    BY <1>2, <1>4, UnderwaySteps
  <2>4. Over(k) => Over(k)'
    BY <1>2, <2>2 DEF Over
  <2>. QED  BY <1>1, <1>2, <1>3, <2>1, <2>2, <2>3, <2>4 DEF Carried, Stage, fsm, buffer
<1>5. CASE DevTaken
  <2>1. /\ UNCHANGED <<to_dev, to_host, injected>>
        /\ dev'.data = dev.data /\ dev'.valid = dev.valid
    BY <1>2, <1>5 DEF DevTaken, TypeOK
  <2>2. /\ Quiet => Quiet'
        /\ Harmless => Harmless'
        /\ Underway(k) => Underway(k)'
    BY <1>2, <2>1 DEF Quiet, Harmless, Underway, Sent, OnItsWay, Refused, Retried, Taken, Loaded
  <2>3. Over(k) => Over(k)'
    BY <1>2, <2>1, <2>2 DEF Over
  <2>. QED  BY <1>1, <1>2, <1>3, <2>1, <2>2, <2>3 DEF Carried, Stage, fsm, buffer
<1>. QED  BY <1>4, <1>5

-----------------------------------------------------------------------------
LEMMA StepIInv ==
  ASSUME Undisturbed
  PROVE  IInv /\ [Next]_vars => IInv'
<1>. SUFFICES ASSUME IInv, [Next]_vars PROVE IInv'
  OBVIOUS
<1>1. TypeOK' /\ ReadEvArmed'
  BY StepTypeOK, StepArms DEF IInv
<1>2. ~ PauseLine /\ ~ ContLine /\ ~ LatchLine
  BY DEF Undisturbed, PauseLine, ContLine, LatchLine
<1>3. NotPaused'
  BY <1>2 DEF IInv, NotPaused, Next, FileReadCb, ReceiptCb, RetryCb, TxFile, TxFileFails, SendLine,
              CleanupFio, DevCommand, DevTaken, vars
<1>4. OneFile'
  <2>1. CASE FileReadCb
    BY <2>1 DEF IInv, OneFile, FileReadCb, ReadEvArmed, user
  <2>2. CASE ReceiptCb
    <3>1. opens = 0 => send_state' = send_state
      BY <2>2 DEF IInv, OneFile, ReceiptCb, FsmNothing, fsm
    <3>. QED  BY <2>2, <3>1 DEF IInv, OneFile, ReceiptCb, user
  <2>3. CASE TxFile
    BY <2>3 DEF IInv, TypeOK, OneFile, TxFile
  <2>4. CASE SendLine
    BY <2>4 DEF IInv, OneFile, SendLine, user
  <2>5. CASE CleanupFio
    BY <2>5 DEF OneFile, CleanupFio
  <2>6. CASE RetryCb \/ TxFileFails \/ DevCommand \/ DevTaken \/ UNCHANGED vars
    BY <2>6 DEF IInv, OneFile, RetryCb, TxFileFails, DevCommand, DevTaken, vars, fsm, user
  <2>. QED  BY <1>2, <2>1, <2>2, <2>3, <2>4, <2>5, <2>6 DEF Next
<1>5. Carried'
  <2>1. CASE UNCHANGED vars
    <3>1. PICK k \in Nat : Buffered(k) /\ Stage(k)
      BY DEF IInv, Carried
    <3>2. Buffered(k)'
      BY <2>1, <3>1 DEF Buffered, vars, buffer, file
    <3>3. /\ Quiet <=> Quiet'
          /\ Harmless <=> Harmless'
          /\ Underway(k) <=> Underway(k)'
      BY <2>1 DEF Quiet, Harmless, Underway, Sent, OnItsWay, Refused, Retried, Taken, Loaded,
                  vars, fpga
    <3>4. Over(k) => Over(k)'
      BY <2>1, <3>3 DEF Over, vars, fpga
    <3>5. Stage(k)'
      BY <2>1, <3>1, <3>3, <3>4 DEF Stage, vars, fsm, buffer, file, fpga
    <3>. QED  BY <3>2, <3>5 DEF Carried
  <2>. QED  BY <1>2, <2>1, ReadCarries, ReceiptCarries, RetryCarries, LineCarries, DevCarries DEF Next
<1>. QED  BY <1>1, <1>3, <1>4, <1>5 DEF IInv

(* Left to itself the transfer is always at one of its stages: so many     *)
(* words have left the buffer, and all of them but perhaps the last, which *)
(* one LATCH, receipt or timer is about, are in the FPGA.                  *)
THEOREM TransferInvariant ==
  ASSUME Undisturbed
  PROVE  Spec => []IInv
BY InitIInv, StepIInv, PTL DEF Spec

LEMMA CarriedInFile ==
  ASSUME TypeOK, NEW k \in Nat, Buffered(k)
  PROVE  k <= FileLen \div W /\ FileLen \div W \in Nat
<1>1. At(k) \in Nat /\ Len(in_buf) \in Nat /\ offset \in 0 .. FileLen /\ offset = At(k) + Len(in_buf)
  BY AtMoves DEF TypeOK, Buffered
<1>2. At(k) <= FileLen
  BY <1>1, Parameters
<1>. QED  BY <1>2, WordsInFile

LEMMA FileWordsAre == FileWords = Words(FileLen \div W)
BY DEF FileWords, Words, WordAt

(* The words the FPGA has taken are the first words of the file, each once *)
(* and in order, whatever the file's length, the sizes of the reads and    *)
(* the number of injects that fail.                                        *)
THEOREM WordsInOrder ==
  ASSUME Undisturbed
  PROVE  Spec => []InOrder
<1>1. IInv => InOrder
  <2>. SUFFICES ASSUME IInv PROVE InOrder
    OBVIOUS
  <2>1. PICK k \in Nat : Buffered(k) /\ Stage(k)
    BY DEF IInv, Carried
  <2>2. \E j \in 0 .. k : injected = Words(j)
    <3>1. k \in 0 .. k /\ 0 \in 0 .. k /\ (k > 0 => k - 1 \in 0 .. k)
      OBVIOUS
    <3>2. Underway(k) => k > 0 /\ (injected = Words(k - 1) \/ injected = Words(k))
      BY DEF Underway, Sent, Refused, Retried, Taken, Loaded
    <3>3. Underway(k) => \E j \in 0 .. k : injected = Words(j)
      BY <3>1, <3>2
    <3>4. Over(k) => \E j \in 0 .. k : injected = Words(j)
      BY DEF Over
    <3>5. CASE send_state \in {"NOFILE", "IDLE"}
      BY <2>1, <3>1, <3>5, NoWords DEF Stage
    <3>6. CASE send_state \in {"WAIT_READ", "DONE"}
      BY <2>1, <3>1, <3>6 DEF Stage
    <3>7. CASE send_state \in {"WAIT_ACK", "ERROR", "FREED"}
      BY <2>1, <3>3, <3>4, <3>7 DEF Stage
    <3>. QED  BY <2>1, <3>5, <3>6, <3>7 DEF IInv, TypeOK, SendStates, Sending, Stage
  <2>3. PICK j \in 0 .. k : injected = Words(j)
    BY <2>2
  <2>4. FileLen \div W \in Nat /\ j \in 0 .. FileLen \div W
    BY <2>1, CarriedInFile DEF IInv
  <2>5. IsPrefix(Words(j), Words(FileLen \div W))
    BY <2>4, WordsPrefix
  <2>. QED  BY <2>3, <2>5, FileWordsAre DEF InOrder
<1>. QED  BY <1>1, TransferInvariant, PTL

(* "Done" means that every byte of the file is in the FPGA. *)
THEOREM DoneMeansAll ==
  ASSUME Undisturbed
  PROVE  Spec => []DoneIsAll
<1>1. IInv => DoneIsAll
  <2>. SUFFICES ASSUME IInv, send_state = "DONE"
                PROVE  injected = FileWords /\ send_bytes = FileLen
    BY DEF DoneIsAll
  <2>1. PICK k \in Nat : Buffered(k) /\ Stage(k)
    BY DEF IInv, Carried
  <2>2. in_buf = << >> /\ offset = FileLen /\ send_bytes = At(k) /\ injected = Words(k)
    BY <2>1 DEF Stage
  <2>3. At(k) = FileLen
    BY <2>1, <2>2, AtMoves DEF Buffered
  <2>4. k = FileLen \div W
    BY <2>3, Parameters, WordsInFile
  <2>. QED  BY <2>2, <2>3, <2>4, FileWordsAre
<1>. QED  BY <1>1, TransferInvariant, PTL

(* Exactly one thing will call the machine again while it waits for a      *)
(* receipt, and nothing while it waits for the file.                       *)
THEOREM OneThingUnderway ==
  ASSUME Undisturbed
  PROVE  Spec => []OneWaker
<1>. DEFINE Latched == {i \in DOMAIN to_dev : to_dev[i] = Latch}
<1>1. IInv => OneWaker
  <2>. SUFFICES ASSUME IInv PROVE OneWaker
    OBVIOUS
  <2>1. PICK k \in Nat : Buffered(k) /\ Stage(k)
    BY DEF IInv, Carried
  <2>2. to_dev = << >> => Cardinality(Latched) = 0
    <3>. SUFFICES ASSUME to_dev = << >> PROVE Latched = {}
      BY FS_EmptySet
    <3>. QED  OBVIOUS
  <2>3. ASSUME send_state = "WAIT_READ"
        PROVE  Wakers = 0
    <3>1. Quiet
      BY <2>1, <2>3 DEF Stage
    <3>. QED  BY <2>2, <3>1 DEF Quiet, Wakers
  <2>4. ASSUME send_state = "WAIT_ACK"
        PROVE  Wakers = 1
    <3>1. Underway(k)
      BY <2>1, <2>4 DEF Stage
    <3>2. CASE Sent(k)
      <4>. DEFINE w == WordAt(k)
      <4>. HIDE DEF w
      <4>1. \E i : Latched = {i}
        <5>1. CASE to_dev = <<Tdata(w), Tvalid(TRUE), Latch>>
          <6>1. /\ DOMAIN to_dev = 1 .. 3
                /\ to_dev[1] # Latch /\ to_dev[2] # Latch /\ to_dev[3] = Latch
            <7>1. /\ DOMAIN to_dev = 1 .. 3
                  /\ to_dev[1] = Tdata(w) /\ to_dev[2] = Tvalid(TRUE) /\ to_dev[3] = Latch
              BY <5>1
            <7>. QED  BY <7>1, CmdsDiffer, Zenon
          <6>2. \A i \in 1 .. 3 : i \in {1, 2, 3}
            OBVIOUS
          <6>3. Latched = {3}
            BY <6>1, <6>2
          <6>. QED  BY <6>3
        <5>2. CASE to_dev \in {<<Tvalid(TRUE), Latch>>, <<Tdata(w), Latch>>}
          <6>1. DOMAIN to_dev = 1 .. 2 /\ to_dev[1] # Latch /\ to_dev[2] = Latch
            <7>1. /\ DOMAIN to_dev = 1 .. 2 /\ to_dev[2] = Latch
                  /\ to_dev[1] = Tdata(w) \/ to_dev[1] = Tvalid(TRUE)
              <8>1. to_dev = <<Tvalid(TRUE), Latch>> \/ to_dev = <<Tdata(w), Latch>>
                BY <5>2
              <8>2. ASSUME NEW a, to_dev = <<a, Latch>>
                    PROVE  DOMAIN to_dev = 1 .. 2 /\ to_dev[2] = Latch /\ to_dev[1] = a
                BY <8>2
              <8>. QED  BY <8>1, <8>2, Zenon
            <7>. QED  BY <7>1, CmdsDiffer, Zenon
          <6>2. \A i \in 1 .. 2 : i \in {1, 2}
            OBVIOUS
          <6>3. Latched = {2}
            BY <6>1, <6>2
          <6>. QED  BY <6>3
        <5>3. CASE to_dev = <<Latch>>
          <6>1. Latched = {1}
            BY <5>3
          <6>. QED  BY <6>1
        <5>. QED  BY <3>2, <5>1, <5>2, <5>3 DEF Sent, OnItsWay, w
      <4>2. Cardinality(Latched) = 1
        BY <4>1, FS_Singleton
      <4>. QED  BY <3>2, <4>2 DEF Sent, Wakers
    <3>3. CASE Refused(k) \/ Retried(k) \/ Taken(k)
      <4>1. Cardinality(Latched) = 0
        BY <2>2, <3>3 DEF Refused, Retried, Taken, Loaded
      <4>2. Len(to_host) + timers = 1
        <5>1. Len(<<TRUE>>) = 1 /\ Len(<<FALSE>>) = 1 /\ Len(<< >>) = 0
          OBVIOUS
        <5>2. /\ Refused(k) => Len(to_host) = 1 /\ timers = 0
              /\ Retried(k) => Len(to_host) = 0 /\ timers = 1
              /\ Taken(k) => Len(to_host) = 1 /\ timers = 0
          BY <5>1, Zenon DEF Refused, Retried, Taken
        <5>3. \/ Len(to_host) = 1 /\ timers = 0
              \/ Len(to_host) = 0 /\ timers = 1
          BY <3>3, <5>2, Zenon
        <5>4. 1 + 0 = 1 /\ 0 + 1 = 1
          OBVIOUS
        <5>. QED  BY <5>3, <5>4
      <4>3. Len(to_host) \in Nat /\ timers \in Nat
        BY Parameters DEF IInv, TypeOK
      <4>. QED  BY <4>1, <4>2, <4>3 DEF Wakers
    <3>. QED  BY <3>1, <3>2, <3>3 DEF Underway
  <2>. QED  BY <2>3, <2>4 DEF OneWaker
<1>. QED  BY <1>1, TransferInvariant, PTL

(* No read is ever asked for no bytes. *)
THEOREM AlwaysRoom ==
  ASSUME Undisturbed
  PROVE  Spec => []RoomToRead
<1>1. IInv => RoomToRead
  <2>. SUFFICES ASSUME IInv, send_state = "WAIT_READ" PROVE Room > 0
    BY DEF RoomToRead
  <2>. USE Parameters
  <2>1. PICK k \in Nat : Buffered(k) /\ Stage(k)
    BY DEF IInv, Carried
  <2>2. /\ Len(in_buf) \in Nat /\ Len(in_buf) < W
        /\ in_buf_pos \in Nat /\ in_buf_pos + Len(in_buf) <= Size
    BY <2>1 DEF IInv, TypeOK, Stage
  <2>3. CASE in_buf = << >>
    BY <2>3 DEF Room, Start
  <2>4. CASE in_buf # << >>
    <3>1. PICK q \in Nat : in_buf_pos = At(q)
      BY <2>1, <2>4 DEF Buffered
    <3>2. PICK m \in 1 .. Size : Size = m * W
      BY FioAssumption
    <3>3. Len(in_buf) > 0
      BY <2>2, <2>4 DEF IInv, TypeOK
    <3>4. q * W < m * W
      BY <2>2, <3>1, <3>2, <3>3 DEF At
    <3>5. q < m
      <4>. SUFFICES ASSUME m <= q PROVE m * W <= q * W
        BY <3>4, SMT
      <4>. QED  BY SMT
    <3>6. (q + 1) * W <= m * W
      BY <3>5, SMT
    <3>7. At(q + 1) <= Size /\ At(q + 1) = At(q) + W /\ At(q) \in Nat
      BY <3>2, <3>6, AtMoves DEF At
    <3>. QED  BY <2>2, <2>4, <3>1, <3>7 DEF Room, Start
  <2>. QED  BY <2>3, <2>4
<1>. QED  BY <1>1, TransferInvariant, PTL
=============================================================================
