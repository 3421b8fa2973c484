--------------------------- MODULE LogFile_proofs ---------------------------
(***************************************************************************)
(* Proofs about LogFile, for every ring that is a whole number of logs     *)
(* long, any number of logs and of files.                                  *)
(***************************************************************************)
EXTENDS LogFile, SequenceTheorems, TLAPS

(* The parameters, one by one. *)
LEMMA Parameters ==
  /\ W \in Nat /\ W > 0 /\ Size \in Nat /\ Size > 0
  /\ Most \in Nat /\ Opens \in Nat
BY LogFileAssumption

LEMMA WholeLogs == \E m \in 1 .. Size : Size = m * W
BY LogFileAssumption

(* One subtraction brings the sum of two indices back into the ring. *)
LEMMA Wrap ==
  ASSUME NEW a \in 0 .. 2 * Size - 1
  PROVE  a % Size = IF a < Size THEN a ELSE a - Size
<1>. USE Parameters
<1>1. CASE a < Size
  BY <1>1, SMT
<1>2. CASE a >= Size
  <2>1. (a - Size) \in 0 .. Size - 1 /\ a = Size * 1 + (a - Size)
    BY <1>2, SMT
  <2>. QED  BY <1>2, <2>1, SMT
<1>. QED  BY <1>1, <1>2

(* A multiple of W that is below another is a whole log below it. *)
LEMMA LogApart ==
  ASSUME NEW j \in Int, NEW m \in Int, j * W < m * W
  PROVE  j * W + W <= m * W
<1>. USE Parameters
<1>1. j < m
  <2>. SUFFICES ASSUME m <= j PROVE m * W <= j * W
    BY SMT
  <2>. QED  BY SMT
<1>2. (j + 1) * W <= m * W
  BY <1>1, SMT
<1>. QED  BY <1>2, SMT

-----------------------------------------------------------------------------
(* The inductive invariant: the position that log_fio writes to is a whole *)
(* number of logs from the start.                                          *)
Aligned(p) == \E k \in Int : p = k * W
LogAligned == Aligned(out_buf_pos + out_buf_len)
NoFileYet == log_state = "NOFILE" => wr_ev = "none"
IInv == TypeOK /\ LogAligned /\ SavedCount /\ Awake /\ NoFileYet

LEMMA AlignedMoves ==
  ASSUME NEW p \in Int, Aligned(p)
  PROVE  /\ Aligned(p + W)
         /\ Aligned(p - Size)
<1>. USE Parameters
<1>1. PICK k \in Int : p = k * W
  BY DEF Aligned
<1>2. PICK m \in 1 .. Size : Size = m * W
  BY WholeLogs
<1>3. p + W = (k + 1) * W /\ p - Size = (k - m) * W
  BY <1>1, <1>2, SMT
<1>4. k + 1 \in Int /\ k - m \in Int
  BY <1>2
<1>. QED  BY <1>3, <1>4 DEF Aligned

(* A log that fits goes to a place inside the ring and before its end. *)
LEMMA RoomForLog ==
  ASSUME TypeOK, LogAligned, HasRoom
  PROVE  /\ WrPos \in 0 .. Size - 1
         /\ WrPos = IF out_buf_pos + out_buf_len < Size THEN out_buf_pos + out_buf_len
                    ELSE out_buf_pos + out_buf_len - Size
         /\ WrPos + W <= Size
         /\ out_buf_len + W \in 1 .. Size
<1>. USE Parameters
<1>1. out_buf_pos \in 0 .. Size - 1 /\ out_buf_len \in 0 .. Size
  BY DEF TypeOK
<1>2. WrPos = IF out_buf_pos + out_buf_len < Size THEN out_buf_pos + out_buf_len
              ELSE out_buf_pos + out_buf_len - Size
  <2>1. PICK a \in 0 .. 2 * Size - 1 : a = out_buf_pos + out_buf_len
    BY <1>1
  <2>2. a % Size = IF a < Size THEN a ELSE a - Size
    BY Wrap
  <2>. QED  BY <1>1, <2>1, <2>2 DEF WrPos
<1>3. out_buf_len + W \in 1 .. Size
  BY <1>1 DEF HasRoom
<1>4. WrPos \in 0 .. Size - 1
  BY <1>1, <1>2, <1>3
<1>5. Aligned(WrPos)
  BY <1>1, <1>2, AlignedMoves DEF LogAligned
<1>6. WrPos + W <= Size
  <2>1. PICK k \in Int : WrPos = k * W
    BY <1>5 DEF Aligned
  <2>2. PICK m \in 1 .. Size : Size = m * W
    BY WholeLogs
  <2>. QED  BY <1>4, <2>1, <2>2, LogApart
<1>. QED  BY <1>2, <1>3, <1>4, <1>6

(* What log_fio then stores. *)
LEMMA StoreLog ==
  ASSUME TypeOK, NEW p \in 0 .. Size - 1, p + W <= Size, NEW log \in Logs
  PROVE  /\ Store(p, log) \in [0 .. Size - 1 -> Byte]
         /\ \A i \in 0 .. Size - 1 :
              Store(p, log)[i] = IF i \in p .. p + W - 1 THEN log[i - p + 1] ELSE out_buf[i]
<1>. USE Parameters
<1>1. log \in [1 .. W -> Byte]
  BY LogsAssumption
<1>2. Store(p, log) =
        [i \in 0 .. Size - 1 |-> IF i \in p .. p + W - 1 THEN log[i - p + 1] ELSE out_buf[i]]
  BY DEF Store
<1>3. ASSUME NEW i \in 0 .. Size - 1, i \in p .. p + W - 1 PROVE log[i - p + 1] \in Byte
  BY <1>1, <1>3
<1>4. out_buf \in [0 .. Size - 1 -> Byte]
  BY DEF TypeOK
<1>. QED  BY <1>2, <1>3, <1>4

(* What fio_file_wr_ev may write: stored bytes, up to the end of the ring. *)
LEMMA ContigBounds ==
  ASSUME TypeOK, NEW n \in 1 .. Contig
  PROVE  n \in 1 .. out_buf_len /\ out_buf_pos + n <= Size
<1>1. out_buf_pos \in 0 .. Size - 1 /\ out_buf_len \in 0 .. Size
  BY DEF TypeOK
<1>2. Contig \in 0 .. out_buf_len /\ out_buf_pos + Contig <= Size
  BY <1>1, Parameters DEF Contig
<1>3. PICK c \in 0 .. out_buf_len : c = Contig
  BY <1>2
<1>. QED  BY <1>1, <1>2, <1>3, Parameters

LEMMA NextPosition ==
  ASSUME TypeOK, NEW n \in 1 .. Contig
  PROVE  /\ out_buf_len = n => NextPos(n) = 0
         /\ out_buf_len # n => NextPos(n) = IF out_buf_pos + n < Size THEN out_buf_pos + n ELSE 0
         /\ NextPos(n) \in 0 .. Size - 1
<1>. USE Parameters
<1>1. n \in 1 .. out_buf_len /\ out_buf_pos + n <= Size /\ out_buf_pos \in 0 .. Size - 1
  BY ContigBounds DEF TypeOK
<1>2. PICK a \in 0 .. 2 * Size - 1 : a = out_buf_pos + n
  BY <1>1 DEF TypeOK
<1>3. a % Size = IF a < Size THEN a ELSE a - Size
  BY Wrap
<1>. QED  BY <1>1, <1>2, <1>3 DEF NextPos, TypeOK

-----------------------------------------------------------------------------
(* Every step keeps the invariant. *)
LEMMA InitIInv == Init => IInv
<1>. SUFFICES ASSUME Init PROVE IInv
  OBVIOUS
<1>. USE Parameters
<1>1. TypeOK
  BY DEF Init, TypeOK, Byte
<1>2. LogAligned
  <2>1. 0 + 0 = 0 * W
    OBVIOUS
  <2>. QED  BY <2>1 DEF Init, LogAligned, Aligned
<1>. QED  BY <1>1, <1>2 DEF Init, IInv, SavedCount, Awake, NoFileYet

LEMMA LogStep ==
  ASSUME IInv, NEW log \in Logs, Log(log)
  PROVE  IInv'
<1>. USE Parameters
<1>1. CASE HasRoom
  <2>1. /\ out_buf' = Store(WrPos, log)
        /\ out_buf_len' = out_buf_len + W
        /\ log_numsaved' = log_numsaved + 1
        /\ UNCHANGED <<log_state, out_buf_pos, history, opens>>
        /\ AddEvent
        /\ log_state = "LOGGING" /\ log_numsaved < Most
    BY <1>1 DEF Log
  <2>2. /\ WrPos \in 0 .. Size - 1
        /\ WrPos + W <= Size
        /\ out_buf_len + W \in 1 .. Size
    BY <1>1, RoomForLog DEF IInv
  <2>3. out_buf' \in [0 .. Size - 1 -> Byte]
    BY <2>1, <2>2, StoreLog DEF IInv
  <2>4. TypeOK'
    BY <2>1, <2>2, <2>3 DEF IInv, TypeOK, AddEvent, history
  <2>5. LogAligned'
    <3>1. Aligned((out_buf_pos + out_buf_len) + W)
      BY AlignedMoves DEF IInv, TypeOK, LogAligned
    <3>2. out_buf_pos' + out_buf_len' = (out_buf_pos + out_buf_len) + W
      BY <2>1 DEF IInv, TypeOK
    <3>. QED  BY <3>1, <3>2 DEF LogAligned
  <2>6. SavedCount'
    <3>1. W * (log_numsaved + 1) = W * log_numsaved + W
      BY SMT DEF IInv, TypeOK
    <3>2. W * log_numsaved + carried = written + out_buf_len
      BY <2>1 DEF IInv, SavedCount
    <3>3. W * log_numsaved \in Int
      BY DEF IInv, TypeOK
    <3>. QED  BY <2>1, <3>1, <3>2, <3>3 DEF IInv, TypeOK, SavedCount, history
  <2>7. Awake'
    BY <2>1, <2>2 DEF IInv, TypeOK, Awake, AddEvent
  <2>8. NoFileYet'
    BY <2>1 DEF NoFileYet
  <2>. QED  BY <2>4, <2>5, <2>6, <2>7, <2>8 DEF IInv
<1>2. CASE ~ HasRoom
  <2>1. /\ log_state' = "ERROR"
        /\ UNCHANGED <<log_numsaved, ring, wr_ev, fault, history, opens>>
        /\ log_state = "LOGGING"
    BY <1>2 DEF Log, Overflow
  <2>2. TypeOK'
    BY <2>1 DEF IInv, TypeOK, ring, history
  <2>3. LogAligned'
    BY <2>1 DEF IInv, LogAligned, ring
  <2>4. SavedCount' /\ Awake' /\ NoFileYet'
    BY <2>1 DEF IInv, SavedCount, Awake, NoFileYet, ring, history
  <2>. QED  BY <2>2, <2>3, <2>4 DEF IInv
<1>. QED  BY <1>1, <1>2

LEMMA WriteStep ==
  ASSUME IInv, FileWriteCb
  PROVE  IInv'
<1>. USE Parameters
<1>1. ASSUME NEW n \in 1 .. Size, WriteSome(n) PROVE IInv'
  <2>1. /\ n \in 1 .. Contig
        /\ out_buf_len' = out_buf_len - n
        /\ out_buf_pos' = NextPos(n)
        /\ wr_ev' = IF out_buf_len = n THEN "idle" ELSE "pending"
        /\ written' = written + n
        /\ UNCHANGED <<log_state, out_buf, log_numsaved, carried, opens, fault>>
    BY <1>1 DEF WriteSome, FileWriteCb
  <2>2. /\ n \in 1 .. out_buf_len
        /\ out_buf_pos + n <= Size
    BY <2>1, ContigBounds DEF IInv
  <2>3. NextPos(n) \in 0 .. Size - 1
    BY <2>1, NextPosition DEF IInv
  <2>4. TypeOK'
    BY <2>1, <2>2, <2>3 DEF IInv, TypeOK
  <2>6. LogAligned'
    <3>1. CASE out_buf_len = n
      <4>1. out_buf_pos' + out_buf_len' = 0 * W
        BY <2>1, <2>2, <3>1, NextPosition DEF IInv, TypeOK
      <4>. QED  BY <4>1 DEF LogAligned, Aligned
    <3>2. CASE out_buf_len # n /\ out_buf_pos + n < Size
      <4>1. out_buf_pos' + out_buf_len' = out_buf_pos + out_buf_len
        BY <2>1, <2>2, <3>2, NextPosition DEF IInv, TypeOK
      <4>. QED  BY <4>1 DEF IInv, LogAligned
    <3>3. CASE out_buf_len # n /\ out_buf_pos + n = Size
      <4>1. out_buf_pos' + out_buf_len' = (out_buf_pos + out_buf_len) - Size
        BY <2>1, <2>2, <3>3, NextPosition DEF IInv, TypeOK
      <4>2. Aligned((out_buf_pos + out_buf_len) - Size)
        BY AlignedMoves DEF IInv, TypeOK, LogAligned
      <4>. QED  BY <4>1, <4>2 DEF LogAligned
    <3>. QED  BY <2>2, <3>1, <3>2, <3>3 DEF IInv, TypeOK
  <2>7. SavedCount'
    <3>1. W * log_numsaved \in Int
      BY DEF IInv, TypeOK
    <3>. QED  BY <2>1, <2>2, <3>1 DEF IInv, TypeOK, SavedCount
  <2>8. Awake'
    BY <2>1, <2>2 DEF IInv, TypeOK, Awake
  <2>9. NoFileYet'
    BY <2>1 DEF IInv, NoFileYet, FileWriteCb
  <2>. QED  BY <2>4, <2>6, <2>7, <2>8, <2>9 DEF IInv
<1>2. CASE WriteFails
  <2>1. /\ log_state' = "ERROR" /\ wr_ev' = "idle"
        /\ UNCHANGED <<ring, written, log_numsaved, carried, opens, fault>>
        /\ wr_ev = "pending" /\ log_state # "FREED"
    BY <1>2 DEF WriteFails, FileWriteCb, Running
  <2>2. TypeOK'
    BY <2>1 DEF IInv, TypeOK, ring
  <2>3. LogAligned' /\ Awake' /\ NoFileYet'
    BY <2>1 DEF IInv, LogAligned, Awake, NoFileYet, ring
  <2>4. SavedCount'
    BY <2>1 DEF IInv, SavedCount, NoFileYet, ring
  <2>. QED  BY <2>2, <2>3, <2>4 DEF IInv
<1>. QED  BY <1>1, <1>2 DEF FileWriteCb

LEMMA RxFileStep ==
  ASSUME IInv, RxFile
  PROVE  IInv'
<1>. USE Parameters DEF IInv, RxFile, FreeEvent, ring
<1>1. TypeOK'
  BY DEF TypeOK
<1>2. LogAligned'
  BY DEF LogAligned
<1>3. W * 0 = 0
  OBVIOUS
<1>4. SavedCount'
  BY <1>3 DEF SavedCount, TypeOK
<1>5. Awake' /\ NoFileYet'
  BY DEF Awake, NoFileYet
<1>. QED  BY <1>1, <1>2, <1>4, <1>5

LEMMA StepIInv == IInv /\ [Next]_vars => IInv'
<1>. SUFFICES ASSUME IInv, [Next]_vars PROVE IInv'
  OBVIOUS
<1>1. ASSUME NEW log \in Logs, Log(log) PROVE IInv'
  BY <1>1, LogStep
<1>2. CASE FileWriteCb
  BY <1>2, WriteStep
<1>3. CASE RxFile
  BY <1>3, RxFileStep
<1>4. CASE RxFileFails
  BY <1>4 DEF RxFileFails, FreeEvent, IInv, TypeOK, LogAligned, SavedCount, Awake, NoFileYet,
              ring, history
<1>5. CASE LogOn \/ LogOff
  BY <1>5 DEF LogOn, LogOff, IInv, TypeOK, LogAligned, SavedCount, Awake, NoFileYet,
              ring, history
<1>6. CASE Cleanup
  BY <1>6 DEF Cleanup, FreeEvent, IInv, TypeOK, LogAligned, SavedCount, Awake, NoFileYet,
              ring, history
<1>7. CASE UNCHANGED vars
  BY <1>7 DEF vars, IInv, TypeOK, LogAligned, SavedCount, Awake, NoFileYet, ring, history
<1>. QED  BY <1>1, <1>2, <1>3, <1>4, <1>5, <1>6, <1>7 DEF Next

(* The strengthened invariant holds in every reachable state. *)
THEOREM LogInvariant == Spec => []IInv
<1>1. IInv /\ [Next]_vars => IInv'
  BY StepIInv
<1>. QED  BY InitIInv, <1>1, PTL DEF Spec

(* Positions, lengths and counts stay in range. *)
THEOREM LogTypeCorrect == Spec => []TypeOK
<1>1. IInv => TypeOK
  BY DEF IInv
<1>. QED  BY <1>1, LogInvariant, PTL

(* The count that log_fio displays and the bytes that fio_file_wr_ev wrote *)
(* agree, whatever the writes took, and whatever was left over when rxfile *)
(* changed the file.                                                       *)
THEOREM SavedCountHolds == Spec => []SavedCount
<1>1. IInv => SavedCount
  BY DEF IInv
<1>. QED  BY <1>1, LogInvariant, PTL

(* log_fio and fio_file_wr_ev lose no wake-up of file_wr_ev, and none      *)
(* finds the buffer empty.                                                 *)
THEOREM AlwaysAwake == Spec => []Awake
<1>1. IInv => Awake
  BY DEF IInv
<1>. QED  BY <1>1, LogInvariant, PTL

(* The branch of log_fio that would split a log at the end of out_buf is   *)
(* dead code.                                                              *)
THEOREM LogNeverSplits == Spec => []NeverSplits
<1>1. IInv => NeverSplits
  BY RoomForLog DEF IInv, NeverSplits
<1>. QED  BY <1>1, LogInvariant, PTL

-----------------------------------------------------------------------------
(* The refinement: the stored bytes are a FIFO *)

(* The index of the i-th byte from position p. *)
LEMMA IndexFrom ==
  ASSUME NEW p \in 0 .. Size - 1, NEW i \in 1 .. Size
  PROVE  /\ (p + i - 1) % Size = IF p + i - 1 < Size THEN p + i - 1 ELSE p + i - 1 - Size
         /\ (p + i - 1) % Size \in 0 .. Size - 1
<1>. USE Parameters
<1>1. PICK a \in 0 .. 2 * Size - 1 : a = p + i - 1
  OBVIOUS
<1>2. a % Size = IF a < Size THEN a ELSE a - Size
  BY Wrap
<1>. QED  BY <1>1, <1>2

(* The len bytes of the ring buf from position pos. *)
Stored(buf, pos, len) == [i \in 1 .. len |-> buf[(pos + i - 1) % Size]]

LEMMA StoredProperties ==
  ASSUME NEW buf \in [0 .. Size - 1 -> Byte], NEW pos \in 0 .. Size - 1, NEW len \in 0 .. Size
  PROVE  /\ Stored(buf, pos, len) \in Seq(Byte)
         /\ Len(Stored(buf, pos, len)) = len
         /\ \A i \in 1 .. len : Stored(buf, pos, len)[i] = buf[(pos + i - 1) % Size]
<1>. USE Parameters
<1>1. \A i \in 1 .. len : buf[(pos + i - 1) % Size] \in Byte
  BY IndexFrom
<1>. QED  BY <1>1 DEF Stored

(* log_fio appends its log to what is stored. *)
LEMMA LogAppends ==
  ASSUME IInv, NEW log \in Logs, Log(log), HasRoom
  PROVE  /\ Contents' = Contents \o log
         /\ Len(Contents) + Len(log) <= Size
<1>. USE Parameters
<1>. DEFINE at == WrPos
            new == Contents'
            old == Contents
<1>1. /\ out_buf_pos \in 0 .. Size - 1
      /\ out_buf_len \in 0 .. Size
      /\ out_buf_len + W \in 1 .. Size
      /\ at \in 0 .. Size - 1
      /\ at = IF out_buf_pos + out_buf_len < Size THEN out_buf_pos + out_buf_len
              ELSE out_buf_pos + out_buf_len - Size
      /\ at + W <= Size
  BY RoomForLog DEF IInv, TypeOK
<1>2. /\ out_buf_len' = out_buf_len + W
      /\ out_buf_pos' = out_buf_pos
      /\ out_buf' = Store(at, log)
  BY DEF Log
<1>3. log \in Seq(Byte) /\ Len(log) = W
  <2>1. log \in [1 .. W -> Byte]
    BY LogsAssumption
  <2>. QED  BY <2>1
<1>4. /\ old \in Seq(Byte) /\ Len(old) = out_buf_len
      /\ \A i \in 1 .. out_buf_len : old[i] = out_buf[(out_buf_pos + i - 1) % Size]
  BY StoredProperties DEF Stored, Contents, IInv, TypeOK
<1>5. TypeOK'
  BY LogStep DEF IInv
<1>6. /\ new \in Seq(Byte) /\ Len(new) = out_buf_len + W
      /\ \A i \in 1 .. out_buf_len + W : new[i] = out_buf'[(out_buf_pos + i - 1) % Size]
  BY <1>2, <1>5, StoredProperties DEF Stored, Contents, TypeOK
<1>. HIDE DEF at, new, old
<1>7. \A i \in 0 .. Size - 1 :
        out_buf'[i] = IF i \in at .. at + W - 1 THEN log[i - at + 1] ELSE out_buf[i]
  <2>1. TypeOK
    BY DEF IInv
  <2>2. \A i \in 0 .. Size - 1 :
          Store(at, log)[i] = IF i \in at .. at + W - 1 THEN log[i - at + 1] ELSE out_buf[i]
    BY <1>1, <2>1, StoreLog
  <2>. QED  BY <1>2, <2>2
<1>8. ASSUME NEW i \in 1 .. out_buf_len + W
      PROVE  new[i] = (old \o log)[i]
  <2>. DEFINE j == (out_buf_pos + i - 1) % Size
  <2>1. i \in 1 .. Size
    BY <1>1
  <2>2. /\ j = IF out_buf_pos + i - 1 < Size THEN out_buf_pos + i - 1
               ELSE out_buf_pos + i - 1 - Size
        /\ j \in 0 .. Size - 1
    BY <1>1, <2>1, IndexFrom
  <2>3. new[i] = IF j \in at .. at + W - 1 THEN log[j - at + 1] ELSE out_buf[j]
    BY <1>6, <1>7, <2>2
  <2>. HIDE DEF j
  <2>4. CASE i <= out_buf_len
    <3>1. j \notin at .. at + W - 1
      BY <1>1, <2>1, <2>2, <2>4
    <3>2. (old \o log)[i] = old[i]
      BY <1>3, <1>4, <2>4
    <3>3. old[i] = out_buf[j]
      BY <1>4, <2>4 DEF j
    <3>. QED  BY <2>3, <3>1, <3>2, <3>3
  <2>5. CASE i > out_buf_len
    <3>1. j = at + (i - out_buf_len - 1)
      BY <1>1, <2>1, <2>2, <2>5
    <3>2. j \in at .. at + W - 1 /\ j - at + 1 = i - out_buf_len
      BY <1>1, <2>5, <3>1
    <3>3. i \in 1 .. Len(old) + Len(log) /\ i > Len(old)
      BY <1>1, <1>3, <1>4, <2>5
    <3>4. (old \o log)[i] = log[i - out_buf_len]
      BY <1>3, <1>4, <3>3
    <3>. QED  BY <2>3, <3>2, <3>4
  <2>6. i <= out_buf_len \/ i > out_buf_len
    BY <1>1, <2>1
  <2>. QED  BY <2>4, <2>5, <2>6
<1>9. old \o log \in Seq(Byte) /\ Len(old \o log) = out_buf_len + W
  BY <1>3, <1>4, ConcatProperties
<1>10. new = old \o log
  BY <1>6, <1>8, <1>9, SeqEqual
<1>. QED  BY <1>1, <1>3, <1>4, <1>10 DEF old, new

(* fio_file_wr_ev writes the oldest bytes and keeps the rest in order. *)
LEMMA WriteTakes ==
  ASSUME IInv, FileWriteCb, NEW n \in 1 .. Size, WriteSome(n)
  PROVE  /\ n \in 1 .. Len(Contents)
         /\ wire' = SubSeq(Contents, 1, n)
         /\ Contents' = SubSeq(Contents, n + 1, Len(Contents))
<1>. USE Parameters
<1>0. n \in 1 .. Contig
  BY DEF WriteSome
<1>1. /\ out_buf_pos \in 0 .. Size - 1
      /\ out_buf_len \in 0 .. Size
      /\ n \in 1 .. out_buf_len
      /\ out_buf_pos + n <= Size
  BY <1>0, ContigBounds DEF IInv, TypeOK
<1>2. /\ Contents \in Seq(Byte) /\ Len(Contents) = out_buf_len
      /\ \A i \in 1 .. out_buf_len : Contents[i] = out_buf[(out_buf_pos + i - 1) % Size]
  BY StoredProperties DEF Stored, Contents, IInv, TypeOK
<1>3. TypeOK'
  BY WriteStep DEF IInv
<1>4. /\ Contents' \in Seq(Byte) /\ Len(Contents') = out_buf_len'
      /\ \A i \in 1 .. out_buf_len' : Contents'[i] = out_buf'[(out_buf_pos' + i - 1) % Size]
  BY <1>3, StoredProperties DEF Stored, Contents, TypeOK
<1>5. /\ out_buf' = out_buf
      /\ out_buf_len' = out_buf_len - n
      /\ out_buf_pos' = NextPos(n)
      /\ wire' = [i \in 1 .. n |-> out_buf[out_buf_pos + i - 1]]
  BY DEF WriteSome
<1>6. wire' = SubSeq(Contents, 1, n)
  <2>1. ASSUME NEW i \in 1 .. n PROVE Contents[i] = out_buf[out_buf_pos + i - 1]
    <3>1. (out_buf_pos + i - 1) % Size = out_buf_pos + i - 1
      BY <1>1, IndexFrom
    <3>2. i \in 1 .. out_buf_len
      BY <1>1
    <3>. QED  BY <3>1, <3>2, <1>2
  <2>2. wire' = [i \in 1 .. n |-> Contents[i]]
    BY <1>5, <2>1
  <2>3. SubSeq(Contents, 1, n) = [i \in 1 .. n |-> Contents[i]]
    BY <1>1, <1>2
  <2>. QED  BY <2>2, <2>3
<1>7. Contents' = SubSeq(Contents, n + 1, Len(Contents))
  <2>. DEFINE rest == SubSeq(Contents, n + 1, Len(Contents))
  <2>1. /\ rest \in Seq(Byte) /\ Len(rest) = out_buf_len - n
        /\ \A i \in 1 .. out_buf_len - n : rest[i] = Contents[n + i]
    BY <1>1, <1>2
  <2>. HIDE DEF rest
  <2>2. ASSUME NEW i \in 1 .. out_buf_len - n
        PROVE  (out_buf_pos' + i - 1) % Size = (out_buf_pos + (n + i) - 1) % Size
    <3>1. i \in 1 .. Size /\ n + i \in 1 .. Size /\ out_buf_len # n
      BY <1>1
    <3>2. /\ out_buf_pos' = IF out_buf_pos + n < Size THEN out_buf_pos + n ELSE 0
          /\ out_buf_pos' \in 0 .. Size - 1
      BY <1>0, <1>5, <3>1, NextPosition DEF IInv
    <3>3. PICK j \in 1 .. Size : j = n + i
      BY <3>1
    <3>4. (out_buf_pos + j - 1) % Size
            = IF out_buf_pos + j - 1 < Size THEN out_buf_pos + j - 1 ELSE out_buf_pos + j - 1 - Size
      BY <1>1, IndexFrom
    <3>5. (out_buf_pos' + i - 1) % Size
            = IF out_buf_pos' + i - 1 < Size THEN out_buf_pos' + i - 1 ELSE out_buf_pos' + i - 1 - Size
      BY <3>1, <3>2, IndexFrom
    <3>. QED  BY <1>1, <3>1, <3>2, <3>3, <3>4, <3>5
  <2>3. ASSUME NEW i \in 1 .. out_buf_len - n PROVE Contents'[i] = rest[i]
    <3>1. n + i \in 1 .. out_buf_len
      BY <1>1
    <3>2. Contents[n + i] = out_buf[(out_buf_pos + (n + i) - 1) % Size]
      BY <3>1, <1>2
    <3>. QED  BY <3>2, <2>1, <2>2, <1>4, <1>5
  <2>4. Contents' = rest
    BY <2>1, <2>3, <1>4, <1>5, SeqEqual
  <2>. QED  BY <2>4 DEF rest
<1>. QED  BY <1>1, <1>2, <1>6, <1>7

LEMMA StepRefines == IInv /\ [Next]_vars => [Fifo!Next]_(Fifo!fifoVars)
<1>. SUFFICES ASSUME IInv, [Next]_vars PROVE Fifo!Next \/ UNCHANGED <<Contents, wire>>
  BY DEF Fifo!fifoVars
<1>1. ASSUME NEW log \in Logs, Log(log) PROVE Fifo!Next
  <2>1. wire' = << >>
    BY <1>1 DEF Log
  <2>2. CASE HasRoom
    <3>1. Fifo!Put(log)
      BY <1>1, <2>1, <2>2, LogAppends DEF Fifo!Put
    <3>. QED  BY <3>1 DEF Fifo!Next
  <2>3. CASE ~ HasRoom
    BY <1>1, <2>1, <2>3 DEF Log, Overflow, ring, Contents, Fifo!Next, Fifo!Idle
  <2>. QED  BY <2>2, <2>3
<1>2. CASE FileWriteCb
  <2>1. ASSUME NEW n \in 1 .. Size, WriteSome(n) PROVE Fifo!Next
    <3>1. Fifo!Take(n) /\ n \in 1 .. Len(Contents)
      BY <1>2, <2>1, WriteTakes DEF Fifo!Take
    <3>. QED  BY <3>1 DEF Fifo!Next
  <2>2. CASE WriteFails
    BY <2>2 DEF WriteFails, ring, Contents, Fifo!Next, Fifo!Idle
  <2>. QED  BY <1>2, <2>1, <2>2 DEF FileWriteCb
<1>3. CASE RxFile \/ RxFileFails \/ LogOn \/ LogOff \/ Cleanup
  BY <1>3 DEF RxFile, RxFileFails, LogOn, LogOff, Cleanup, ring, Contents, Fifo!Next, Fifo!Idle
<1>4. CASE UNCHANGED vars
  BY <1>4 DEF vars, ring, Contents
<1>. QED  BY <1>1, <1>2, <1>3, <1>4 DEF Next

(* What log_fio and fio_file_wr_ev put into the file is what was logged,   *)
(* in order and each byte once, for every buffer of a whole number of      *)
(* logs: they implement a first-in first-out queue.                        *)
THEOREM LogIsFifo == Spec => ImplementsFifo
<1>1. Init => Fifo!Init
  BY DEF Init, Contents, Fifo!Init
<1>2. IInv /\ [Next]_vars => [Fifo!Next]_(Fifo!fifoVars)
  BY StepRefines
<1>. QED  BY LogInvariant, <1>1, <1>2, PTL DEF Spec, ImplementsFifo, Fifo!Spec
=============================================================================
