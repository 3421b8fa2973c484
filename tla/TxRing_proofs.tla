--------------------------- MODULE TxRing_proofs ---------------------------
(***************************************************************************)
(* Proofs about TxRing, for every ring size that is a whole number of      *)
(* words.                                                                  *)
(***************************************************************************)
EXTENDS TxRing, SequenceTheorems, TLAPS

(* One subtraction reduces the sum of two ring indices modulo the size.    *)
LEMMA ModSize ==
  ASSUME NEW a \in 0 .. 2 * Size - 1
  PROVE  /\ a < Size => a % Size = a
         /\ a >= Size => a % Size = a - Size
<1> USE SizeAssumption
<1>1. CASE a < Size
  BY <1>1, SMT
<1>2. CASE a >= Size
  <2>1. (a - Size) \in 0 .. Size - 1
    BY <1>2, SMT
  <2>2. a = Size * 1 + (a - Size)
    BY <1>2, SMT
  <2> QED BY <1>2, <2>1, <2>2, SMT
<1> QED BY <1>1, <1>2

(* Two multiples of the word size are a whole word apart. *)
LEMMA WordApart ==
  ASSUME NEW w \in Nat \ {0}, NEW j \in Nat, NEW m \in Nat, j * w < m * w
  PROVE  j * w + w <= m * w
<1>1. j < m
  BY SMT
<1>2. j + 1 <= m
  BY <1>1, SMT
<1>3. (j + 1) * w <= m * w
  BY <1>2, SMT
<1>4. (j + 1) * w = j * w + w
  BY SMT
<1> QED BY <1>3, <1>4, SMT

-----------------------------------------------------------------------------
(* The inductive invariant: NeverSplits and the lengths of the stored data *)
(* follow from the alignment of the write position.                        *)
IInv == TypeOK /\ WriteAligned /\ ArmedIffPending

(* Where a word that fits goes: the next free position, a whole word away  *)
(* from the end of the ring.                                               *)
LEMMA RoomForWord ==
  ASSUME NEW pos \in 0 .. Size - 1, NEW len \in 0 .. Size,
         Aligned(pos + len), HasRoom(len)
  PROVE  /\ WrPos(pos, len) \in 0 .. Size - 1
         /\ WrPos(pos, len) = IF pos + len < Size THEN pos + len ELSE pos + len - Size
         /\ WrPos(pos, len) + W <= Size
         /\ len + W \in 0 .. Size
         /\ Aligned(pos + (len + W))
<1> USE SizeAssumption
<1>1. PICK m \in 1 .. Size : Size = m * W
  OBVIOUS
<1>2. PICK k \in 0 .. pos + len : pos + len = k * W
  BY DEF Aligned
<1>3. len + W \in 0 .. Size
  BY DEF HasRoom
<1>4. WrPos(pos, len) = IF pos + len < Size THEN pos + len ELSE pos + len - Size
  <2>1. pos + len \in 0 .. 2 * Size - 1
    OBVIOUS
  <2>2. PICK a \in 0 .. 2 * Size - 1 : a = pos + len
    BY <2>1
  <2>3. /\ a < Size => a % Size = a
        /\ a >= Size => a % Size = a - Size
    BY ModSize
  <2> QED BY <2>2, <2>3 DEF WrPos
<1>5. WrPos(pos, len) \in 0 .. Size - 1
  BY <1>4
<1>6. WrPos(pos, len) + W <= Size
  <2>1. CASE pos + len < Size
    BY <2>1, <1>1, <1>2, <1>4, WordApart
  <2>2. CASE pos + len >= Size
    <3>1. WrPos(pos, len) = (k - m) * W
      BY <2>2, <1>1, <1>2, <1>4
    <3>2. k - m \in Nat
      <4>1. CASE k < m
        <5>1. k * W < m * W
          BY <4>1, <1>1, <1>2
        <5> QED BY <5>1, <2>2, <1>1, <1>2
      <4> QED BY <4>1, <1>1, <1>2
    <3>3. (k - m) * W < m * W
      BY <3>1, <1>1, <1>5
    <3> QED BY <3>1, <3>2, <3>3, <1>1, WordApart
  <2> QED BY <2>1, <2>2
<1>7. Aligned(pos + (len + W))
  <2>1. pos + (len + W) = (k + 1) * W
    BY <1>2
  <2>2. k + 1 \in 0 .. pos + (len + W)
    BY <1>2
  <2> QED BY <2>1, <2>2 DEF Aligned
<1> QED BY <1>3, <1>4, <1>5, <1>6, <1>7

(* A word stored at a position with a whole word before the end. *)
LEMMA StoreWord ==
  ASSUME NEW buf \in [0 .. Size - 1 -> Byte], NEW p \in 0 .. Size - 1,
         NEW w \in [1 .. W -> Byte], p + W <= Size
  PROVE  /\ Store(buf, p, w) \in [0 .. Size - 1 -> Byte]
         /\ \A i \in 0 .. Size - 1 :
              Store(buf, p, w)[i] = IF i \in p .. p + W - 1 THEN w[i - p + 1] ELSE buf[i]
<1>1. ~ (p + W > Size)
  BY SizeAssumption
<1>2. Store(buf, p, w) =
        [i \in 0 .. Size - 1 |-> IF i \in p .. p + W - 1 THEN w[i - p + 1] ELSE buf[i]]
  BY <1>1 DEF Store
<1>3. ASSUME NEW i \in 0 .. Size - 1, i \in p .. p + W - 1
      PROVE  w[i - p + 1] \in Byte
  BY <1>3, SizeAssumption
<1> QED BY <1>2, <1>3

(* What the two kinds of enqueue do to the length and to the buffer. *)
LEMMA EnqueueTxStep ==
  ASSUME IInv, NEW w \in Words, EnqueueTx(w)
  PROVE  /\ out_buf' \in [0 .. Size - 1 -> Byte]
         /\ out_buf_len' = out_buf_len + W
         /\ out_buf_len' \in 1 .. Size
         /\ Aligned(out_buf_pos + out_buf_len')
<1> USE SizeAssumption
<1> DEFINE at == WrPos(out_buf_pos, out_buf_len)
<1>1. w \in [1 .. W -> Byte]
  BY WordsAssumption
<1>2. /\ at \in 0 .. Size - 1
      /\ at + W <= Size
      /\ out_buf_len + W \in 0 .. Size
      /\ Aligned(out_buf_pos + (out_buf_len + W))
  BY RoomForWord DEF IInv, TypeOK, WriteAligned, EnqueueTx
<1>3. out_buf' \in [0 .. Size - 1 -> Byte]
  BY <1>1, <1>2, StoreWord DEF IInv, TypeOK, EnqueueTx
<1> QED BY <1>2, <1>3 DEF EnqueueTx, IInv, TypeOK

LEMMA EnqueueTwoStep ==
  ASSUME IInv, NEW v \in Words, NEW w \in Words, EnqueueTwo(v, w)
  PROVE  /\ out_buf' \in [0 .. Size - 1 -> Byte]
         /\ out_buf_len' = out_buf_len + W + W
         /\ out_buf_len' \in 1 .. Size
         /\ Aligned(out_buf_pos + out_buf_len')
<1> USE SizeAssumption
<1> DEFINE at   == WrPos(out_buf_pos, out_buf_len)
           once == Store(out_buf, at, v)
           next == WrPos(out_buf_pos, out_buf_len + W)
<1>1. v \in [1 .. W -> Byte] /\ w \in [1 .. W -> Byte]
  BY WordsAssumption
<1>2. /\ at \in 0 .. Size - 1
      /\ at + W <= Size
      /\ out_buf_len + W \in 0 .. Size
      /\ Aligned(out_buf_pos + (out_buf_len + W))
  BY RoomForWord DEF IInv, TypeOK, WriteAligned, EnqueueTwo
<1>3. once \in [0 .. Size - 1 -> Byte]
  BY <1>1, <1>2, StoreWord DEF IInv, TypeOK
<1>4. /\ next \in 0 .. Size - 1
      /\ next + W <= Size
      /\ (out_buf_len + W) + W \in 0 .. Size
      /\ Aligned(out_buf_pos + ((out_buf_len + W) + W))
  BY <1>2, RoomForWord DEF IInv, TypeOK, EnqueueTwo
<1>5. out_buf' = Store(once, next, w)
  BY DEF EnqueueTwo
<1>6. out_buf' \in [0 .. Size - 1 -> Byte]
  BY <1>1, <1>3, <1>4, <1>5, StoreWord
<1>7. out_buf_len' = out_buf_len + W + W
  BY DEF EnqueueTwo
<1> HIDE DEF at, once, next
<1> QED BY <1>2, <1>4, <1>6, <1>7 DEF IInv, TypeOK

(* The empty ring of a connection that was just made, or freed. *)
LEMMA EmptyRing ==
  /\ [i \in 0 .. Size - 1 |-> Zero] \in [0 .. Size - 1 -> Byte]
  /\ 0 \in 0 .. Size - 1
  /\ 0 \in 0 .. Size
  /\ Aligned(0 + 0)
  /\ << >> \in Seq(Byte)
<1>1. 0 = 0 * W
  BY SizeAssumption
<1>2. << >> \in Seq(Byte)
  OBVIOUS
<1> QED BY <1>1, <1>2, SizeAssumption, WordsAssumption DEF Aligned

(* A written chunk stops at the end of the buffer and at the stored data. *)
LEMMA ContigBounds ==
  ASSUME TypeOK
  PROVE  /\ Contig \in 0 .. out_buf_len
         /\ out_buf_pos + Contig <= Size
         /\ Contig = 0 <=> out_buf_len = 0
BY SizeAssumption DEF TypeOK, Contig

LEMMA InitIInv == Init => IInv
<1> SUFFICES ASSUME Init PROVE IInv
  OBVIOUS
<1>1. TypeOK
  BY EmptyRing DEF Init, TypeOK, Outcomes
<1>2. WriteAligned
  BY EmptyRing DEF Init, WriteAligned
<1>3. ArmedIffPending
  BY DEF Init, ArmedIffPending
<1> QED BY <1>1, <1>2, <1>3 DEF IInv

LEMMA StepIInv == IInv /\ [Next]_vars => IInv'
<1> SUFFICES ASSUME IInv, [Next]_vars PROVE IInv'
  OBVIOUS
<1> USE SizeAssumption
<1>1. ASSUME NEW a \in Latches, SendLatch(a) PROVE IInv'
  <2>1. a \in Words
    BY DEF Words
  <2>2. CASE EnqueueTx(a) /\ CmdQueued
    <3>1. /\ out_buf' \in [0 .. Size - 1 -> Byte]
          /\ out_buf_len' \in 1 .. Size
          /\ Aligned(out_buf_pos + out_buf_len')
      BY <2>1, <2>2, EnqueueTxStep
    <3>2. TypeOK'
      BY <2>2, <3>1 DEF IInv, TypeOK, CmdQueued, Outcomes
    <3>3. WriteAligned' /\ ArmedIffPending'
      BY <2>2, <3>1 DEF CmdQueued, WriteAligned, ArmedIffPending
    <3> QED BY <3>2, <3>3 DEF IInv
  <2>3. CASE CmdRefused
    BY <2>3 DEF CmdRefused, IInv, TypeOK, WriteAligned, ArmedIffPending, Outcomes
  <2> QED BY <1>1, <2>2, <2>3 DEF SendLatch
<1>2. ASSUME NEW a \in Cmds, NEW p \in Params, SendReg(a, p) PROVE IInv'
  <2>1. a \in Words /\ p \in Words
    BY DEF Words
  <2>2. CASE EnqueueTwo(a, p) /\ CmdQueued
    <3>1. /\ out_buf' \in [0 .. Size - 1 -> Byte]
          /\ out_buf_len' \in 1 .. Size
          /\ Aligned(out_buf_pos + out_buf_len')
      BY <2>1, <2>2, EnqueueTwoStep
    <3>2. TypeOK'
      BY <2>2, <3>1 DEF IInv, TypeOK, CmdQueued, Outcomes
    <3>3. WriteAligned' /\ ArmedIffPending'
      BY <2>2, <3>1 DEF CmdQueued, WriteAligned, ArmedIffPending
    <3> QED BY <3>2, <3>3 DEF IInv
  <2>3. CASE CmdHalfQueued(a)
    <3>1. /\ out_buf' \in [0 .. Size - 1 -> Byte]
          /\ out_buf_len' \in 1 .. Size
          /\ Aligned(out_buf_pos + out_buf_len')
      BY <2>1, <2>3, EnqueueTxStep DEF CmdHalfQueued
    <3>2. TypeOK'
      BY <2>3, <3>1 DEF IInv, TypeOK, CmdHalfQueued, Outcomes
    <3>3. WriteAligned' /\ ArmedIffPending'
      BY <2>3, <3>1 DEF CmdHalfQueued, WriteAligned, ArmedIffPending
    <3> QED BY <3>2, <3>3 DEF IInv
  <2>4. CASE CmdRefused
    BY <2>4 DEF CmdRefused, IInv, TypeOK, WriteAligned, ArmedIffPending, Outcomes
  <2> QED BY <1>2, <2>2, <2>3, <2>4 DEF SendReg
<1>3. ASSUME Closed, error_str' \in Outcomes PROVE IInv'
  <2>1. TypeOK'
    BY <1>3, EmptyRing DEF Closed, TypeOK
  <2>2. WriteAligned' /\ ArmedIffPending'
    BY <1>3, EmptyRing DEF Closed, WriteAligned, ArmedIffPending
  <2> QED BY <2>1, <2>2 DEF IInv
<1>4. ASSUME NEW n \in 1 .. Size, WriteSome(n) PROVE IInv'
  <2>1. /\ n \in 1 .. out_buf_len
        /\ out_buf_pos + n <= Size
    BY <1>4, ContigBounds DEF IInv, TypeOK, WriteSome
  <2>2. wire' \in Seq(Byte)
    <3>1. \A i \in 1 .. n : out_buf[out_buf_pos + i - 1] \in Byte
      BY <2>1 DEF IInv, TypeOK
    <3> QED BY <1>4, <3>1 DEF WriteSome
  <2>3. out_buf_len' = out_buf_len - n /\ wr_pending' = (out_buf_len # n)
    BY <1>4 DEF WriteSome, Rearm
  <2>4. CASE out_buf_len = n
    <3>1. out_buf_pos' = 0 /\ out_buf_len' = 0
      BY <1>4, <2>4, <2>3 DEF WriteSome, NextPos, IInv, TypeOK
    <3>2. TypeOK'
      BY <1>4, <2>2, <2>3, <3>1, EmptyRing DEF IInv, TypeOK, WriteSome, Outcomes
    <3>3. WriteAligned'
      BY <3>1, EmptyRing DEF WriteAligned
    <3>4. ArmedIffPending'
      BY <2>3, <2>4, <3>1 DEF ArmedIffPending, IInv, TypeOK
    <3> QED BY <3>2, <3>3, <3>4 DEF IInv
  <2>5. CASE out_buf_len # n
    <3>1. out_buf_pos' = (out_buf_pos + n) % Size
      BY <1>4, <2>5 DEF WriteSome, NextPos
    <3>2. out_buf_pos + n \in 0 .. 2 * Size - 1
      BY <2>1 DEF IInv, TypeOK
    <3>4. out_buf_pos' = IF out_buf_pos + n < Size THEN out_buf_pos + n ELSE out_buf_pos + n - Size
      <4>1. PICK a \in 0 .. 2 * Size - 1 : a = out_buf_pos + n
        BY <3>2
      <4>2. /\ a < Size => a % Size = a
            /\ a >= Size => a % Size = a - Size
        BY ModSize
      <4> QED BY <3>1, <4>1, <4>2 DEF IInv, TypeOK
    <3>5. TypeOK'
      BY <1>4, <2>1, <2>2, <2>3, <3>4 DEF IInv, TypeOK, WriteSome, Outcomes
    <3>6. WriteAligned'
      <4>1. CASE out_buf_pos + n < Size
        <5>1. out_buf_pos' + out_buf_len' = out_buf_pos + out_buf_len
          BY <4>1, <2>3, <3>4 DEF IInv, TypeOK
        <5> QED BY <5>1 DEF IInv, WriteAligned
      <4>2. CASE out_buf_pos + n >= Size
        <5>1. out_buf_pos' + out_buf_len' = out_buf_pos + out_buf_len - Size
          BY <4>2, <2>3, <3>4 DEF IInv, TypeOK
        <5>2. PICK m \in 1 .. Size : Size = m * W
          OBVIOUS
        <5>3. PICK k \in 0 .. out_buf_pos + out_buf_len : out_buf_pos + out_buf_len = k * W
          BY DEF IInv, WriteAligned, Aligned
        <5>4. out_buf_pos' + out_buf_len' = (k - m) * W
          <6>1. out_buf_pos' + out_buf_len' = k * W - m * W
            BY <5>1, <5>2, <5>3 DEF IInv, TypeOK
          <6>2. (k - m) * W = k * W - m * W
            BY <5>2, <5>3
          <6> QED BY <6>1, <6>2
        <5>5. out_buf_pos' + out_buf_len' \in Nat
          BY <3>5 DEF TypeOK
        <5>6. k - m \in 0 .. out_buf_pos' + out_buf_len'
          <6>1. k - m \in Int
            BY <5>2, <5>3
          <6> QED BY <6>1, <5>4, <5>5
        <5> QED BY <5>4, <5>6 DEF WriteAligned, Aligned
      <4> QED BY <4>1, <4>2, <2>1 DEF IInv, TypeOK
    <3>7. ArmedIffPending'
      BY <2>1, <2>3, <2>5 DEF ArmedIffPending, IInv, TypeOK
    <3> QED BY <3>5, <3>6, <3>7 DEF IInv
  <2> QED BY <2>4, <2>5
<1>5. CASE WriteFails
  BY <1>5, <1>3 DEF WriteFails, WriteErrors, Outcomes
<1>6. CASE CloseConn
  BY <1>6, <1>3 DEF CloseConn, Outcomes
<1>7. CASE UNCHANGED vars
  BY <1>7 DEF vars, IInv, TypeOK, WriteAligned, ArmedIffPending
<1> QED BY <1>1, <1>2, <1>4, <1>5, <1>6, <1>7 DEF Next, WriteCb

(* The strengthened invariant holds in every reachable state. *)
THEOREM RingInvariant == Spec => []IInv
<1>1. IInv /\ [Next]_vars => IInv'
  BY StepIInv
<1> QED BY InitIInv, <1>1, PTL DEF Spec

(* Positions and lengths stay in range. *)
THEOREM TypeCorrect == Spec => []TypeOK
<1>1. IInv => TypeOK
  BY DEF IInv
<1> QED BY <1>1, RingInvariant, PTL

(* wr_ev is pending exactly when the ring holds bytes: fpga_enqueue_tx and *)
(* write_fpga_connection lose no wake-up, and none is spurious.            *)
THEOREM NoLostWakeup == Spec => []ArmedIffPending
<1>1. IInv => ArmedIffPending
  BY DEF IInv
<1> QED BY <1>1, RingInvariant, PTL

(* The branch of fpga_enqueue_tx that splits a word, with its off-by-one   *)
(* first half, is dead code for every ring of a whole number of words.     *)
THEOREM SplitBranchDead == Spec => []NeverSplits
<1>1. IInv => NeverSplits
  BY RoomForWord DEF IInv, TypeOK, WriteAligned, NeverSplits
<1> QED BY <1>1, RingInvariant, PTL

-----------------------------------------------------------------------------
(* The refinement: the stored bytes are a FIFO *)

(* The index of the i-th stored byte. *)
LEMMA StoredIndex ==
  ASSUME NEW pos \in 0 .. Size - 1, NEW i \in 1 .. Size
  PROVE  /\ (pos + i - 1) % Size = IF pos + i - 1 < Size THEN pos + i - 1 ELSE pos + i - 1 - Size
         /\ (pos + i - 1) % Size \in 0 .. Size - 1
<1> USE SizeAssumption
<1>1. pos + i - 1 \in 0 .. 2 * Size - 1
  OBVIOUS
<1>2. PICK a \in 0 .. 2 * Size - 1 : a = pos + i - 1
  BY <1>1
<1>3. /\ a < Size => a % Size = a
      /\ a >= Size => a % Size = a - Size
  BY ModSize
<1> QED BY <1>2, <1>3

LEMMA StoredProperties ==
  ASSUME NEW buf \in [0 .. Size - 1 -> Byte], NEW pos \in 0 .. Size - 1, NEW len \in 0 .. Size
  PROVE  /\ Stored(buf, pos, len) \in Seq(Byte)
         /\ Len(Stored(buf, pos, len)) = len
         /\ \A i \in 1 .. len : Stored(buf, pos, len)[i] = buf[(pos + i - 1) % Size]
<1>1. \A i \in 1 .. len : buf[(pos + i - 1) % Size] \in Byte
  BY StoredIndex, SizeAssumption
<1> QED BY <1>1, SizeAssumption DEF Stored

(* fpga_enqueue_tx appends its word to what is stored. *)
LEMMA StoreAppends ==
  ASSUME NEW buf \in [0 .. Size - 1 -> Byte], NEW pos \in 0 .. Size - 1,
         NEW len \in 0 .. Size, NEW w \in [1 .. W -> Byte],
         Aligned(pos + len), HasRoom(len)
  PROVE  Stored(Store(buf, WrPos(pos, len), w), pos, len + W) = Stored(buf, pos, len) \o w
<1>0. W \in Nat \ {0} /\ Size \in Nat \ {0}
  BY SizeAssumption
<1> USE <1>0
<1> DEFINE at   == WrPos(pos, len)
           new  == Store(buf, at, w)
           lhs  == Stored(new, pos, len + W)
           old  == Stored(buf, pos, len)
<1>1. /\ at \in 0 .. Size - 1
      /\ at = IF pos + len < Size THEN pos + len ELSE pos + len - Size
      /\ at + W <= Size
      /\ len + W \in 0 .. Size
  BY RoomForWord
<1>2. /\ new \in [0 .. Size - 1 -> Byte]
      /\ \A i \in 0 .. Size - 1 : new[i] = IF i \in at .. at + W - 1 THEN w[i - at + 1] ELSE buf[i]
  <2> HIDE DEF at
  <2> QED BY <1>1, StoreWord
<1>3. /\ lhs \in Seq(Byte)
      /\ Len(lhs) = len + W
      /\ \A i \in 1 .. len + W : lhs[i] = new[(pos + i - 1) % Size]
  <2> HIDE DEF new, at
  <2>1. PICK l \in 0 .. Size : l = len + W
    BY <1>1
  <2>2. new \in [0 .. Size - 1 -> Byte]
    BY <1>2
  <2>3. /\ Stored(new, pos, l) \in Seq(Byte)
        /\ Len(Stored(new, pos, l)) = l
        /\ \A i \in 1 .. l : Stored(new, pos, l)[i] = new[(pos + i - 1) % Size]
    BY <2>2, StoredProperties
  <2> QED BY <2>1, <2>3
<1>4. /\ old \in Seq(Byte)
      /\ Len(old) = len
      /\ \A i \in 1 .. len : old[i] = buf[(pos + i - 1) % Size]
  BY StoredProperties
<1>5. w \in Seq(Byte) /\ Len(w) = W
  OBVIOUS
<1> HIDE DEF at, new, lhs, old
<1>6. ASSUME NEW i \in 1 .. len + W
      PROVE  lhs[i] = (old \o w)[i]
  <2> DEFINE j == (pos + i - 1) % Size
  <2>1. i \in 1 .. Size
    BY <1>1
  <2>2. /\ j = IF pos + i - 1 < Size THEN pos + i - 1 ELSE pos + i - 1 - Size
        /\ j \in 0 .. Size - 1
    BY <2>1, StoredIndex
  <2>3. lhs[i] = IF j \in at .. at + W - 1 THEN w[j - at + 1] ELSE buf[j]
    BY <1>2, <1>3, <2>2
  <2> HIDE DEF j
  <2>4. CASE i <= len
    <3>1. j \notin at .. at + W - 1
      BY <2>1, <2>2, <2>4, <1>1
    <3>2. (old \o w)[i] = old[i]
      BY <2>4, <1>4, <1>5
    <3>3. old[i] = buf[j]
      BY <2>4, <1>4 DEF j
    <3> QED BY <3>1, <3>2, <3>3, <2>3
  <2>5. CASE i > len
    <3>1. j = at + (i - len - 1)
      BY <2>1, <2>2, <2>5, <1>1
    <3>2. j \in at .. at + W - 1 /\ j - at + 1 = i - len
      BY <3>1, <2>5, <1>1
    <3>3. (old \o w)[i] = w[i - len]
      BY <2>5, <1>4, <1>5
    <3> QED BY <3>2, <3>3, <2>3
  <2>6. i <= len \/ i > len
    BY <2>1
  <2> QED BY <2>4, <2>5, <2>6
<1>7. /\ old \o w \in Seq(Byte)
      /\ Len(old \o w) = len + W
  BY <1>4, <1>5, ConcatProperties
<1>8. lhs = old \o w
  BY <1>3, <1>6, <1>7, SeqEqual
<1> QED BY <1>8 DEF lhs, old, new, at

(* write_fpga_connection hands over the oldest bytes and keeps the rest in *)
(* order, whether or not it moves the position back to the start.          *)
LEMMA WriteTakes ==
  ASSUME IInv, NEW n \in 1 .. Size, WriteSome(n)
  PROVE  /\ n \in 1 .. Len(Contents)
         /\ wire' = SubSeq(Contents, 1, n)
         /\ Contents' = SubSeq(Contents, n + 1, Len(Contents))
<1>0. W \in Nat \ {0} /\ Size \in Nat \ {0}
  BY SizeAssumption
<1> USE <1>0
<1>1. /\ n \in 1 .. out_buf_len
      /\ out_buf_pos + n <= Size
  BY ContigBounds DEF IInv, TypeOK, WriteSome
<1>2. /\ Contents \in Seq(Byte)
      /\ Len(Contents) = out_buf_len
      /\ \A i \in 1 .. out_buf_len : Contents[i] = out_buf[(out_buf_pos + i - 1) % Size]
  BY StoredProperties DEF Contents, IInv, TypeOK
<1>3. IInv'
  BY StepIInv DEF Next, WriteCb
<1>4. /\ Contents' \in Seq(Byte)
      /\ Len(Contents') = out_buf_len'
      /\ \A i \in 1 .. out_buf_len' : Contents'[i] = out_buf'[(out_buf_pos' + i - 1) % Size]
  BY <1>3, StoredProperties DEF Contents, IInv, TypeOK
<1>5. /\ out_buf' = out_buf
      /\ out_buf_len' = out_buf_len - n
  BY DEF WriteSome
<1>6. wire' = SubSeq(Contents, 1, n)
  <2>1. ASSUME NEW i \in 1 .. n PROVE Contents[i] = out_buf[out_buf_pos + i - 1]
    <3>1. (out_buf_pos + i - 1) % Size = out_buf_pos + i - 1
      BY <1>1, StoredIndex DEF IInv, TypeOK
    <3> QED BY <3>1, <1>1, <1>2
  <2>2. wire' = [i \in 1 .. n |-> out_buf[out_buf_pos + i - 1]]
    BY DEF WriteSome
  <2>3. wire' = [i \in 1 .. n |-> Contents[i]]
    BY <2>1, <2>2
  <2>4. SubSeq(Contents, 1, n) = [i \in 1 .. n |-> Contents[i]]
    BY <1>1, <1>2
  <2> QED BY <2>3, <2>4
<1>7. Contents' = SubSeq(Contents, n + 1, Len(Contents))
  <2> DEFINE rest == SubSeq(Contents, n + 1, Len(Contents))
  <2>1. /\ rest \in Seq(Byte)
        /\ Len(rest) = out_buf_len - n
        /\ \A i \in 1 .. out_buf_len - n : rest[i] = Contents[n + i]
    BY <1>1, <1>2 DEF IInv, TypeOK
  <2>2. ASSUME NEW i \in 1 .. out_buf_len - n
        PROVE  (out_buf_pos' + i - 1) % Size = (out_buf_pos + (n + i) - 1) % Size
    <3>1. i \in 1 .. Size /\ n + i \in 1 .. Size
      BY <1>1 DEF IInv, TypeOK
    <3>2. out_buf_len # n
      BY <1>1 DEF IInv, TypeOK
    <3>3. out_buf_pos' = (out_buf_pos + n) % Size
      BY <3>2 DEF WriteSome, NextPos
    <3>4. PICK a \in 0 .. 2 * Size - 1 : a = out_buf_pos + n
      BY <1>1 DEF IInv, TypeOK
    <3>5. /\ a < Size => a % Size = a
          /\ a >= Size => a % Size = a - Size
      BY ModSize
    <3>6. out_buf_pos' = IF out_buf_pos + n < Size THEN out_buf_pos + n ELSE 0
      BY <3>3, <3>4, <3>5, <1>1 DEF IInv, TypeOK
    <3>7. PICK j \in 1 .. Size : j = n + i
      BY <3>1
    <3>8. (out_buf_pos + j - 1) % Size
            = IF out_buf_pos + j - 1 < Size THEN out_buf_pos + j - 1 ELSE out_buf_pos + j - 1 - Size
      BY StoredIndex DEF IInv, TypeOK
    <3>9. (out_buf_pos' + i - 1) % Size
            = IF out_buf_pos' + i - 1 < Size THEN out_buf_pos' + i - 1 ELSE out_buf_pos' + i - 1 - Size
      BY <1>3, <3>1, StoredIndex DEF IInv, TypeOK
    <3> QED BY <3>6, <3>7, <3>8, <3>9, <3>1, <1>1 DEF IInv, TypeOK
  <2>3. ASSUME NEW i \in 1 .. out_buf_len - n
        PROVE  Contents'[i] = rest[i]
    <3>1. n + i \in 1 .. out_buf_len
      BY <1>1 DEF IInv, TypeOK
    <3>2. Contents[n + i] = out_buf[(out_buf_pos + (n + i) - 1) % Size]
      BY <3>1, <1>2
    <3> HIDE DEF rest
    <3> QED BY <3>2, <2>1, <2>2, <1>4, <1>5
  <2> HIDE DEF rest
  <2>4. Contents' = rest
    BY <2>1, <2>3, <1>4, <1>5, SeqEqual
  <2> QED BY <2>4 DEF rest
<1> QED BY <1>1, <1>2, <1>6, <1>7

(* Every step of the ring is a step of the FIFO, or leaves it unchanged. *)
LEMMA StepRefines == IInv /\ [Next]_vars => [Fifo!Next]_<<Contents, wire, alive>>
<1> SUFFICES ASSUME IInv, [Next]_vars
             PROVE  Fifo!Next \/ UNCHANGED <<Contents, wire, alive>>
  OBVIOUS
<1>0. W \in Nat \ {0} /\ Size \in Nat \ {0}
  BY SizeAssumption
<1> USE <1>0
<1>1. /\ Contents \in Seq(Byte)
      /\ Len(Contents) = out_buf_len
  BY StoredProperties DEF Contents, IInv, TypeOK
<1>2. ASSUME NEW w \in Words PROVE w \in [1 .. W -> Byte] /\ Len(w) = W
  BY <1>2, WordsAssumption
<1>3. ASSUME NEW w \in Words, EnqueueTx(w), out_buf_pos' = out_buf_pos
      PROVE  /\ Contents' = Contents \o w
             /\ out_buf_len + W <= Size
  <2>1. Contents' = Stored(Store(out_buf, WrPos(out_buf_pos, out_buf_len), w), out_buf_pos, out_buf_len + W)
    BY <1>3 DEF Contents, EnqueueTx
  <2>2. w \in [1 .. W -> Byte]
    BY <1>2
  <2>3. HasRoom(out_buf_len) /\ Aligned(out_buf_pos + out_buf_len)
    BY <1>3 DEF EnqueueTx, IInv, WriteAligned
  <2>4. Contents' = Contents \o w
    BY <2>1, <2>2, <2>3, StoreAppends DEF Contents, IInv, TypeOK
  <2>5. out_buf_len + W <= Size
    BY <2>3 DEF HasRoom, IInv, TypeOK
  <2> QED BY <2>4, <2>5
<1>4. ASSUME NEW v \in Words, NEW w \in Words, EnqueueTwo(v, w), out_buf_pos' = out_buf_pos
      PROVE  /\ Contents' = (Contents \o v) \o w
             /\ out_buf_len + W + W <= Size
  <2> DEFINE once == Store(out_buf, WrPos(out_buf_pos, out_buf_len), v)
  <2>1. v \in [1 .. W -> Byte] /\ w \in [1 .. W -> Byte]
    BY <1>2
  <2>2. HasRoom(out_buf_len) /\ Aligned(out_buf_pos + out_buf_len)
    BY <1>4 DEF EnqueueTwo, IInv, WriteAligned
  <2>3. /\ WrPos(out_buf_pos, out_buf_len) \in 0 .. Size - 1
        /\ WrPos(out_buf_pos, out_buf_len) + W <= Size
        /\ out_buf_len + W \in 0 .. Size
        /\ Aligned(out_buf_pos + (out_buf_len + W))
    BY <2>2, RoomForWord DEF IInv, TypeOK
  <2>4. once \in [0 .. Size - 1 -> Byte]
    BY <2>1, <2>3, StoreWord DEF IInv, TypeOK
  <2>5. Stored(once, out_buf_pos, out_buf_len + W) = Contents \o v
    BY <2>1, <2>2, StoreAppends DEF Contents, IInv, TypeOK
  <2>6. PICK len \in 0 .. Size : len = out_buf_len + W
    BY <2>3
  <2>7. HasRoom(len) /\ Aligned(out_buf_pos + len)
    BY <1>4, <2>3, <2>6 DEF EnqueueTwo
  <2>8. Contents' = Stored(Store(once, WrPos(out_buf_pos, len), w), out_buf_pos, len + W)
    BY <1>4, <2>6 DEF Contents, EnqueueTwo
  <2> HIDE DEF once
  <2>9. Stored(Store(once, WrPos(out_buf_pos, len), w), out_buf_pos, len + W)
          = Stored(once, out_buf_pos, len) \o w
    BY <2>1, <2>4, <2>7, StoreAppends DEF IInv, TypeOK
  <2>10. out_buf_len + W + W <= Size
    BY <2>6, <2>7 DEF HasRoom, IInv, TypeOK
  <2> QED BY <2>5, <2>6, <2>8, <2>9, <2>10
<1>5. ASSUME NEW a \in Latches, SendLatch(a) PROVE Fifo!Next
  <2>1. a \in Words
    BY DEF Words
  <2>2. CASE EnqueueTx(a) /\ CmdQueued
    <3>1. Fifo!Put(a)
      BY <1>1, <1>2, <1>3, <1>5, <2>1, <2>2 DEF Fifo!Put, SendLatch, CmdQueued
    <3> QED BY <3>1, <2>1 DEF Fifo!Next
  <2>3. CASE CmdRefused
    BY <1>5, <2>3 DEF Fifo!Next, Fifo!Idle, SendLatch, CmdRefused, Contents, Stored
  <2> QED BY <1>5, <2>2, <2>3 DEF SendLatch
<1>6. ASSUME NEW a \in Cmds, NEW p \in Params, SendReg(a, p) PROVE Fifo!Next
  <2>1. a \in Words /\ p \in Words
    BY DEF Words
  <2>2. CASE EnqueueTwo(a, p) /\ CmdQueued
    <3>1. Fifo!PutTwo(a, p)
      BY <1>1, <1>2, <1>4, <1>6, <2>1, <2>2 DEF Fifo!PutTwo, SendReg, CmdQueued
    <3> QED BY <3>1, <2>1 DEF Fifo!Next
  <2>3. CASE CmdHalfQueued(a)
    <3>1. Fifo!Put(a)
      BY <1>1, <1>2, <1>3, <1>6, <2>1, <2>3 DEF Fifo!Put, SendReg, CmdHalfQueued
    <3> QED BY <3>1, <2>1 DEF Fifo!Next
  <2>4. CASE CmdRefused
    BY <1>6, <2>4 DEF Fifo!Next, Fifo!Idle, SendReg, CmdRefused, Contents, Stored
  <2> QED BY <1>6, <2>2, <2>3, <2>4 DEF SendReg
<1>7. ASSUME alive, Closed PROVE Fifo!Next
  <2>1. Contents' = << >>
    BY <1>7 DEF Closed, Contents, Stored
  <2> QED BY <1>7, <2>1 DEF Fifo!Next, Fifo!Drop, Closed
<1>8. ASSUME NEW n \in 1 .. Size, WriteSome(n) PROVE Fifo!Next
  <2>1. Fifo!Take(n)
    BY <1>8, WriteTakes DEF Fifo!Take, WriteSome
  <2>2. n \in 1 .. Len(Contents)
    BY <1>8, WriteTakes
  <2> QED BY <2>1, <2>2 DEF Fifo!Next
<1>9. CASE UNCHANGED vars
  BY <1>9 DEF vars, Contents, Stored
<1> QED BY <1>5, <1>6, <1>7, <1>8, <1>9 DEF Next, WriteCb, WriteFails, CloseConn

(* fpga_enqueue_tx and write_fpga_connection implement a first-in          *)
(* first-out queue of bytes: for every ring size that is a multiple of the *)
(* word size, the socket is handed the bytes in the order they were        *)
(* accepted, each once.                                                    *)
THEOREM RingIsFifo == Spec => ImplementsFifo
<1>1. Init => Fifo!Init
  BY DEF Init, Fifo!Init, Contents, Stored
<1>2. IInv /\ [Next]_vars => [Fifo!Next]_(Fifo!fifoVars)
  BY StepRefines DEF Fifo!fifoVars
<1> QED BY <1>1, <1>2, RingInvariant, PTL DEF Spec, ImplementsFifo, Fifo!Spec
=============================================================================
