--------------------------- MODULE FakeGuv_proofs ---------------------------
(***************************************************************************)
(* Proofs about FakeGuv, for any number of input words and LATCH commands, *)
(* any counts and any registers written to.                                *)
(***************************************************************************)
EXTENDS FakeGuv, Integers, SequenceTheorems, WellFoundedInduction, TLAPS

Word == ({"input", "inject"} \X Nat) \cup ({"header"} \X {"log", "receipt"})
        \cup ({"answer"} \X BOOLEAN) \cup {None}
MainLabels == {"out", "log", "input", "cmd", "joining", "done"}
WriterLabels == {"check", "write", "report", "clear", "stopped"}

LEMMA Words ==
  /\ \A i \in Nat : Input(i) \in Word /\ Injected(i) \in Word
  /\ LogHeader \in Word /\ ReceiptHeader \in Word /\ None \in Word
  /\ \A b \in BOOLEAN : Answer(b) \in Word
BY DEF Word, Input, Injected, LogHeader, ReceiptHeader, Answer

LEMMA Tags ==
  /\ \A i : Input(i)[1] = "input"
  /\ LogHeader[1] = "header" /\ ReceiptHeader[1] = "header"
  /\ \A b : Answer(b)[1] = "answer"
BY DEF Input, LogHeader, ReceiptHeader, Answer

LEMMA Parameters == Inputs \in Nat /\ Latches \in Nat /\ MaxCount \in Nat /\ Asked \subseteq Regs
BY FakeGuvAssumption

-----------------------------------------------------------------------------
(* The inductive invariant *)

Control ==
  /\ pc \in [Writers \cup {"main"} -> MainLabels \cup WriterLabels]
  /\ pc["main"] \in MainLabels
  /\ \A w \in Writers : pc[w] \in WriterLabels

Egress ==
  /\ to_send \in [Writers -> Word]
  /\ vld \in [Writers -> BOOLEAN]
  /\ copy \in [Writers -> Word]
  /\ wire \in [Writers -> Seq(Word)]
  /\ accepted \in [Writers -> Seq(Word)]

(* A thread that writes has an unchanged copy of what it was left. *)
Copies ==
  \A w \in Writers :
    /\ pc[w] \in {"write", "report"} => vld[w]
    /\ pc[w] = "write" => copy[w] = to_send[w]

Flagged ==
  /\ val_sent \in [Writers -> BOOLEAN]
  /\ stop \in [Writers -> BOOLEAN]
  /\ {output_ready, log_ready, have} \subseteq BOOLEAN
  /\ next \in 1 .. Inputs + 1 /\ (have => next <= Inputs)
  /\ latches \in 0 .. Latches

(* What the loop found when it looked at the threads still holds when it   *)
(* uses it.                                                                *)
Fresh ==
  /\ vld["log"] => ~ val_sent["log"]
  /\ pc["main"] \in {"log", "input"} /\ output_ready => ~ vld["out"]
  /\ pc["main"] = "input" /\ log_ready =>
       ~ vld["log"] /\ ~ val_sent["log"] /\ ~ pkt.in_log_packet

Packet ==
  /\ pkt \in [in_log_packet : BOOLEAN, log_data : Word, is_receipt : BOOLEAN]
  /\ receipt \in Word
  /\ receipt # None => receipt[1] = "answer"

(* What was handed to the log, with the second word still owed, is pairs. *)
PairedOff(s) ==
  \A i \in 1 .. Len(s) :
    IF i % 2 = 1 THEN s[i][1] = "header" ELSE PairMatches(s[i - 1], s[i])
Framed == Len(ToLog) % 2 = 0 /\ PairedOff(ToLog)

Registers ==
  /\ live \in [Regs -> 0 .. MaxCount + 1]
  /\ scratch \in [Regs -> 0 .. MaxCount + 1]
  /\ \A r \in Counts : live[r] <= MaxCount /\ scratch[r] <= MaxCount
  /\ quota \in Int

IInv ==
  /\ Control /\ Egress /\ Copies /\ HandedOver /\ Flagged /\ Fresh
  /\ Packet /\ Framed /\ Registers /\ LogCountExact

-----------------------------------------------------------------------------
LEMMA AppendEmpty ==
  ASSUME NEW s \in Seq(Word), NEW v \in Word
  PROVE  /\ s \o << >> = s
         /\ s \o <<v>> = Append(s, v)
OBVIOUS

LEMMA PrefixOf ==
  ASSUME NEW s \in Seq(Word), NEW rest \in Seq(Word)
  PROVE  /\ Len(s) <= Len(s \o rest)
         /\ \A k \in 1 .. Len(s) : (s \o rest)[k] = s[k]
OBVIOUS

LEMMA InitIInv == Init => IInv
<1>. SUFFICES ASSUME Init PROVE IInv
  OBVIOUS
<1>. USE Parameters, Words DEF Init
<1>1. Control
  BY DEF Control, Writers, MainLabels, WriterLabels
<1>2. Egress
  BY DEF Egress
<1>3. Copies /\ Flagged
  <2>1. \A w \in Writers : pc[w] = "check"
    BY DEF Writers
  <2>2. Copies
    BY <2>1 DEF Copies
  <2>3. next \in 1 .. Inputs + 1 /\ latches \in 0 .. Latches
    OBVIOUS
  <2>4. val_sent \in [Writers -> BOOLEAN] /\ stop \in [Writers -> BOOLEAN]
    OBVIOUS
  <2>5. {output_ready, log_ready, have} \subseteq BOOLEAN /\ ~ have
    OBVIOUS
  <2>6. Flagged
    BY <2>3, <2>4, <2>5 DEF Flagged
  <2>. QED  BY <2>2, <2>6
<1>4. HandedOver
  BY DEF HandedOver, Unwritten
<1>5. Fresh /\ Packet
  BY DEF Fresh, Packet, Writers
<1>6. Framed
  BY DEF Framed, PairedOff, ToLog, Writers
<1>7. Registers
  BY DEF Registers, Regs, Counts
<1>8. LogCountExact
  BY DEF LogCountExact, LogInProgress, Writers, Regs, Counts
<1>. QED  BY <1>1, <1>2, <1>3, <1>4, <1>5, <1>6, <1>7, <1>8 DEF IInv

-----------------------------------------------------------------------------
(* The writer threads *)

(* A step of a thread leaves what the main loop keeps to itself. *)
LEMMA LoopUnmoved ==
  ASSUME IInv, UNCHANGED <<accepted, pkt, receipt, live, scratch, quota>>
  PROVE  Packet' /\ Framed' /\ Registers'
BY DEF IInv, Packet, Framed, ToLog, Registers

LEMMA CheckKeeps ==
  ASSUME IInv, NEW w \in Writers, Check(w)
  PROVE  IInv'
<1>. USE DEF Check, Goto, egress, ready, regs, input, history
<1>1. Packet' /\ Framed' /\ Registers'
  BY LoopUnmoved
<1>2. Control'
  BY DEF IInv, Control, Writers, WriterLabels
<1>3. Egress'
  BY DEF IInv, Egress
<1>4. Copies' /\ HandedOver'
  BY DEF IInv, Control, Egress, Copies, HandedOver, Unwritten, Writers
<1>5. Flagged'
  BY DEF IInv, Flagged
<1>6. Fresh'
  BY DEF IInv, Control, Fresh, Writers
<1>7. LogCountExact'
  BY DEF IInv, LogCountExact, LogInProgress
<1>. QED  BY <1>1, <1>2, <1>3, <1>4, <1>5, <1>6, <1>7 DEF IInv

LEMMA WriteKeeps ==
  ASSUME IInv, NEW w \in Writers, Write(w)
  PROVE  IInv'
<1>. USE DEF Write, Goto, egress, ready, regs, input, history
<1>1. Packet' /\ Framed' /\ Registers'
  BY LoopUnmoved
<1>2. Control'
  BY DEF IInv, Control, Writers, WriterLabels
<1>3. Egress'
  BY DEF IInv, Egress
<1>4. Copies'
  BY DEF IInv, Control, Copies, Writers
<1>5. ASSUME NEW u \in Writers PROVE accepted'[u] = wire'[u] \o Unwritten(u)'
  <2>1. CASE u # w
    BY <2>1 DEF IInv, Control, Egress, HandedOver, Unwritten, Writers
  <2>2. CASE u = w
    <3>1. /\ accepted[w] = wire[w] \o <<copy[w]>>
          /\ wire[w] \in Seq(Word) /\ copy[w] \in Word
      BY DEF IInv, Egress, Copies, HandedOver, Unwritten
    <3>2. wire'[w] = Append(wire[w], copy[w]) /\ wire'[w] \in Seq(Word)
      BY <1>3 DEF IInv, Egress
    <3>3. Unwritten(w)' = << >>
      BY DEF IInv, Control, Unwritten, Writers
    <3>4. accepted' = accepted
      OBVIOUS
    <3>. QED  BY <2>2, <3>1, <3>2, <3>3, <3>4, AppendEmpty
  <2>. QED  BY <2>1, <2>2
<1>6. HandedOver'
  BY <1>5 DEF HandedOver
<1>7. Flagged'
  BY DEF IInv, Flagged
<1>8. Fresh'
  BY DEF IInv, Control, Fresh, Writers
<1>9. LogCountExact'
  BY DEF IInv, LogCountExact, LogInProgress
<1>. QED  BY <1>1, <1>2, <1>3, <1>4, <1>6, <1>7, <1>8, <1>9 DEF IInv

LEMMA WriteFailsKeeps ==
  ASSUME IInv, NEW w \in Writers, WriteFails(w)
  PROVE  IInv'
<1>. USE DEF WriteFails, Goto, writer, ready, regs, input, history
<1>1. Packet' /\ Framed' /\ Registers'
  BY LoopUnmoved
<1>2. Control'
  BY DEF IInv, Control, Writers, WriterLabels
<1>3. Egress' /\ Copies' /\ HandedOver'
  BY DEF IInv, Control, Egress, Copies, HandedOver, Unwritten, Writers
<1>4. Flagged'
  BY DEF IInv, Flagged
<1>5. Fresh'
  BY DEF IInv, Control, Fresh, Writers
<1>6. LogCountExact'
  BY DEF IInv, LogCountExact, LogInProgress
<1>. QED  BY <1>1, <1>2, <1>3, <1>4, <1>5, <1>6 DEF IInv

LEMMA ReportKeeps ==
  ASSUME IInv, NEW w \in Writers, Report(w)
  PROVE  IInv'
<1>. USE DEF Report, Goto, writer, ready, regs, input, history
<1>1. Packet' /\ Framed' /\ Registers'
  BY LoopUnmoved
<1>2. Control'
  BY DEF IInv, Control, Writers, WriterLabels
<1>3. vld[w]
  BY DEF IInv, Copies
<1>4. Egress' /\ Copies'
  BY DEF IInv, Control, Egress, Copies, Writers
<1>5. HandedOver'
  BY DEF IInv, Control, Egress, HandedOver, Unwritten, Writers
<1>6. Flagged'
  BY DEF IInv, Flagged
<1>7. Fresh'
  BY <1>3 DEF IInv, Control, Egress, Flagged, Fresh, Writers
<1>8. LogCountExact'
  BY <1>3 DEF IInv, Egress, Flagged, LogCountExact, LogInProgress, Writers
<1>. QED  BY <1>1, <1>2, <1>4, <1>5, <1>6, <1>7, <1>8 DEF IInv

LEMMA ClearKeeps ==
  ASSUME IInv, NEW w \in Writers, Clear(w)
  PROVE  IInv'
<1>. USE DEF Clear, Goto, writer, ready, regs, input, history
<1>1. Packet' /\ Framed' /\ Registers'
  BY LoopUnmoved
<1>2. Control'
  BY DEF IInv, Control, Writers, WriterLabels
<1>3. Egress'
  BY Words DEF IInv, Egress
<1>4. Copies' /\ HandedOver'
  <2>1. /\ pc[w] = "clear" /\ pc'[w] \in {"check", "stopped"}
        /\ \A v \in Writers \ {w} : pc'[v] = pc[v] /\ copy'[v] = copy[v]
        /\ UNCHANGED <<to_send, vld, wire, accepted>>
    BY DEF IInv, Control, Egress, Writers
  <2>. HIDE DEF Clear, Goto
  <2>2. Copies'
    BY <2>1 DEF IInv, Copies
  <2>3. HandedOver'
    BY <2>1 DEF IInv, HandedOver, Unwritten
  <2>. QED  BY <2>2, <2>3
<1>5. Flagged'
  BY DEF IInv, Flagged
<1>6. Fresh'
  BY DEF IInv, Control, Fresh, Writers
<1>7. LogCountExact'
  BY DEF IInv, LogCountExact, LogInProgress
<1>. QED  BY <1>1, <1>2, <1>3, <1>4, <1>5, <1>6, <1>7 DEF IInv

-----------------------------------------------------------------------------
(* The main loop *)

(* The loop leaves val to the threads of S, none of which has one left.    *)
LEMMA HandOverKeeps ==
  ASSUME IInv, NEW S \in SUBSET Writers, NEW val \in [Writers -> Word],
         \A w \in S : ~ vld[w],
         \A w \in Writers : pc'[w] = pc[w],
         UNCHANGED <<copy, wire>>,
         to_send' = [w \in Writers |-> IF w \in S THEN val[w] ELSE to_send[w]],
         vld' = [w \in Writers |-> w \in S \/ vld[w]],
         accepted' = [w \in Writers |-> IF w \in S THEN Append(accepted[w], val[w]) ELSE accepted[w]]
  PROVE  Egress' /\ Copies' /\ HandedOver'
<1>1. Egress'
  <2>1. \A w \in Writers : Append(accepted[w], val[w]) \in Seq(Word)
    BY DEF IInv, Egress
  <2>. QED  BY <2>1 DEF IInv, Egress
<1>2. Copies'
  BY DEF IInv, Egress, Copies
<1>3. ASSUME NEW w \in Writers PROVE accepted'[w] = wire'[w] \o Unwritten(w)'
  <2>1. CASE w \notin S
    BY <2>1 DEF IInv, Egress, HandedOver, Unwritten
  <2>2. CASE w \in S
    <3>1. accepted[w] = wire[w] \o << >> /\ pc[w] # "report"
      BY <2>2 DEF IInv, Copies, HandedOver, Unwritten
    <3>2. Unwritten(w)' = <<val[w]>>
      BY <2>2, <3>1 DEF Unwritten
    <3>3. accepted'[w] = Append(accepted[w], val[w]) /\ wire'[w] = wire[w]
      BY <2>2
    <3>4. wire[w] \in Seq(Word) /\ val[w] \in Word
      BY DEF IInv, Egress
    <3>. QED  BY <3>1, <3>2, <3>3, <3>4, AppendEmpty
  <2>. QED  BY <2>1, <2>2
<1>. QED  BY <1>1, <1>2, <1>3 DEF HandedOver

(* HandOver is that, for a single thread. *)
LEMMA HandOverOne ==
  ASSUME IInv, NEW w \in Writers, ~ vld[w], NEW v \in Word, HandOver(w, v),
         \A u \in Writers : pc'[u] = pc[u],
         UNCHANGED <<copy, wire>>
  PROVE  Egress' /\ Copies' /\ HandedOver'
<1>. DEFINE val == [u \in Writers |-> v]
<1>1. val \in [Writers -> Word] /\ {w} \in SUBSET Writers
  OBVIOUS
<1>2. to_send' = [u \in Writers |-> IF u \in {w} THEN val[u] ELSE to_send[u]]
  BY DEF HandOver, IInv, Egress
<1>3. vld' = [u \in Writers |-> u \in {w} \/ vld[u]]
  BY DEF HandOver, IInv, Egress
<1>4. accepted' = [u \in Writers |-> IF u \in {w} THEN Append(accepted[u], val[u]) ELSE accepted[u]]
  BY DEF HandOver, IInv, Egress
<1>. HIDE DEF val
<1>. QED  BY <1>1, <1>2, <1>3, <1>4, HandOverKeeps

LEMMA KeepEgressKeeps ==
  ASSUME IInv, KeepEgress, \A u \in Writers : pc'[u] = pc[u], UNCHANGED <<copy, wire>>
  PROVE  Egress' /\ Copies' /\ HandedOver'
BY DEF IInv, KeepEgress, Egress, Copies, HandedOver, Unwritten

(* The loop moves on, and no thread does. *)
LEMMA LoopMoves ==
  ASSUME IInv, NEW l \in MainLabels, Goto("main", l)
  PROVE  /\ Control'
         /\ pc'["main"] = l
         /\ \A u \in Writers : pc'[u] = pc[u]
BY DEF IInv, Control, Goto, Writers

(* A whole pair goes to the log, or its first word does and the second is  *)
(* owed.                                                                   *)
LEMMA PairAdded ==
  ASSUME NEW s \in Seq(Word), Len(s) % 2 = 0, PairedOff(s),
         NEW h \in Word, NEW d \in Word, h[1] = "header", PairMatches(h, d)
  PROVE  LET t == (Append(s, h)) \o <<d>> IN Len(t) % 2 = 0 /\ PairedOff(t)
<1>. DEFINE t == (Append(s, h)) \o <<d>>
<1>1. /\ Len(t) = Len(s) + 2
      /\ t[Len(s) + 1] = h /\ t[Len(s) + 2] = d
      /\ \A i \in 1 .. Len(s) : t[i] = s[i]
  OBVIOUS
<1>2. Len(s) \in Nat
  OBVIOUS
<1>. HIDE DEF t
<1>3. Len(t) % 2 = 0
  BY <1>1, <1>2
<1>4. ASSUME NEW i \in 1 .. Len(t)
      PROVE  IF i % 2 = 1 THEN t[i][1] = "header" ELSE PairMatches(t[i - 1], t[i])
  <2>1. CASE i = Len(s) + 1
    BY <1>1, <1>2, <2>1
  <2>2. CASE i = Len(s) + 2
    <3>1. i % 2 # 1 /\ i - 1 = Len(s) + 1
      BY <1>2, <2>2
    <3>. QED  BY <1>1, <2>2, <3>1
  <2>3. CASE i <= Len(s)
    <3>1. i \in 1 .. Len(s) /\ t[i] = s[i]
      BY <1>1, <1>2, <2>3
    <3>2. i % 2 # 1 => i - 1 \in 1 .. Len(s) /\ t[i - 1] = s[i - 1]
      BY <1>1, <1>2, <2>3
    <3>. QED  BY <3>1, <3>2 DEF PairedOff
  <2>4. i = Len(s) + 1 \/ i = Len(s) + 2 \/ i <= Len(s)
    BY <1>1, <1>2
  <2>. QED  BY <2>1, <2>2, <2>3, <2>4
<1>. QED  BY <1>3, <1>4 DEF PairedOff, t

LEMMA StopKeeps ==
  ASSUME IInv, LeaveLoop,
         UNCHANGED <<to_send, vld, val_sent, writer, output_ready, log_ready, live, scratch, pkt,
                     receipt, input, latches, accepted, quota>>
  PROVE  IInv'
<1>. USE DEF LeaveLoop, StopThreads, writer, input
<1>1. /\ Control'
      /\ pc'["main"] = "joining"
      /\ \A u \in Writers : pc'[u] = pc[u]
  BY LoopMoves DEF MainLabels
<1>2. Egress' /\ Copies' /\ HandedOver'
  BY <1>1 DEF IInv, Egress, Copies, HandedOver, Unwritten
<1>3. Packet' /\ Framed' /\ Registers'
  BY LoopUnmoved
<1>4. Flagged'
  BY DEF IInv, Flagged
<1>5. Fresh'
  BY <1>1 DEF IInv, Fresh
<1>6. LogCountExact'
  BY DEF IInv, LogCountExact, LogInProgress
<1>. QED  BY <1>1, <1>2, <1>3, <1>4, <1>5, <1>6 DEF IInv

LEMMA CheckOutKeeps == IInv /\ CheckOut => IInv'
<1>. SUFFICES ASSUME IInv, CheckOut PROVE IInv'
  OBVIOUS
<1>1. CASE LeaveLoop /\ KeepEgress /\ UNCHANGED <<live, output_ready>>
  BY <1>1, StopKeeps DEF CheckOut, KeepEgress
<1>2. CASE ~ stop["out"]
  <2>1. /\ pc["main"] = "out"
        /\ Goto("main", "log")
        /\ output_ready' = (~ vld["out"] /\ live["inj_TVALID"] = 0)
        /\ UNCHANGED <<stop, val_sent, writer, log_ready, scratch, pkt, receipt, input, latches, quota>>
    BY <1>2 DEF CheckOut
  <2>2. /\ Control'
        /\ pc'["main"] = "log"
        /\ \A u \in Writers : pc'[u] = pc[u]
    BY <2>1, LoopMoves DEF MainLabels
  <2>3. live["inj_TDATA"] \in Nat /\ live["inj_TVALID"] \in Nat
    BY Parameters DEF IInv, Registers, Regs, Flags
  <2>4. /\ Egress' /\ Copies' /\ HandedOver' /\ Registers'
        /\ vld'["log"] = vld["log"] /\ accepted'["log"] = accepted["log"]
        /\ live'["log_cnt"] = live["log_cnt"]
        /\ output_ready' => ~ vld'["out"]
    <3>1. CASE ~ vld["out"] /\ live["inj_TVALID"] = 1
      <4>1. /\ HandOver("out", Injected(live["inj_TDATA"]))
            /\ live' = [live EXCEPT !["inj_TVALID"] = 0]
        BY <1>2, <3>1 DEF CheckOut
      <4>2. Injected(live["inj_TDATA"]) \in Word
        BY <2>3, Words
      <4>3. Egress' /\ Copies' /\ HandedOver'
        BY <2>1, <2>2, <3>1, <4>1, <4>2, HandOverOne DEF Writers, writer
      <4>4. vld'["log"] = vld["log"] /\ accepted'["log"] = accepted["log"]
        BY <4>1 DEF HandOver, IInv, Egress, Writers
      <4>5. Registers'
        BY <2>1, <4>1, Parameters DEF IInv, Registers, Regs, Counts, Flags
      <4>6. live'["log_cnt"] = live["log_cnt"]
        BY <4>1 DEF IInv, Registers, Regs, Counts
      <4>7. ~ output_ready'
        <5>1. live["inj_TVALID"] # 0
          BY <3>1
        <5>. QED  BY <2>1, <5>1
      <4>. QED  BY <4>3, <4>4, <4>5, <4>6, <4>7
    <3>2. CASE ~ (~ vld["out"] /\ live["inj_TVALID"] = 1)
      <4>1. KeepEgress /\ live' = live
        BY <1>2, <3>2 DEF CheckOut
      <4>2. Egress' /\ Copies' /\ HandedOver'
        BY <2>1, <2>2, <4>1, KeepEgressKeeps DEF writer
      <4>3. Registers'
        BY <2>1, <4>1 DEF IInv, Registers
      <4>4. vld' = vld /\ accepted' = accepted
        BY <4>1 DEF KeepEgress
      <4>. QED  BY <2>1, <4>1, <4>2, <4>3, <4>4
    <3>. QED  BY <3>1, <3>2
  <2>5. Flagged'
    <3>1. output_ready' \in BOOLEAN
      BY <2>1
    <3>. QED  BY <2>1, <3>1 DEF IInv, Flagged, input
  <2>6. Fresh'
    BY <2>1, <2>2, <2>4 DEF IInv, Fresh
  <2>7. Packet' /\ Framed'
    BY <2>1, <2>4 DEF IInv, Packet, Framed, ToLog
  <2>8. LogCountExact'
    BY <2>1, <2>4 DEF IInv, LogCountExact, LogInProgress
  <2>. QED  BY <2>2, <2>4, <2>5, <2>6, <2>7, <2>8 DEF IInv
<1>. QED  BY <1>1, <1>2 DEF CheckOut

(* The first word of a receipt, or the second of either, or nothing. *)
LEMMA NextLogWordKeeps ==
  ASSUME IInv, NextLogWord, ~ vld["log"],
         \A u \in Writers : pc'[u] = pc[u], UNCHANGED writer
  PROVE  /\ Egress' /\ Copies' /\ HandedOver' /\ Packet' /\ Framed'
         /\ vld'["out"] = vld["out"]
         /\ log_ready' \in BOOLEAN
         /\ log_ready' => ~ vld'["log"] /\ ~ pkt'.in_log_packet
         /\ pkt.in_log_packet => vld'["log"] /\ pkt'.is_receipt = pkt.is_receipt
         /\ ~ pkt.in_log_packet =>
              pkt'.is_receipt \/ (~ vld'["log"] /\ ~ pkt'.in_log_packet)
<1>. USE DEF NextLogWord, writer
<1>1. CASE pkt.in_log_packet
  <2>1. /\ HandOver("log", pkt.log_data)
        /\ pkt' = [pkt EXCEPT !.in_log_packet = FALSE]
        /\ log_ready' = FALSE /\ receipt' = receipt
    BY <1>1
  <2>2. pkt.log_data \in Word
    BY DEF IInv, Packet
  <2>3. Egress' /\ Copies' /\ HandedOver'
    BY <2>1, <2>2, HandOverOne DEF Writers
  <2>4. vld' = [vld EXCEPT !["log"] = TRUE] /\ vld'["out"] = vld["out"] /\ vld'["log"]
    BY <2>1 DEF HandOver, IInv, Egress, Writers
  <2>5. Packet' /\ pkt'.is_receipt = pkt.is_receipt /\ ~ pkt'.in_log_packet
    BY <2>1 DEF IInv, Packet
  <2>6. ToLog' = ToLog
    <3>1. accepted'["log"] = Append(accepted["log"], pkt.log_data)
      BY <2>1 DEF HandOver, IInv, Egress, Writers
    <3>2. accepted["log"] \in Seq(Word)
      BY DEF IInv, Egress, Writers
    <3>3. ToLog = accepted["log"] \o <<pkt.log_data>>
      BY <1>1 DEF ToLog
    <3>4. ToLog' = accepted'["log"] \o << >>
      BY <2>5 DEF ToLog
    <3>5. accepted'["log"] \in Seq(Word)
      BY <2>3 DEF Egress, Writers
    <3>. QED  BY <2>2, <3>1, <3>2, <3>3, <3>4, <3>5, AppendEmpty
  <2>. QED  BY <1>1, <2>1, <2>3, <2>4, <2>5, <2>6 DEF IInv, Framed
<1>2. CASE ~ pkt.in_log_packet /\ receipt # None
  <2>1. /\ HandOver("log", ReceiptHeader)
        /\ pkt' = [in_log_packet |-> TRUE, log_data |-> receipt, is_receipt |-> TRUE]
        /\ receipt' = None
        /\ log_ready' = FALSE
    BY <1>2
  <2>2. receipt \in Word /\ receipt[1] = "answer"
    BY <1>2 DEF IInv, Packet
  <2>3. Egress' /\ Copies' /\ HandedOver'
    BY <2>1, Words, HandOverOne DEF Writers
  <2>4. vld'["out"] = vld["out"]
    BY <2>1 DEF HandOver, IInv, Egress, Writers
  <2>5. Packet' /\ pkt'.is_receipt
    BY <2>1, <2>2, Words DEF IInv, Packet
  <2>6. Framed'
    <3>1. accepted'["log"] = Append(accepted["log"], ReceiptHeader)
      BY <2>1 DEF HandOver, IInv, Egress, Writers
    <3>2. accepted["log"] \in Seq(Word)
      BY DEF IInv, Egress, Writers
    <3>3. ToLog = accepted["log"] \o << >>
      BY <1>2 DEF ToLog
    <3>4. Len(accepted["log"]) % 2 = 0 /\ PairedOff(accepted["log"])
      BY <3>2, <3>3, Words, AppendEmpty DEF IInv, Framed
    <3>5. ToLog' = Append(accepted["log"], ReceiptHeader) \o <<receipt>>
      BY <2>1, <3>1 DEF ToLog
    <3>6. PairMatches(ReceiptHeader, receipt)
      BY <2>2 DEF PairMatches
    <3>. QED  BY <2>2, <3>2, <3>4, <3>5, <3>6, Words, Tags, PairAdded DEF Framed
  <2>. QED  BY <1>2, <2>1, <2>3, <2>4, <2>5, <2>6
<1>3. CASE ~ pkt.in_log_packet /\ receipt = None
  <2>1. log_ready' = TRUE /\ KeepEgress /\ UNCHANGED <<pkt, receipt>>
    BY <1>3
  <2>2. Egress' /\ Copies' /\ HandedOver'
    BY <2>1, KeepEgressKeeps
  <2>3. vld' = vld /\ accepted' = accepted
    BY <2>1 DEF KeepEgress
  <2>4. Packet' /\ Framed'
    BY <2>1, <2>3 DEF IInv, Packet, Framed, ToLog
  <2>. QED  BY <1>3, <2>1, <2>2, <2>3, <2>4
<1>. QED  BY <1>1, <1>2, <1>3

(* A log is counted when its second word has been written, and at no other *)
(* time, and a receipt is not counted.                                     *)
LEMMA CheckLogKeeps == IInv /\ CheckLog => IInv'
<1>. SUFFICES ASSUME IInv, CheckLog PROVE IInv'
  OBVIOUS
<1>1. CASE LeaveLoop /\ KeepEgress /\ UNCHANGED <<val_sent, live, log_ready, pkt, receipt>>
  BY <1>1, StopKeeps DEF CheckLog, KeepEgress
<1>2. CASE ~ stop["log"]
  <2>1. /\ pc["main"] = "log"
        /\ Goto("main", "input")
        /\ val_sent' = [val_sent EXCEPT !["log"] = FALSE]
        /\ live' = IF val_sent["log"] /\ LogWasSent THEN [live EXCEPT !["log_cnt"] = @ - 1] ELSE live
        /\ IF vld["log"]
           THEN log_ready' = FALSE /\ KeepEgress /\ UNCHANGED <<pkt, receipt>>
           ELSE NextLogWord
        /\ UNCHANGED <<stop, writer, output_ready, scratch, input, latches, quota>>
    BY <1>2 DEF CheckLog
  <2>2. /\ Control'
        /\ pc'["main"] = "input"
        /\ \A u \in Writers : pc'[u] = pc[u]
    BY <2>1, LoopMoves DEF MainLabels
  <2>3. /\ Egress' /\ Copies' /\ HandedOver' /\ Packet' /\ Framed'
        /\ vld'["out"] = vld["out"]
        /\ log_ready' \in BOOLEAN
        /\ log_ready' => ~ vld'["log"] /\ ~ pkt'.in_log_packet
    <3>1. CASE vld["log"]
      <4>1. log_ready' = FALSE /\ KeepEgress /\ UNCHANGED <<pkt, receipt>>
        BY <2>1, <3>1
      <4>2. Egress' /\ Copies' /\ HandedOver'
        BY <2>1, <2>2, <4>1, KeepEgressKeeps DEF writer
      <4>3. vld' = vld /\ accepted' = accepted
        BY <4>1 DEF KeepEgress
      <4>4. Packet' /\ Framed'
        BY <4>1, <4>3 DEF IInv, Packet, Framed, ToLog
      <4>. QED  BY <4>1, <4>2, <4>3, <4>4
    <3>2. CASE ~ vld["log"]
      BY <2>1, <2>2, <3>2, NextLogWordKeeps
    <3>. QED  BY <3>1, <3>2
  <2>4. ~ val_sent'["log"] /\ val_sent' \in [Writers -> BOOLEAN]
    BY <2>1 DEF IInv, Flagged, Writers
  <2>5. Flagged'
    BY <2>1, <2>3, <2>4 DEF IInv, Flagged, input
  <2>6. Fresh'
    BY <2>1, <2>2, <2>3, <2>4 DEF IInv, Fresh
  <2>7. Registers'
    <3>1. live["log_cnt"] \in 0 .. MaxCount
      BY Parameters DEF IInv, Registers, Regs, Counts
    <3>2. CASE val_sent["log"] /\ LogWasSent
      <4>1. live["log_cnt"] - 1 \in 0 .. MaxCount
        BY <3>1, <3>2, Parameters DEF LogWasSent
      <4>2. live' = [live EXCEPT !["log_cnt"] = live["log_cnt"] - 1]
        BY <2>1, <3>2
      <4>3. live' \in [Regs -> 0 .. MaxCount + 1]
        <5>1. live["log_cnt"] - 1 \in 0 .. MaxCount + 1
          BY <4>1, Parameters
        <5>. QED  BY <4>2, <5>1 DEF IInv, Registers
      <4>4. \A r \in Counts : live'[r] <= MaxCount
        BY <4>1, <4>2, Parameters DEF IInv, Registers, Regs, Counts
      <4>. QED  BY <2>1, <4>3, <4>4 DEF IInv, Registers
    <3>3. CASE ~ (val_sent["log"] /\ LogWasSent)
      BY <2>1, <3>3 DEF IInv, Registers
    <3>. QED  BY <3>2, <3>3
  <2>8. LogCountExact'
    <3>1. /\ live["log_cnt"] \in 0 .. MaxCount /\ quota \in Int
          /\ live["log_cnt"] = quota + (IF LogInProgress /\ live["log_cnt"] > 0 THEN 1 ELSE 0)
      BY Parameters DEF IInv, Registers, Regs, Counts, LogCountExact
    <3>2. quota' = quota
      BY <2>1
    <3>3. CASE val_sent["log"] /\ LogWasSent
      <4>1. live'["log_cnt"] = live["log_cnt"] - 1
        BY <2>1, <3>3 DEF IInv, Registers, Regs, Counts
      <4>2. LogInProgress /\ live["log_cnt"] > 0 /\ ~ pkt.in_log_packet /\ ~ vld["log"]
        BY <3>3 DEF LogWasSent, LogInProgress, IInv, Fresh
      <4>3. ~ LogInProgress'
        BY <2>1, <2>2, <2>4, <4>2, NextLogWordKeeps DEF LogInProgress
      <4>. QED  BY <3>1, <3>2, <4>1, <4>2, <4>3 DEF LogCountExact
    <3>4. CASE ~ (val_sent["log"] /\ LogWasSent)
      <4>1. live' = live
        BY <2>1, <3>4
      <4>2. live["log_cnt"] > 0 => LogInProgress' = LogInProgress
        <5>1. CASE vld["log"]
          BY <2>1, <2>4, <5>1 DEF LogInProgress, KeepEgress, IInv, Fresh
        <5>2. CASE ~ vld["log"] /\ pkt.in_log_packet
          BY <2>1, <2>2, <2>4, <5>2, NextLogWordKeeps DEF LogInProgress
        <5>3. CASE ~ vld["log"] /\ ~ pkt.in_log_packet
          <6>1. ~ LogInProgress'
            BY <2>1, <2>2, <2>4, <5>3, NextLogWordKeeps DEF LogInProgress
          <6>2. live["log_cnt"] > 0 => ~ LogInProgress
            BY <3>4, <5>3 DEF LogInProgress, LogWasSent
          <6>3. LogInProgress \in BOOLEAN /\ LogInProgress' \in BOOLEAN
            BY DEF LogInProgress
          <6>. QED  BY <6>1, <6>2, <6>3
        <5>. QED  BY <5>1, <5>2, <5>3
      <4>. QED  BY <3>1, <3>2, <4>1, <4>2 DEF LogCountExact
    <3>. QED  BY <3>3, <3>4
  <2>. QED  BY <2>2, <2>3, <2>5, <2>6, <2>7, <2>8 DEF IInv
<1>. QED  BY <1>1, <1>2 DEF CheckLog

(* An input word is only taken when the loop can leave it with every       *)
(* thread that is to get it.                                               *)
LEMMA TakeInputKeeps ==
  ASSUME IInv, pc["main"] = "input", Goto("main", "cmd"), ReadyForInput, TakeInput, next <= Inputs,
         UNCHANGED <<stop, writer, ready, scratch, receipt, latches>>
  PROVE  IInv'
<1>. USE DEF writer, ready
<1>1. /\ Control'
      /\ pc'["main"] = "cmd"
      /\ \A u \in Writers : pc'[u] = pc[u]
  BY LoopMoves DEF MainLabels
<1>2. /\ CopyToOut => ~ vld["out"]
      /\ CopyToLog => ~ vld["log"] /\ ~ val_sent["log"] /\ ~ pkt.in_log_packet
  BY DEF ReadyForInput, IInv, Fresh
<1>3. /\ next \in Nat /\ Input(next) \in Word
      /\ CopiedWord \in [Writers -> Word]
      /\ CopiedWord["log"] = LogHeader
  BY Words, Parameters DEF CopiedWord, IInv, Flagged, Writers
<1>4. /\ Copied \in SUBSET Writers
      /\ \A w \in Copied : ~ vld[w]
      /\ "log" \in Copied <=> CopyToLog
  BY <1>2 DEF Copied, Writers
<1>5. Egress' /\ Copies' /\ HandedOver'
  BY <1>1, <1>3, <1>4, HandOverKeeps DEF TakeInput
<1>6. /\ vld'["log"] = (CopyToLog \/ vld["log"])
      /\ accepted'["log"] = IF CopyToLog THEN Append(accepted["log"], LogHeader) ELSE accepted["log"]
  BY <1>3, <1>4 DEF TakeInput, Writers
<1>7. IF CopyToLog
      THEN /\ pkt' = [in_log_packet |-> TRUE, log_data |-> Input(next), is_receipt |-> FALSE]
           /\ val_sent' = [val_sent EXCEPT !["log"] = FALSE]
      ELSE pkt' = pkt /\ val_sent' = val_sent
  BY DEF TakeInput
<1>8. Flagged'
  <2>1. val_sent' \in [Writers -> BOOLEAN]
    BY <1>7 DEF IInv, Flagged
  <2>2. next' \in 1 .. Inputs + 1
    <3>1. next' = next + 1
      BY DEF TakeInput
    <3>. QED  BY <1>3, <3>1, Parameters DEF IInv, Flagged
  <2>3. ~ have' /\ have' \in BOOLEAN
    BY DEF TakeInput
  <2>. QED  BY <2>1, <2>2, <2>3 DEF IInv, Flagged
<1>9. Fresh'
  BY <1>1, <1>2, <1>6, <1>7 DEF IInv, Fresh, Flagged, Writers
<1>10. Packet'
  <2>1. pkt' \in [in_log_packet : BOOLEAN, log_data : Word, is_receipt : BOOLEAN]
    <3>1. CASE CopyToLog
      <4>1. pkt' = [in_log_packet |-> TRUE, log_data |-> Input(next), is_receipt |-> FALSE]
        BY <1>7, <3>1
      <4>2. Input(next) \in Word
        BY <1>3
      <4>. QED  BY <4>1, <4>2
    <3>2. CASE ~ CopyToLog
      BY <1>7, <3>2 DEF IInv, Packet
    <3>. QED  BY <3>1, <3>2
  <2>2. receipt' = receipt
    OBVIOUS
  <2>. QED  BY <2>1, <2>2 DEF IInv, Packet
<1>11. Framed'
  <2>1. CASE CopyToLog
    <3>1. accepted["log"] \in Seq(Word)
      BY DEF IInv, Egress, Writers
    <3>2. ToLog = accepted["log"] \o << >>
      BY <1>2, <2>1 DEF ToLog
    <3>3. Len(accepted["log"]) % 2 = 0 /\ PairedOff(accepted["log"])
      BY <3>1, <3>2, Words, AppendEmpty DEF IInv, Framed
    <3>4. ToLog' = Append(accepted["log"], LogHeader) \o <<Input(next)>>
      BY <1>6, <1>7, <2>1 DEF ToLog
    <3>5. PairMatches(LogHeader, Input(next))
      BY Tags DEF PairMatches
    <3>. QED  BY <1>3, <3>1, <3>3, <3>4, <3>5, Words, Tags, PairAdded DEF Framed
  <2>2. CASE ~ CopyToLog
    BY <1>6, <1>7, <2>2 DEF IInv, Framed, ToLog
  <2>. QED  BY <2>1, <2>2
<1>12. Registers' /\ live'["log_cnt"] = live["log_cnt"]
  <2>1. quota' \in Int
    BY DEF TakeInput, IInv, Registers
  <2>2. CASE ~ CopyToOut /\ live["drop_cnt"] > 0
    <3>1. live["drop_cnt"] \in 0 .. MaxCount
      BY Parameters DEF IInv, Registers, Regs, Counts
    <3>2. live["drop_cnt"] - 1 \in 0 .. MaxCount /\ live["drop_cnt"] - 1 \in 0 .. MaxCount + 1
      BY <2>2, <3>1, Parameters
    <3>3. live' = [live EXCEPT !["drop_cnt"] = live["drop_cnt"] - 1]
      BY <2>2 DEF TakeInput
    <3>4. live' \in [Regs -> 0 .. MaxCount + 1] /\ live'["log_cnt"] = live["log_cnt"]
      BY <3>2, <3>3 DEF IInv, Registers, Regs, Counts
    <3>5. \A r \in Counts : live'[r] <= MaxCount
      BY <3>2, <3>3, Parameters DEF IInv, Registers, Regs, Counts
    <3>. QED  BY <2>1, <3>4, <3>5 DEF IInv, Registers
  <2>3. CASE ~ (~ CopyToOut /\ live["drop_cnt"] > 0)
    <3>1. live' = live
      BY <2>3 DEF TakeInput
    <3>. QED  BY <2>1, <3>1 DEF IInv, Registers
  <2>. QED  BY <2>2, <2>3
<1>13. LogCountExact'
  <2>1. /\ live["log_cnt"] \in 0 .. MaxCount /\ quota \in Int
        /\ live["log_cnt"] = quota + (IF LogInProgress /\ live["log_cnt"] > 0 THEN 1 ELSE 0)
        /\ quota' = IF live["log_cnt"] > 0 THEN quota - 1 ELSE quota
    BY Parameters DEF IInv, Registers, Regs, Counts, LogCountExact, TakeInput
  <2>2. CASE CopyToLog
    <3>1. ~ LogInProgress /\ LogInProgress'
      BY <1>2, <1>6, <1>7, <2>2 DEF LogInProgress
    <3>. QED  BY <1>12, <2>1, <3>1 DEF LogCountExact
  <2>3. CASE ~ CopyToLog
    <3>1. live["log_cnt"] = 0
      BY <2>1, <2>3 DEF CopyToLog
    <3>. QED  BY <1>12, <2>1, <3>1 DEF LogCountExact
  <2>. QED  BY <2>2, <2>3
<1>. QED  BY <1>1, <1>5, <1>8, <1>9, <1>10, <1>11, <1>12, <1>13 DEF IInv

LEMMA PollInputKeeps ==
  ASSUME IInv, NEW arrives \in BOOLEAN, PollInput(arrives)
  PROVE  IInv'
<1>1. CASE (have \/ arrives) /\ ReadyForInput
  <2>1. next <= Inputs
    BY <1>1 DEF PollInput, IInv, Flagged
  <2>. QED  BY <1>1, <2>1, TakeInputKeeps DEF PollInput
<1>2. CASE ~ ((have \/ arrives) /\ ReadyForInput)
  <2>1. /\ Goto("main", "cmd")
        /\ KeepEgress
        /\ have' = (have \/ arrives)
        /\ have' => next <= Inputs
        /\ UNCHANGED <<live, pkt, val_sent, quota, next, stop, writer, ready, scratch, receipt, latches>>
    BY <1>2 DEF PollInput, KeepInput, IInv, Flagged
  <2>2. /\ Control'
        /\ pc'["main"] = "cmd"
        /\ \A u \in Writers : pc'[u] = pc[u]
    BY <2>1, LoopMoves DEF MainLabels
  <2>3. Egress' /\ Copies' /\ HandedOver'
    BY <2>1, <2>2, KeepEgressKeeps DEF writer
  <2>4. vld' = vld /\ accepted' = accepted
    BY <2>1 DEF KeepEgress
  <2>5. Packet' /\ Framed' /\ Registers'
    BY <2>1, <2>4, LoopUnmoved
  <2>6. Flagged'
    <3>1. have' \in BOOLEAN
      BY <2>1
    <3>. QED  BY <2>1, <3>1 DEF IInv, Flagged, ready
  <2>7. Fresh'
    BY <2>1, <2>2, <2>4 DEF IInv, Fresh
  <2>8. LogCountExact'
    BY <2>1, <2>4 DEF IInv, LogCountExact, LogInProgress
  <2>. QED  BY <2>2, <2>3, <2>5, <2>6, <2>7, <2>8 DEF IInv
<1>. QED  BY <1>1, <1>2

(* What a command may change. *)
LEMMA CommandKeeps ==
  ASSUME IInv, Goto("main", "out"), output_ready' = FALSE, log_ready' = FALSE,
         UNCHANGED <<egress, writer, pkt, input, accepted>>, Registers', LogCountExact',
         receipt' \in Word, receipt' # None => receipt'[1] = "answer", latches' \in 0 .. Latches
  PROVE  IInv'
<1>1. /\ Control'
      /\ pc'["main"] = "out"
      /\ \A u \in Writers : pc'[u] = pc[u]
  BY LoopMoves DEF MainLabels
<1>2. Egress' /\ Copies' /\ HandedOver'
  BY <1>1, KeepEgressKeeps DEF KeepEgress, egress, writer
<1>3. Packet' /\ Framed'
  BY DEF IInv, Packet, Framed, ToLog
<1>4. Flagged'
  BY DEF IInv, Flagged, egress, input
<1>5. Fresh'
  BY <1>1 DEF IInv, Fresh, egress
<1>. QED  BY <1>1, <1>2, <1>3, <1>4, <1>5 DEF IInv

LEMMA NoCommandKeeps == IInv /\ ReadCommand(NoCommand) => IInv'
<1>. SUFFICES ASSUME IInv, ReadCommand(NoCommand) PROVE IInv'
  OBVIOUS
<1>1. UNCHANGED <<live, scratch, receipt, quota, latches, egress, pkt>>
  BY DEF ReadCommand, NoCommand, regs
<1>2. Registers' /\ LogCountExact'
  BY <1>1 DEF IInv, Registers, LogCountExact, LogInProgress, egress
<1>. QED  BY <1>1, <1>2, CommandKeeps DEF ReadCommand, IInv, Packet, Flagged

LEMMA SetRegisterKeeps ==
  ASSUME IInv, NEW r \in Regs, NEW v \in Values(r), ReadCommand(SetRegister(r, v))
  PROVE  IInv'
<1>1. /\ UNCHANGED <<live, receipt, quota, latches, egress, pkt>>
      /\ scratch' = [scratch EXCEPT ![r] = v]
  BY DEF ReadCommand, SetRegister
<1>2. v \in 0 .. MaxCount + 1 /\ (r \in Counts => v <= MaxCount)
  BY Parameters DEF Values
<1>3. Registers'
  BY <1>1, <1>2, Parameters DEF IInv, Registers, Regs
<1>4. LogCountExact'
  BY <1>1 DEF IInv, LogCountExact, LogInProgress, egress
<1>. QED  BY <1>1, <1>3, <1>4, CommandKeeps DEF ReadCommand, IInv, Packet, Flagged

LEMMA LatchKeeps == IInv /\ ReadCommand(LatchRegisters) => IInv'
<1>. SUFFICES ASSUME IInv, ReadCommand(LatchRegisters) PROVE IInv'
  OBVIOUS
<1>1. /\ UNCHANGED <<scratch, egress, pkt>>
      /\ latches < Latches /\ latches' = latches + 1
      /\ live' = Latched
      /\ receipt' = Answer(live["inj_TVALID"] = 1)
      /\ quota' = IF LogInProgress /\ scratch["log_cnt"] > 0 THEN scratch["log_cnt"] - 1
                  ELSE scratch["log_cnt"]
  BY DEF ReadCommand, LatchRegisters, Latch
<1>2. scratch["log_cnt"] \in 0 .. MaxCount
  BY Parameters DEF IInv, Registers, Regs, Counts
<1>3. quota' \in Int
  BY <1>1, <1>2
<1>4. Registers'
  <2>1. live' \in [Regs -> 0 .. MaxCount + 1]
    BY <1>1 DEF Latched, IInv, Registers
  <2>2. \A r \in Counts : live'[r] = scratch[r]
    BY <1>1 DEF Latched, Regs, Counts, Inject
  <2>. QED  BY <1>1, <1>3, <2>1, <2>2 DEF IInv, Registers
<1>5. LogCountExact'
  <2>1. live'["log_cnt"] = scratch["log_cnt"]
    BY <1>1 DEF Latched, Regs, Counts, Inject
  <2>2. LogInProgress' = LogInProgress
    BY <1>1 DEF LogInProgress, egress
  <2>. QED  BY <1>1, <1>2, <2>1, <2>2 DEF LogCountExact
<1>6. latches' \in 0 .. Latches
  BY <1>1, Parameters DEF IInv, Flagged
<1>7. receipt' \in Word /\ receipt'[1] = "answer"
  <2>1. (live["inj_TVALID"] = 1) \in BOOLEAN
    OBVIOUS
  <2>. QED  BY <1>1, <2>1, Words, Tags
<1>. QED  BY <1>4, <1>5, <1>6, <1>7, CommandKeeps DEF ReadCommand

LEMMA JoinKeeps == IInv /\ Join => IInv'
<1>. SUFFICES ASSUME IInv, Join PROVE IInv'
  OBVIOUS
<1>. USE DEF Join, egress, writer, ready, regs, input, history
<1>1. /\ Control'
      /\ pc'["main"] = "done"
      /\ \A u \in Writers : pc'[u] = pc[u]
  BY LoopMoves DEF MainLabels
<1>2. Egress' /\ Copies' /\ HandedOver'
  BY <1>1, KeepEgressKeeps DEF KeepEgress
<1>3. Packet' /\ Framed' /\ Registers'
  BY LoopUnmoved
<1>4. Flagged'
  BY DEF IInv, Flagged
<1>5. Fresh'
  BY <1>1 DEF IInv, Fresh
<1>6. LogCountExact'
  BY DEF IInv, LogCountExact, LogInProgress
<1>. QED  BY <1>1, <1>2, <1>3, <1>4, <1>5, <1>6 DEF IInv

-----------------------------------------------------------------------------
LEMMA LeaveKeeps == IInv /\ Leave => IInv'
BY StopKeeps DEF Leave, ready, regs, history

LEMMA StepIInv == IInv /\ [Next]_vars => IInv'
<1>. SUFFICES ASSUME IInv, [Next]_vars PROVE IInv'
  OBVIOUS
<1>1. CASE Main
  <2>1. ASSUME NEW arrives \in BOOLEAN, PollInput(arrives) PROVE IInv'
    BY <2>1, PollInputKeeps
  <2>. QED  BY <1>1, <2>1, CheckOutKeeps, CheckLogKeeps, NoCommandKeeps, JoinKeeps DEF Main
<1>2. CASE Commanded
  <2>1. ASSUME NEW r \in Asked, NEW v \in Values(r), ReadCommand(SetRegister(r, v)) PROVE IInv'
    <3>1. r \in Regs
      BY Parameters
    <3>. QED  BY <2>1, <3>1, SetRegisterKeeps
  <2>. QED  BY <1>2, <2>1, LatchKeeps DEF Commanded
<1>3. CASE Leave
  BY <1>3, LeaveKeeps
<1>4. ASSUME NEW w \in Writers, Writer(w) PROVE IInv'
  BY <1>4, CheckKeeps, WriteKeeps, WriteFailsKeeps, ReportKeeps, ClearKeeps DEF Writer
<1>5. CASE UNCHANGED vars
  <2>. USE <1>5 DEF vars, egress, writer, ready, regs, input, history
  <2>1. Control' /\ Flagged' /\ Fresh'
    BY DEF IInv, Control, Flagged, Fresh
  <2>2. Egress' /\ Copies' /\ HandedOver'
    BY DEF IInv, Egress, Copies, HandedOver, Unwritten
  <2>3. Packet' /\ Framed' /\ Registers'
    BY LoopUnmoved
  <2>4. LogCountExact'
    BY DEF IInv, LogCountExact, LogInProgress
  <2>. QED  BY <2>1, <2>2, <2>3, <2>4 DEF IInv
<1>. QED  BY <1>1, <1>2, <1>3, <1>4, <1>5 DEF Next

(* The strengthened invariant holds in every reachable state. *)
THEOREM GuvInvariant == Spec => []IInv
<1>1. IInv /\ [Next]_vars => IInv'
  BY StepIInv
<1>. QED  BY InitIInv, <1>1, PTL DEF Spec

(* Registers, counts and labels stay in range. *)
THEOREM GuvTypeCorrect == Spec => []TypeOK
<1>1. IInv => TypeOK
  <2>. SUFFICES ASSUME IInv PROVE TypeOK
    OBVIOUS
  <2>1. quota \in 0 .. MaxCount
    <3>1. live["log_cnt"] \in 0 .. MaxCount /\ quota \in Int
      BY Parameters DEF IInv, Registers, Regs, Counts
    <3>. QED  BY <3>1, Parameters DEF IInv, LogCountExact
  <2>2. {pkt.in_log_packet, pkt.is_receipt, output_ready, log_ready, have} \subseteq BOOLEAN
    BY DEF IInv, Packet, Flagged
  <2>3. /\ pc["main"] \in {"out", "log", "input", "cmd", "joining", "done"}
        /\ \A w \in Writers :
             /\ pc[w] \in {"check", "write", "report", "clear", "stopped"}
             /\ {vld[w], val_sent[w], stop[w]} \subseteq BOOLEAN
    BY DEF IInv, Control, MainLabels, WriterLabels, Egress, Flagged
  <2>. QED  BY <2>1, <2>2, <2>3 DEF IInv, Registers, Flagged, TypeOK
<1>. QED  BY <1>1, GuvInvariant, PTL

(* What the main loop leaves in an egress_args is written exactly once and *)
(* in order, although word_writer writes it outside the lock.              *)
THEOREM HandedOverOnce == Spec => []HandedOver
<1>1. IInv => HandedOver
  BY DEF IInv
<1>. QED  BY <1>1, GuvInvariant, PTL

(* The main loop counts each log once against the log_cnt that a LATCH     *)
(* brought.                                                                *)
THEOREM LogCountHolds == Spec => []LogCountExact
<1>1. IInv => LogCountExact
  BY DEF IInv
<1>. QED  BY <1>1, GuvInvariant, PTL

(* The log thread writes pairs of words, each a header and its own data.   *)
THEOREM LogsAreFramed == Spec => []LogFramed
<1>1. IInv => LogFramed
  <2>. SUFFICES ASSUME IInv, NEW i \in DOMAIN wire["log"]
                PROVE  IF i % 2 = 1 THEN wire["log"][i][1] = "header"
                       ELSE PairMatches(wire["log"][i - 1], wire["log"][i])
    BY DEF LogFramed
  <2>1. /\ wire["log"] \in Seq(Word) /\ accepted["log"] \in Seq(Word)
        /\ accepted["log"] = wire["log"] \o Unwritten("log")
        /\ Unwritten("log") \in Seq(Word)
    BY DEF IInv, Egress, HandedOver, Unwritten, Writers
  <2>. DEFINE rest == IF pkt.in_log_packet THEN <<pkt.log_data>> ELSE << >>
  <2>2. rest \in Seq(Word) /\ ToLog = accepted["log"] \o rest
    <3>1. rest \in Seq(Word)
      BY DEF IInv, Packet
    <3>2. ToLog = accepted["log"] \o rest
      BY DEF ToLog
    <3>. QED  BY <3>1, <3>2
  <2>. HIDE DEF rest
  <2>3. Len(wire["log"]) <= Len(ToLog) /\ \A k \in 1 .. Len(wire["log"]) : ToLog[k] = wire["log"][k]
    <3>1. /\ Len(wire["log"]) <= Len(accepted["log"])
          /\ \A k \in 1 .. Len(wire["log"]) : accepted["log"][k] = wire["log"][k]
      BY <2>1, PrefixOf
    <3>2. /\ Len(accepted["log"]) <= Len(ToLog)
          /\ \A k \in 1 .. Len(accepted["log"]) : ToLog[k] = accepted["log"][k]
      BY <2>1, <2>2, PrefixOf
    <3>3. Len(wire["log"]) \in Nat /\ Len(accepted["log"]) \in Nat /\ Len(ToLog) \in Nat
      BY <2>1, <2>2
    <3>. QED  BY <3>1, <3>2, <3>3
  <2>4. i \in 1 .. Len(wire["log"]) /\ i \in 1 .. Len(ToLog)
    BY <2>1, <2>2, <2>3
  <2>5. i % 2 # 1 => i - 1 \in 1 .. Len(wire["log"])
    <3>1. i = 1 => i % 2 = 1
      OBVIOUS
    <3>. QED  BY <2>1, <2>4, <3>1
  <2>. QED  BY <2>3, <2>4, <2>5 DEF IInv, Framed, PairedOff
<1>. QED  BY <1>1, GuvInvariant, PTL

-----------------------------------------------------------------------------
LEMMA LeastNat ==
  ASSUME NEW S \in SUBSET Nat, S # {}
  PROVE  \E m \in S : \A k \in S : m <= k
<1>. DEFINE R == OpToRel(<, Nat)
<1>1. IsWellFoundedOn(R, Nat)
  BY NatLessThanWellFounded
<1>2. \A k, m \in Nat : k < m => <<k, m>> \in R
  BY DEF OpToRel
<1>. HIDE DEF R
<1>3. PICK m \in S : \A k \in S : ~ (<<k, m>> \in R)
  BY <1>1, WFMin, Zenon
<1>4. \A k \in S : ~ (k < m)
  BY <1>2, <1>3, Zenon
<1>5. \A k \in S : m <= k
  BY <1>4
<1>. QED  BY <1>5

(* Induction over the numbers, for the set of those a fact holds of. *)
LEMMA SetInduction ==
  ASSUME NEW S, 0 \in S, \A n \in Nat : n \in S => n + 1 \in S
  PROVE  \A n \in Nat : n \in S
<1>. SUFFICES ASSUME Nat \ S # {} PROVE FALSE
  OBVIOUS
<1>1. PICK m \in Nat \ S : \A k \in Nat \ S : m <= k
  BY LeastNat, Zenon
<1>2. m # 0 /\ m - 1 \in Nat
  BY <1>1
<1>3. m - 1 \in S
  BY <1>1, <1>2
<1>. QED  BY <1>1, <1>2, <1>3


(* What the recursive function of Of is, over the first n words. *)
Sifted(kind, s, n, f) ==
  /\ f \in [0 .. n -> Seq(Word)]
  /\ f[0] = << >>
  /\ \A k \in 1 .. n : f[k] = IF s[k][1] = kind THEN Append(f[k - 1], s[k]) ELSE f[k - 1]

LEMMA SiftedExists ==
  ASSUME NEW kind, NEW s \in Seq(Word)
  PROVE  \E f : Sifted(kind, s, Len(s), f)
<1>. DEFINE S == {n \in Nat : n <= Len(s) => \E f : Sifted(kind, s, n, f)}
<1>1. 0 \in S
  <2>. DEFINE f == [k \in 0 .. 0 |-> << >>]
  <2>1. f \in [0 .. 0 -> Seq(Word)] /\ f[0] = << >>
    OBVIOUS
  <2>2. \A k \in 1 .. 0 : FALSE
    OBVIOUS
  <2>. HIDE DEF f
  <2>3. Sifted(kind, s, 0, f)
    BY <2>1, <2>2 DEF Sifted
  <2>. QED  BY <2>3
<1>2. ASSUME NEW n \in Nat, n \in S PROVE n + 1 \in S
  <2>. SUFFICES ASSUME n + 1 <= Len(s) PROVE \E f : Sifted(kind, s, n + 1, f)
    OBVIOUS
  <2>1. PICK f : Sifted(kind, s, n, f)
    BY <1>2
  <2>. DEFINE g == [k \in 0 .. n + 1 |->
                      IF k = n + 1
                      THEN IF s[n + 1][1] = kind THEN Append(f[n], s[n + 1]) ELSE f[n]
                      ELSE f[k]]
  <2>2. s[n + 1] \in Word /\ f[n] \in Seq(Word)
    BY <2>1 DEF Sifted
  <2>3. Append(f[n], s[n + 1]) \in Seq(Word)
    BY <2>2
  <2>4. g \in [0 .. n + 1 -> Seq(Word)] /\ g[0] = << >>
    BY <2>1, <2>2, <2>3 DEF Sifted
  <2>5. ASSUME NEW k \in 1 .. n + 1
        PROVE  g[k] = IF s[k][1] = kind THEN Append(g[k - 1], s[k]) ELSE g[k - 1]
    <3>1. CASE k = n + 1
      BY <3>1
    <3>2. CASE k # n + 1
      <4>1. k \in 1 .. n /\ g[k] = f[k] /\ g[k - 1] = f[k - 1]
        BY <3>2
      <4>. HIDE DEF g
      <4>. QED  BY <2>1, <4>1 DEF Sifted
    <3>. QED  BY <3>1, <3>2
  <2>. HIDE DEF g
  <2>6. Sifted(kind, s, n + 1, g)
    BY <2>4, <2>5 DEF Sifted
  <2>. QED  BY <2>6
<1>3. \A n \in Nat : n \in S
  <2>. HIDE DEF S
  <2>. QED  BY <1>1, <1>2, SetInduction
<1>4. Len(s) \in S
  BY <1>3
<1>. QED  BY <1>4

LEMMA SiftedAgree ==
  ASSUME NEW kind, NEW s \in Seq(Word), NEW t \in Seq(Word), NEW n \in Nat, n <= Len(s), n <= Len(t),
         \A k \in 1 .. n : s[k] = t[k],
         NEW f, NEW g, Sifted(kind, s, Len(s), f), Sifted(kind, t, Len(t), g)
  PROVE  f[n] = g[n]
<1>. DEFINE S == {k \in Nat : k <= n => f[k] = g[k]}
<1>1. 0 \in S
  BY DEF Sifted
<1>2. ASSUME NEW k \in Nat, k \in S PROVE k + 1 \in S
  <2>. SUFFICES ASSUME k + 1 <= n PROVE f[k + 1] = g[k + 1]
    OBVIOUS
  <2>1. f[k] = g[k] /\ s[k + 1] = t[k + 1]
    BY <1>2
  <2>2. f[k + 1] = IF s[k + 1][1] = kind THEN Append(f[k], s[k + 1]) ELSE f[k]
    <3>1. k + 1 \in 1 .. Len(s) /\ (k + 1) - 1 = k
      OBVIOUS
    <3>. QED  BY <3>1 DEF Sifted
  <2>3. g[k + 1] = IF t[k + 1][1] = kind THEN Append(g[k], t[k + 1]) ELSE g[k]
    <3>1. k + 1 \in 1 .. Len(t) /\ (k + 1) - 1 = k
      OBVIOUS
    <3>. QED  BY <3>1 DEF Sifted
  <2>. QED  BY <2>1, <2>2, <2>3
<1>3. \A k \in Nat : k \in S
  <2>. HIDE DEF S
  <2>. QED  BY <1>1, <1>2, SetInduction
<1>. QED  BY <1>3

LEMMA OfSifted ==
  ASSUME NEW kind, NEW s \in Seq(Word)
  PROVE  \E f : Sifted(kind, s, Len(s), f) /\ Of(kind, s) = f[Len(s)]
<1>. DEFINE Step(h, n) == IF n = 0 THEN << >>
                          ELSE IF s[n][1] = kind THEN Append(h[n - 1], s[n]) ELSE h[n - 1]
<1>1. PICK f : Sifted(kind, s, Len(s), f)
  BY SiftedExists
<1>2. f = [n \in 0 .. Len(s) |-> Step(f, n)]
  <2>1. ASSUME NEW n \in 0 .. Len(s) PROVE f[n] = Step(f, n)
    <3>1. CASE n = 0
      BY <1>1, <3>1 DEF Sifted
    <3>2. CASE n # 0
      <4>1. n \in 1 .. Len(s)
        BY <3>2
      <4>. QED  BY <1>1, <3>2, <4>1 DEF Sifted
    <3>. QED  BY <3>1, <3>2
  <2>2. DOMAIN f = 0 .. Len(s) /\ f = [n \in DOMAIN f |-> f[n]]
    BY <1>1 DEF Sifted
  <2>. HIDE DEF Step
  <2>. QED  BY <2>1, <2>2
<1>3. PICK g : g = [n \in 0 .. Len(s) |-> Step(g, n)] /\ Of(kind, s) = g[Len(s)]
  BY <1>2, Zenon DEF Of
<1>4. ASSUME NEW k \in 0 .. Len(s) PROVE g[k] = Step(g, k)
  <2>. HIDE DEF Step
  <2>. QED  BY <1>3
<1>5. ASSUME NEW k \in 1 .. Len(s)
      PROVE  g[k] = IF s[k][1] = kind THEN Append(g[k - 1], s[k]) ELSE g[k - 1]
  <2>1. k \in 0 .. Len(s) /\ k # 0
    OBVIOUS
  <2>2. g[k] = Step(g, k)
    BY <1>4, <2>1, Zenon
  <2>. QED  BY <2>1, <2>2, Zenon
<1>. DEFINE S == {n \in Nat : n <= Len(s) => g[n] \in Seq(Word)}
<1>6. 0 \in S
  BY <1>3
<1>7. ASSUME NEW n \in Nat, n \in S PROVE n + 1 \in S
  <2>. SUFFICES ASSUME n + 1 <= Len(s) PROVE g[n + 1] \in Seq(Word)
    OBVIOUS
  <2>1. g[n + 1] = IF s[n + 1][1] = kind THEN Append(g[n], s[n + 1]) ELSE g[n]
    <3>1. n + 1 \in 1 .. Len(s) /\ (n + 1) - 1 = n
      OBVIOUS
    <3>. QED  BY <1>5, <3>1
  <2>2. g[n] \in Seq(Word) /\ s[n + 1] \in Word
    BY <1>7
  <2>3. Append(g[n], s[n + 1]) \in Seq(Word)
    BY <2>2
  <2>. QED  BY <2>1, <2>2, <2>3
<1>8. \A n \in Nat : n \in S
  <2>. HIDE DEF S
  <2>. QED  BY <1>6, <1>7, SetInduction
<1>9. Sifted(kind, s, Len(s), g)
  <2>1. \A n \in 0 .. Len(s) : g[n] \in Seq(Word)
    BY <1>8
  <2>2. g[0] = << >>
    BY <1>3
  <2>3. \A k \in 1 .. Len(s) :
          g[k] = IF s[k][1] = kind THEN Append(g[k - 1], s[k]) ELSE g[k - 1]
    BY <1>5
  <2>4. DOMAIN g = 0 .. Len(s) /\ g = [n \in DOMAIN g |-> g[n]]
    BY <1>3
  <2>. HIDE <1>3
  <2>5. g \in [0 .. Len(s) -> Seq(Word)]
    BY <2>1, <2>4
  <2>. QED  BY <2>2, <2>3, <2>5 DEF Sifted
<1>. QED  BY <1>3, <1>9

LEMMA OfEmpty == \A kind : Of(kind, << >>) = << >>
<1>. TAKE kind
<1>1. << >> \in Seq(Word) /\ Len(<< >>) = 0
  OBVIOUS
<1>2. PICK f : Sifted(kind, << >>, 0, f) /\ Of(kind, << >>) = f[0]
  BY <1>1, OfSifted
<1>. QED  BY <1>2 DEF Sifted

LEMMA OfIs == ASSUME NEW kind, NEW s \in Seq(Word) PROVE Of(kind, s) \in Seq(Word)
<1>1. PICK f : Sifted(kind, s, Len(s), f) /\ Of(kind, s) = f[Len(s)]
  BY OfSifted
<1>. QED  BY <1>1 DEF Sifted

LEMMA OfAppend ==
  ASSUME NEW kind, NEW s \in Seq(Word), NEW v \in Word
  PROVE  Of(kind, Append(s, v)) = IF v[1] = kind THEN Append(Of(kind, s), v) ELSE Of(kind, s)
<1>. DEFINE t == Append(s, v)
<1>1. /\ t \in Seq(Word) /\ Len(t) = Len(s) + 1 /\ t[Len(s) + 1] = v
      /\ \A k \in 1 .. Len(s) : s[k] = t[k]
  OBVIOUS
<1>. HIDE DEF t
<1>2. PICK f : Sifted(kind, s, Len(s), f) /\ Of(kind, s) = f[Len(s)]
  BY OfSifted
<1>3. PICK g : Sifted(kind, t, Len(t), g) /\ Of(kind, t) = g[Len(t)]
  BY <1>1, OfSifted
<1>4. Len(s) \in Nat
  OBVIOUS
<1>5. f[Len(s)] = g[Len(s)]
  <2>1. Len(s) <= Len(s) /\ Len(s) <= Len(t)
    BY <1>1, <1>4
  <2>. QED  BY <1>1, <1>2, <1>3, <1>4, <2>1, SiftedAgree
<1>6. g[Len(t)] = IF t[Len(t)][1] = kind THEN Append(g[Len(t) - 1], t[Len(t)]) ELSE g[Len(t) - 1]
  <2>1. Len(t) \in 1 .. Len(t)
    BY <1>1, <1>4
  <2>. QED  BY <1>3, <2>1 DEF Sifted
<1>7. Len(t) - 1 = Len(s)
  BY <1>1, <1>4
<1>. QED  BY <1>1, <1>2, <1>3, <1>5, <1>6, <1>7 DEF t

-----------------------------------------------------------------------------
(* Every word once *)

Nums(s) == Numbers(Of("input", s))

(* A number larger than all before it. *)
LEMMA Grown ==
  ASSUME NEW s \in Seq(Word), NEW m \in Nat, Increasing(Nums(s)), ToSet(Nums(s)) \subseteq 1 .. m - 1
  PROVE  /\ Increasing(Nums(Append(s, Input(m))))
         /\ ToSet(Nums(Append(s, Input(m)))) = ToSet(Nums(s)) \cup {m}
<1>. DEFINE o == Of("input", s)
            p == Nums(s)
            q == Nums(Append(s, Input(m)))
<1>1. o \in Seq(Word)
  BY OfIs
<1>2. Of("input", Append(s, Input(m))) = Append(o, Input(m))
  <2>1. Input(m) \in Word /\ Input(m)[1] = "input"
    BY Words, Tags
  <2>. QED  BY <2>1, OfAppend
<1>3. PICK n \in Nat : n = Len(o)
  BY <1>1
<1>4. DOMAIN p = 1 .. n
  BY <1>1, <1>3 DEF Nums, Numbers
<1>5. /\ DOMAIN q = 1 .. n + 1 /\ q[n + 1] = m
      /\ \A k \in 1 .. n : q[k] = p[k]
  <2>. HIDE DEF o
  <2>1. /\ DOMAIN Append(o, Input(m)) = 1 .. n + 1 /\ Append(o, Input(m))[n + 1] = Input(m)
        /\ \A k \in 1 .. n : Append(o, Input(m))[k] = o[k]
    BY <1>1, <1>3
  <2>2. q = [k \in 1 .. n + 1 |-> Append(o, Input(m))[k][2]]
    BY <1>2, <2>1 DEF Nums, Numbers
  <2>3. p = [k \in 1 .. n |-> o[k][2]]
    BY <1>1, <1>3 DEF Nums, Numbers, o
  <2>4. Input(m)[2] = m
    BY DEF Input
  <2>. QED  BY <2>1, <2>2, <2>3, <2>4
<1>. HIDE DEF p, q
<1>6. \A k \in 1 .. n : p[k] \in 1 .. m - 1
  BY <1>4 DEF ToSet, p
<1>7. Increasing(q)
  <2>. SUFFICES ASSUME NEW i \in 1 .. n + 1, NEW j \in 1 .. n + 1, i < j PROVE q[i] < q[j]
    BY <1>5 DEF Increasing
  <2>1. i \in 1 .. n /\ q[i] = p[i]
    BY <1>5
  <2>2. CASE j = n + 1
    BY <1>5, <1>6, <2>1, <2>2
  <2>3. CASE j # n + 1
    <3>1. j \in 1 .. n /\ q[j] = p[j]
      BY <1>5, <2>3
    <3>. QED  BY <1>4, <2>1, <3>1 DEF Increasing, p
  <2>. QED  BY <2>2, <2>3
<1>8. ToSet(q) = ToSet(p) \cup {m}
  <2>1. ASSUME NEW x \in ToSet(q) PROVE x \in ToSet(p) \cup {m}
    BY <1>4, <1>5 DEF ToSet
  <2>2. ToSet(p) \subseteq ToSet(q)
    <3>. SUFFICES ASSUME NEW k \in 1 .. n PROVE p[k] \in ToSet(q)
      BY <1>4 DEF ToSet
    <3>1. k \in 1 .. n + 1 /\ q[k] = p[k]
      BY <1>5
    <3>. QED  BY <1>5, <3>1 DEF ToSet
  <2>3. m \in ToSet(q)
    <3>1. n + 1 \in DOMAIN q
      BY <1>5
    <3>. QED  BY <1>5, <3>1 DEF ToSet
  <2>. QED  BY <2>1, <2>2, <2>3
<1>. QED  BY <1>7, <1>8 DEF p, q

(* One number may be on its way to be injected. *)
Valid ==
  /\ live["inj_TVALID"] \in {0, 1} /\ scratch["inj_TVALID"] \in {0, 1}
  /\ live["inj_TDATA"] \in Nat /\ scratch["inj_TDATA"] \in Nat
Pending == IF live["inj_TVALID"] = 1 THEN <<Injected(live["inj_TDATA"])>> ELSE << >>

(* What the code does is stronger than InjectOnce: it never gives up a     *)
(* word that was latched, withdrawn or not.                                *)
InjectWord == {"inject", "withdrawn"} \X Nat
InjectAll ==
  /\ injects \in Seq(InjectWord)
  /\ Len(PassedOn) = Len(injects)
  /\ \A i \in 1 .. Len(injects) : PassedOn[i][2] = injects[i][2]

Once == Valid /\ InputOnce /\ InjectAll

LEMMA PassedOnIs == PassedOn = Of("inject", accepted["out"]) \o Pending
BY DEF PassedOn, Pending

LEMMA AllIsOnce ==
  ASSUME IInv, Valid, InjectAll
  PROVE  InjectOnce
<1>. DEFINE place == [i \in DOMAIN PassedOn |-> i]
<1>1. DOMAIN PassedOn = 1 .. Len(injects) /\ DOMAIN injects = 1 .. Len(injects)
  <2>1. Of("inject", accepted["out"]) \in Seq(Word)
    BY OfIs DEF IInv, Egress, Writers
  <2>2. Pending \in Seq(Word)
    BY Words DEF Valid, Pending
  <2>3. PassedOn \in Seq(Word)
    BY <2>1, <2>2, PassedOnIs
  <2>. QED  BY <2>3 DEF InjectAll
<1>2. place \in [DOMAIN PassedOn -> DOMAIN injects]
  BY <1>1
<1>3. Increasing(place)
  BY DEF Increasing
<1>4. \A i \in DOMAIN place : PassedOn[i][2] = injects[place[i]][2]
  BY <1>1 DEF InjectAll
<1>5. \A j \in DOMAIN injects : \E i \in DOMAIN place : place[i] = j
  BY <1>1
<1>. HIDE DEF place
<1>. QED  BY <1>2, <1>3, <1>4, <1>5 DEF InjectOnce

LEMMA InitOnce == Init => Once
<1>. SUFFICES ASSUME Init PROVE Once
  OBVIOUS
<1>1. /\ accepted["out"] = << >> /\ accepted["log"] = << >> /\ pkt.in_log_packet = FALSE
      /\ injects = << >> /\ dropped = {} /\ next = 1
      /\ \A r \in Regs : live[r] = 0 /\ scratch[r] = 0
  BY DEF Init, Writers
<1>2. Valid
  BY <1>1 DEF Valid, Regs, Flags
<1>3. ToLog = << >>
  BY <1>1 DEF ToLog
<1>4. Numbers(<< >>) = << >>
  BY DEF Numbers
<1>5. InputOnce
  <2>1. Increasing(<< >>) /\ ToSet(<< >>) = {}
    BY DEF Increasing, ToSet
  <2>2. 1 .. next - 1 = {}
    BY <1>1
  <2>. QED  BY <1>1, <1>3, <1>4, <2>1, <2>2, OfEmpty DEF InputOnce
<1>6. InjectAll
  <2>1. Pending = << >>
    BY <1>1 DEF Regs, Flags, Pending
  <2>2. << >> \o << >> = << >>
    OBVIOUS
  <2>3. PassedOn = << >>
    BY <1>1, <2>1, <2>2, OfEmpty, PassedOnIs
  <2>. QED  BY <1>1, <2>3 DEF InjectAll
<1>. QED  BY <1>2, <1>5, <1>6 DEF Once

(* What does not touch them. *)
LEMMA InputKept ==
  ASSUME InputOnce, UNCHANGED <<dropped, next>>,
         Of("input", accepted'["out"]) = Of("input", accepted["out"]),
         Of("input", ToLog') = Of("input", ToLog)
  PROVE  InputOnce'
BY DEF InputOnce

LEMMA InjectKept ==
  ASSUME InjectAll, UNCHANGED injects, Pending' = Pending,
         Of("inject", accepted'["out"]) = Of("inject", accepted["out"])
  PROVE  InjectAll'
<1>1. PassedOn' = PassedOn
  BY DEF PassedOn, Pending
<1>. QED  BY <1>1 DEF InjectAll

LEMMA ValidKept ==
  ASSUME Valid, \A r \in Inject : live'[r] = live[r] /\ scratch'[r] = scratch[r]
  PROVE  Valid' /\ Pending' = Pending
BY DEF Valid, Pending, Inject

LEMMA OnceKept ==
  ASSUME Once, UNCHANGED <<accepted, pkt, dropped, next, injects, live>>,
         \A r \in Inject : scratch'[r] = scratch[r]
  PROVE  Once'
<1>1. ToLog' = ToLog
  BY DEF ToLog
<1>2. Valid' /\ Pending' = Pending
  BY ValidKept DEF Once
<1>. QED  BY <1>1, <1>2, InputKept, InjectKept DEF Once

LEMMA CheckOutOnce == IInv /\ Once /\ CheckOut => Once'
<1>. SUFFICES ASSUME IInv, Once, CheckOut PROVE Once'
  OBVIOUS
<1>. USE DEF CheckOut
<1>1. UNCHANGED <<scratch, pkt, injects, dropped, next>>
  BY DEF input
<1>2. CASE accepted' = accepted /\ live' = live
  BY <1>1, <1>2, OnceKept
<1>3. CASE /\ live["inj_TVALID"] = 1
           /\ HandOver("out", Injected(live["inj_TDATA"]))
           /\ live' = [live EXCEPT !["inj_TVALID"] = 0]
  <2>. DEFINE v == Injected(live["inj_TDATA"])
  <2>1. v \in Word /\ v[1] = "inject"
    BY Words DEF Once, Valid, Injected
  <2>. HIDE DEF v
  <2>2. /\ accepted'["out"] = Append(accepted["out"], v) /\ accepted'["log"] = accepted["log"]
        /\ accepted["out"] \in Seq(Word)
    BY <1>3 DEF HandOver, IInv, Egress, Writers, v
  <2>3. ToLog' = ToLog
    BY <1>1, <2>2 DEF ToLog
  <2>4. Of("input", accepted'["out"]) = Of("input", accepted["out"])
    BY <2>1, <2>2, OfAppend
  <2>5. InputOnce'
    BY <1>1, <2>3, <2>4, InputKept DEF Once
  <2>6. /\ live'["inj_TVALID"] = 0 /\ live'["inj_TDATA"] = live["inj_TDATA"]
    BY <1>3 DEF IInv, Registers, Regs, Flags
  <2>7. Valid'
    BY <1>1, <2>6 DEF Once, Valid
  <2>8. Of("inject", accepted'["out"]) = Append(Of("inject", accepted["out"]), v)
    BY <2>1, <2>2, OfAppend
  <2>9. InjectAll'
    <3>1. PassedOn = Of("inject", accepted["out"]) \o <<v>>
      BY <1>3, PassedOnIs DEF Pending, v
    <3>2. Of("inject", accepted["out"]) \in Seq(Word) /\ Of("inject", accepted'["out"]) \in Seq(Word)
      <4>1. accepted'["out"] \in Seq(Word)
        BY <2>1, <2>2
      <4>. QED  BY <2>2, <4>1, OfIs
    <3>3. Pending' = << >>
      BY <2>6 DEF Pending
    <3>4. PassedOn' = Of("inject", accepted'["out"]) \o << >>
      BY <3>3 DEF PassedOn, Pending
    <3>5. PassedOn' = PassedOn
      BY <2>1, <2>8, <3>1, <3>2, <3>4, AppendEmpty
    <3>. QED  BY <1>1, <3>5 DEF Once, InjectAll
  <2>. QED  BY <2>5, <2>7, <2>9 DEF Once
<1>4. \/ accepted' = accepted /\ live' = live
      \/ /\ live["inj_TVALID"] = 1
         /\ HandOver("out", Injected(live["inj_TDATA"]))
         /\ live' = [live EXCEPT !["inj_TVALID"] = 0]
  BY DEF KeepEgress
<1>. QED  BY <1>2, <1>3, <1>4

(* The log thread is given a word of a log or of a receipt that the loop   *)
(* holds; only a receipt's first word comes with a new one, and neither is *)
(* of the input.                                                           *)
LEMMA NextLogWordOnce ==
  ASSUME IInv, NextLogWord
  PROVE  /\ accepted'["out"] = accepted["out"]
         /\ Of("input", ToLog') = Of("input", ToLog)
<1>. USE DEF NextLogWord
<1>0. accepted["log"] \in Seq(Word) /\ accepted \in [Writers -> Seq(Word)] /\ {"out", "log"} = Writers
  BY DEF IInv, Egress, Writers
<1>1. CASE pkt.in_log_packet
  <2>1. /\ accepted'["log"] = Append(accepted["log"], pkt.log_data)
        /\ accepted'["out"] = accepted["out"] /\ ~ pkt'.in_log_packet
        /\ pkt.log_data \in Word
    BY <1>0, <1>1 DEF HandOver, IInv, Packet
  <2>2. ToLog = Append(accepted["log"], pkt.log_data)
    BY <1>0, <1>1, <2>1, AppendEmpty DEF ToLog
  <2>3. ToLog' = Append(accepted["log"], pkt.log_data)
    <3>1. Append(accepted["log"], pkt.log_data) \in Seq(Word)
      BY <1>0, <2>1
    <3>2. ToLog' = Append(accepted["log"], pkt.log_data) \o << >>
      BY <2>1 DEF ToLog
    <3>. QED  BY <2>1, <3>1, <3>2, AppendEmpty
  <2>. QED  BY <2>1, <2>2, <2>3
<1>2. CASE ~ pkt.in_log_packet /\ receipt # None
  <2>1. /\ accepted'["log"] = Append(accepted["log"], ReceiptHeader)
        /\ accepted'["out"] = accepted["out"] /\ pkt'.in_log_packet /\ pkt'.log_data = receipt
        /\ receipt \in Word /\ receipt[1] = "answer"
    BY <1>0, <1>2 DEF HandOver, IInv, Packet
  <2>. DEFINE s == Append(accepted["log"], ReceiptHeader)
  <2>2. s \in Seq(Word) /\ ReceiptHeader \in Word /\ ReceiptHeader[1] # "input"
    BY <1>0, Words, Tags
  <2>3. ToLog = accepted["log"]
    BY <1>0, <1>2, Words, AppendEmpty DEF ToLog
  <2>4. Of("input", s) = Of("input", accepted["log"])
    BY <1>0, <2>2, OfAppend
  <2>. HIDE DEF s
  <2>5. ToLog' = Append(s, receipt)
    <3>1. ToLog' = s \o <<receipt>>
      BY <2>1 DEF ToLog, s
    <3>. QED  BY <2>1, <2>2, <3>1, AppendEmpty
  <2>6. receipt[1] # "input"
    BY <2>1
  <2>7. Of("input", Append(s, receipt)) = Of("input", s)
    BY <2>1, <2>2, <2>6, OfAppend
  <2>. QED  BY <2>1, <2>3, <2>4, <2>5, <2>7
<1>3. CASE ~ pkt.in_log_packet /\ receipt = None
  BY <1>3 DEF KeepEgress, ToLog
<1>. QED  BY <1>1, <1>2, <1>3

LEMMA CheckLogOnce == IInv /\ Once /\ CheckLog => Once'
<1>. SUFFICES ASSUME IInv, Once, CheckLog PROVE Once'
  OBVIOUS
<1>1. UNCHANGED <<scratch, injects, dropped, next>>
  BY DEF CheckLog, input
<1>2. \A r \in Inject : live'[r] = live[r]
  <2>1. live' = live \/ live' = [live EXCEPT !["log_cnt"] = live["log_cnt"] - 1]
    BY DEF CheckLog
  <2>. QED  BY <2>1 DEF IInv, Registers, Regs, Flags, Inject
<1>3. Valid' /\ Pending' = Pending
  BY <1>1, <1>2, ValidKept DEF Once
<1>4. \/ NextLogWord
      \/ UNCHANGED <<accepted, pkt>>
  BY DEF CheckLog, KeepEgress
<1>5. /\ accepted'["out"] = accepted["out"]
      /\ Of("input", ToLog') = Of("input", ToLog)
  BY <1>4, NextLogWordOnce DEF ToLog
<1>. QED  BY <1>1, <1>3, <1>5, InputKept, InjectKept DEF Once

(* The word taken is larger than all before it. *)
LEMMA TakeInputOnce ==
  ASSUME IInv, Once, pc["main"] = "input", ReadyForInput, TakeInput, UNCHANGED <<scratch, injects>>
  PROVE  Once'
<1>1. /\ next \in Nat /\ next >= 1 /\ Input(next) \in Word /\ LogHeader \in Word
      /\ Input(next)[1] = "input" /\ LogHeader[1] # "input"
  BY Words, Tags, Parameters DEF IInv, Flagged
<1>2. /\ accepted["out"] \in Seq(Word) /\ accepted["log"] \in Seq(Word)
  BY DEF IInv, Egress, Writers
<1>3. /\ accepted'["out"] = IF CopyToOut THEN Append(accepted["out"], Input(next)) ELSE accepted["out"]
      /\ accepted'["log"] = IF CopyToLog THEN Append(accepted["log"], LogHeader) ELSE accepted["log"]
      /\ dropped' = IF ~ CopyToOut /\ ~ CopyToLog THEN dropped \cup {next} ELSE dropped
      /\ next' = next + 1
  BY DEF TakeInput, Copied, CopiedWord, Writers
<1>4. Valid' /\ Pending' = Pending
  <2>1. \A r \in Inject : live'[r] = live[r]
    BY DEF TakeInput, IInv, Registers, Regs, Inject, Counts
  <2>. QED  BY <2>1, ValidKept DEF Once
<1>5. InjectAll'
  <2>1. Of("inject", Append(accepted["out"], Input(next))) = Of("inject", accepted["out"])
    BY <1>1, <1>2, OfAppend
  <2>. QED  BY <1>3, <1>4, <2>1, InjectKept DEF Once
<1>. DEFINE op == Nums(accepted["out"])
            lp == Nums(ToLog)
<1>6. /\ Increasing(op) /\ Increasing(lp)
      /\ ToSet(op) \cup ToSet(lp) \cup dropped = 1 .. next - 1
      /\ (ToSet(op) \cup ToSet(lp)) \cap dropped = {}
  BY DEF Once, InputOnce, Nums
<1>7. /\ Increasing(Nums(accepted'["out"]))
      /\ ToSet(Nums(accepted'["out"])) = IF CopyToOut THEN ToSet(op) \cup {next} ELSE ToSet(op)
  <2>1. CASE CopyToOut
    <3>1. ToSet(op) \subseteq 1 .. next - 1
      BY <1>6
    <3>. QED  BY <1>1, <1>2, <1>3, <1>6, <2>1, <3>1, Grown
  <2>2. CASE ~ CopyToOut
    BY <1>3, <1>6, <2>2
  <2>. QED  BY <2>1, <2>2
<1>8. /\ Increasing(Nums(ToLog'))
      /\ ToSet(Nums(ToLog')) = IF CopyToLog THEN ToSet(lp) \cup {next} ELSE ToSet(lp)
  <2>1. CASE CopyToLog
    <3>. DEFINE s == Append(accepted["log"], LogHeader)
    <3>1. ~ pkt.in_log_packet
      BY <2>1 DEF ReadyForInput, IInv, Fresh
    <3>2. ToLog = accepted["log"]
      BY <1>1, <1>2, <3>1, AppendEmpty DEF ToLog
    <3>3. s \in Seq(Word) /\ Of("input", s) = Of("input", accepted["log"])
      BY <1>1, <1>2, OfAppend
    <3>4. Nums(s) = lp
      BY <3>2, <3>3 DEF Nums
    <3>5. ToLog' = s \o <<Input(next)>>
      <4>1. pkt'.in_log_packet /\ pkt'.log_data = Input(next)
        BY <2>1 DEF TakeInput
      <4>. QED  BY <1>3, <2>1, <4>1 DEF ToLog
    <3>. HIDE DEF s
    <3>6. ToLog' = Append(s, Input(next))
      BY <1>1, <3>3, <3>5, AppendEmpty
    <3>7. ToSet(Nums(s)) \subseteq 1 .. next - 1 /\ Increasing(Nums(s))
      BY <1>6, <3>4
    <3>. HIDE DEF lp
    <3>. QED  BY <1>1, <2>1, <3>3, <3>4, <3>6, <3>7, Grown
  <2>2. CASE ~ CopyToLog
    <3>1. ToLog' = ToLog
      BY <1>3, <2>2 DEF ToLog, TakeInput
    <3>. QED  BY <1>6, <2>2, <3>1
  <2>. QED  BY <2>1, <2>2
<1>9. InputOnce'
  <2>. DEFINE oq == Nums(accepted'["out"])
              lq == Nums(ToLog')
  <2>1. 1 .. next' - 1 = (1 .. next - 1) \cup {next} /\ next \notin 1 .. next - 1
    BY <1>1, <1>3
  <2>2. ToSet(oq) \cup ToSet(lq) \cup dropped' = 1 .. next' - 1
    <3>. HIDE DEF op, lp, oq, lq
    <3>. QED  BY <1>3, <1>6, <1>7, <1>8, <2>1 DEF oq, lq
  <2>3. (ToSet(oq) \cup ToSet(lq)) \cap dropped' = {}
    <3>. HIDE DEF op, lp, oq, lq
    <3>. QED  BY <1>3, <1>6, <1>7, <1>8, <2>1 DEF oq, lq
  <2>. QED  BY <1>7, <1>8, <2>2, <2>3 DEF InputOnce, Nums
<1>. QED  BY <1>4, <1>5, <1>9 DEF Once

LEMMA PollInputOnce ==
  ASSUME IInv, Once, NEW arrives \in BOOLEAN, PollInput(arrives)
  PROVE  Once'
<1>1. CASE (have \/ arrives) /\ ReadyForInput
  BY <1>1, TakeInputOnce DEF PollInput
<1>2. CASE ~ ((have \/ arrives) /\ ReadyForInput)
  <2>1. UNCHANGED <<accepted, pkt, dropped, next, injects, live, scratch>>
    BY <1>2 DEF PollInput, KeepInput, KeepEgress
  <2>. QED  BY <2>1, OnceKept
<1>. QED  BY <1>1, <1>2

(* An inject that finds the last one still waiting is refused whole. *)
LEMMA LatchOnce == IInv /\ Once /\ ReadCommand(LatchRegisters) => Once'
<1>. SUFFICES ASSUME IInv, Once, ReadCommand(LatchRegisters) PROVE Once'
  OBVIOUS
<1>1. /\ UNCHANGED <<scratch, accepted, pkt, dropped, next>>
      /\ live' = Latched
      /\ injects' = LatchedInjects
  BY DEF ReadCommand, LatchRegisters, Latch, input
<1>2. \A r \in Inject : live'[r] = IF live["inj_TVALID"] = 1 THEN live[r] ELSE scratch[r]
  BY <1>1 DEF Latched, Regs, Flags, Inject
<1>3. Valid'
  BY <1>1, <1>2 DEF Once, Valid, Inject
<1>4. InputOnce'
  <2>1. ToLog' = ToLog
    BY <1>1 DEF ToLog
  <2>. QED  BY <1>1, <2>1, InputKept DEF Once
<1>5. InjectAll'
  <2>. DEFINE sent == Of("inject", accepted["out"])
  <2>1. sent \in Seq(Word)
    BY OfIs DEF IInv, Egress, Writers
  <2>2. PassedOn = sent \o Pending /\ PassedOn' = sent \o Pending'
    BY <1>1 DEF PassedOn, Pending
  <2>3. /\ injects \in Seq(InjectWord) /\ Len(PassedOn) = Len(injects)
        /\ \A i \in 1 .. Len(injects) : PassedOn[i][2] = injects[i][2]
    BY DEF Once, InjectAll
  <2>. HIDE DEF sent
  <2>4. CASE live["inj_TVALID"] = 1
    <3>1. PassedOn' = PassedOn
      <4>1. Pending' = Pending
        BY <1>2, <2>4 DEF Pending, Inject
      <4>. QED  BY <2>2, <4>1
    <3>2. CASE scratch["inj_TVALID"] = 0
      <4>. DEFINE n == Len(injects)
      <4>1. n >= 1 /\ n \in Nat
        <5>. DEFINE v == Injected(live["inj_TDATA"])
        <5>1. v \in Word
          BY Words DEF Once, Valid
        <5>2. Pending = <<v>>
          BY <2>4 DEF Pending
        <5>. HIDE DEF v
        <5>3. Len(sent \o <<v>>) = Len(sent) + 1
          BY <2>1, <5>1
        <5>. QED  BY <2>1, <2>2, <2>3, <5>2, <5>3
      <4>2. injects' = [injects EXCEPT ![n] = Withdrawn(injects[n][2])]
        BY <1>1, <2>4, <3>2 DEF LatchedInjects
      <4>3. injects[n] \in InjectWord
        BY <2>3, <4>1
      <4>4. Withdrawn(injects[n][2]) \in InjectWord /\ Withdrawn(injects[n][2])[2] = injects[n][2]
        BY <4>3 DEF Withdrawn, InjectWord
      <4>. DEFINE w == Withdrawn(injects[n][2])
      <4>. HIDE DEF w
      <4>5. /\ injects' \in Seq(InjectWord) /\ Len(injects') = n
            /\ \A i \in 1 .. n : injects'[i] = IF i = n THEN w ELSE injects[i]
        <5>1. injects' = [injects EXCEPT ![n] = w] /\ w \in InjectWord
          BY <4>2, <4>4 DEF w
        <5>. QED  BY <2>3, <4>1, <5>1
      <4>6. \A i \in 1 .. n : injects'[i][2] = injects[i][2]
        BY <4>4, <4>5 DEF w
      <4>. QED  BY <2>3, <3>1, <4>5, <4>6 DEF InjectAll
    <3>3. CASE scratch["inj_TVALID"] # 0
      <4>1. injects' = injects
        BY <1>1, <2>4, <3>3 DEF LatchedInjects
      <4>. QED  BY <2>3, <3>1, <4>1 DEF InjectAll
    <3>. QED  BY <3>2, <3>3
  <2>5. CASE live["inj_TVALID"] = 0
    <3>1. Pending = << >>
      BY <2>5 DEF Pending
    <3>2. PassedOn = sent
      BY <2>1, <2>2, <3>1, Words, AppendEmpty
    <3>3. CASE scratch["inj_TVALID"] = 1
      <4>. DEFINE v == Injected(scratch["inj_TDATA"])
      <4>1. Pending' = <<v>>
        BY <1>2, <2>5, <3>3 DEF Pending, Inject
      <4>2. v \in Word /\ v \in InjectWord
        BY Words DEF Once, Valid, InjectWord, Injected
      <4>3. injects' = Append(injects, v)
        BY <1>1, <2>5, <3>3 DEF LatchedInjects
      <4>. HIDE DEF v
      <4>4. PassedOn' = Append(PassedOn, v)
        BY <2>1, <2>2, <3>2, <4>1, <4>2, AppendEmpty
      <4>5. /\ Len(injects') = Len(injects) + 1 /\ injects' \in Seq(InjectWord)
            /\ injects'[Len(injects) + 1] = v
            /\ \A i \in 1 .. Len(injects) : injects'[i] = injects[i]
        BY <2>3, <4>2, <4>3
      <4>6. /\ Len(PassedOn') = Len(injects) + 1
            /\ PassedOn'[Len(injects) + 1] = v
            /\ \A i \in 1 .. Len(injects) : PassedOn'[i] = PassedOn[i]
        <5>1. PassedOn \in Seq(Word)
          BY <2>1, <3>2
        <5>. QED  BY <2>3, <4>2, <4>4, <5>1
      <4>. QED  BY <2>3, <4>5, <4>6 DEF InjectAll
    <3>4. CASE scratch["inj_TVALID"] # 1
      <4>1. Pending' = << >>
        BY <1>2, <2>5, <3>4 DEF Pending, Inject
      <4>2. injects' = injects
        BY <1>1, <2>5, <3>4 DEF LatchedInjects
      <4>3. PassedOn' = PassedOn
        BY <2>1, <2>2, <3>2, <4>1, Words, AppendEmpty
      <4>. QED  BY <2>3, <4>2, <4>3 DEF InjectAll
    <3>. QED  BY <3>3, <3>4
  <2>. QED  BY <2>4, <2>5 DEF Once, Valid
<1>. QED  BY <1>3, <1>4, <1>5 DEF Once

LEMMA SetRegisterOnce ==
  ASSUME IInv, Once, NEW r \in Regs, NEW v \in Values(r), ReadCommand(SetRegister(r, v))
  PROVE  Once'
<1>1. /\ UNCHANGED <<live, accepted, pkt, dropped, next, injects>>
      /\ scratch' = [scratch EXCEPT ![r] = v]
  BY DEF ReadCommand, SetRegister, input
<1>2. Valid'
  <2>1. r \in Inject => v \in {0, 1}
    BY DEF Values, Inject, Counts
  <2>2. \A u \in Inject : scratch'[u] = IF u = r THEN v ELSE scratch[u]
    BY <1>1 DEF IInv, Registers, Regs, Flags, Inject
  <2>. QED  BY <1>1, <2>1, <2>2 DEF Once, Valid, Inject
<1>3. ToLog' = ToLog /\ Pending' = Pending
  BY <1>1 DEF ToLog, Pending
<1>. QED  BY <1>1, <1>2, <1>3, InputKept, InjectKept DEF Once

LEMMA StepOnce == IInv /\ Once /\ [Next]_vars => Once'
<1>. SUFFICES ASSUME IInv, Once, [Next]_vars PROVE Once'
  OBVIOUS
<1>1. CASE Main
  <2>1. ASSUME NEW arrives \in BOOLEAN, PollInput(arrives) PROVE Once'
    BY <2>1, PollInputOnce
  <2>2. CASE ReadCommand(NoCommand)
    BY <2>2, OnceKept DEF ReadCommand, NoCommand, regs, input
  <2>3. CASE Join
    BY <2>3, OnceKept DEF Join, regs, input, history
  <2>. QED  BY <1>1, <2>1, <2>2, <2>3, CheckOutOnce, CheckLogOnce DEF Main
<1>2. CASE Commanded
  <2>1. ASSUME NEW r \in Asked, NEW v \in Values(r), ReadCommand(SetRegister(r, v)) PROVE Once'
    <3>1. r \in Regs
      BY Parameters
    <3>. QED  BY <2>1, <3>1, SetRegisterOnce
  <2>. QED  BY <1>2, <2>1, LatchOnce DEF Commanded
<1>3. CASE Leave
  BY <1>3, OnceKept DEF Leave, regs, input, history
<1>4. ASSUME NEW w \in Writers, Writer(w) PROVE Once'
  <2>1. UNCHANGED <<accepted, pkt, dropped, next, injects, live, scratch>>
    BY <1>4 DEF Writer, Check, Write, WriteFails, Report, Clear, egress, regs, input, history
  <2>. QED  BY <2>1, OnceKept
<1>5. CASE UNCHANGED vars
  BY <1>5, OnceKept DEF vars, regs, input, history
<1>. QED  BY <1>1, <1>2, <1>3, <1>4, <1>5 DEF Next

LEMMA AlwaysOnce == Spec => []Once
<1>1. IInv /\ Once /\ [Next]_vars => Once'
  BY StepOnce
<1>. QED  BY InitOnce, <1>1, GuvInvariant, PTL DEF Spec

(* Every word of the input is copied to the output, to the log or to both, *)
(* or is dropped, each once and in order, whatever the counts and the      *)
(* threads do.                                                             *)
THEOREM InputCopiedOnce == Spec => []InputOnce
<1>1. Once => InputOnce
  BY DEF Once
<1>. QED  BY <1>1, AlwaysOnce, PTL

(* Every word latched for injection is handed to the output once, in the   *)
(* order of the LATCH commands, or still waits; of a word that waited when *)
(* a LATCH came without one, nothing is claimed.                           *)
THEOREM InjectedOnce == Spec => []InjectOnce
<1>1. IInv /\ Once => InjectOnce
  BY AllIsOnce DEF Once
<1>. QED  BY <1>1, AlwaysOnce, GuvInvariant, PTL
=============================================================================
