------------------------------ MODULE FakeGuv -------------------------------
(***************************************************************************)
(* The software model of a dbg_guv (src/fake_dbg_guv.c): a main loop that  *)
(* takes words from its input and commands from its command pipe, and      *)
(* word_writer threads that write what the loop leaves in their            *)
(* egress_args.  A word is a tuple; reads that end inside a word are left  *)
(* out, as the loop does nothing before the word is whole; so is the third *)
(* writer thread, of the daisy chain, whose egress_args the loop only ever *)
(* overwrites.                                                             *)
(***************************************************************************)
EXTENDS Naturals, Sequences, SequencesExt

CONSTANTS Inputs,    \* bound: words given to the input
          Latches,   \* bound: LATCH commands for this dbg_guv
          MaxCount,  \* bound: largest log_cnt and drop_cnt the commands ask for
          Asked      \* the registers the commands write to

VARIABLES
  pc,             \* of the main loop and of each writer
  to_send, vld, val_sent, stop,  \* egress_args, by writer
  copy,           \* local_copy of each writer
  wire,           \* what each writer has written
  output_ready, log_ready,
  live, scratch,  \* the registers, and their _r copies
  pkt,            \* in_log_packet, log_data, is_receipt
  receipt,        \* receipt_vld, receipt_data
  next,           \* the next input word, and whether it is in input_buf
  have,
  latches,
  accepted,       \* history: what the main loop handed to each writer
  injects,        \* history: the words latched for injection; withdrawn if a
                  \* LATCH without one came while it was waiting
  dropped,        \* history: the input words copied nowhere
  quota           \* history: words the latched log_cnt still lets into the log

egress == <<to_send, vld, val_sent, stop>>
writer == <<copy, wire>>
ready == <<output_ready, log_ready>>
regs == <<live, scratch>>
input == <<next, have>>
history == <<accepted, injects, dropped, quota>>
vars == <<pc, egress, writer, ready, regs, pkt, receipt, input, latches, history>>

Writers == {"out", "log"}
Flags == {"keep_dropping", "keep_logging", "keep_pausing", "inj_TVALID"}
Counts == {"drop_cnt", "log_cnt"}
Inject == {"inj_TVALID", "inj_TDATA"}
Regs == Flags \cup Counts \cup {"inj_TDATA"}

ASSUME FakeGuvAssumption ==
  /\ {Inputs, Latches, MaxCount} \subseteq Nat
  /\ Asked \subseteq Regs

None == << >>
Input(i) == <<"input", i>>
Injected(v) == <<"inject", v>>
Withdrawn(v) == <<"withdrawn", v>>
LogHeader == <<"header", "log">>
ReceiptHeader == <<"header", "receipt">>
Answer(failed) == <<"answer", failed>>

Goto(t, l) == pc' = [pc EXCEPT ![t] = l]

-----------------------------------------------------------------------------
(* word_writer *)

(* The first critical section.  With nothing to send the thread yields.    *)
Check(w) ==
  /\ pc[w] = "check"
  /\ \/ stop[w] /\ Goto(w, "stopped") /\ UNCHANGED copy
     \/ /\ ~ stop[w] /\ vld[w]
        /\ copy' = [copy EXCEPT ![w] = to_send[w]]
        /\ Goto(w, "write")
  /\ UNCHANGED <<egress, wire, ready, regs, pkt, receipt, input, latches, history>>

(* The write(), outside the lock. *)
Write(w) ==
  /\ pc[w] = "write"
  /\ wire' = [wire EXCEPT ![w] = Append(@, copy[w])]
  /\ Goto(w, "report")
  /\ UNCHANGED <<egress, copy, ready, regs, pkt, receipt, input, latches, history>>

(* It fails, and the thread says so and ends. *)
WriteFails(w) ==
  /\ pc[w] = "write"
  /\ stop' = [stop EXCEPT ![w] = TRUE]
  /\ Goto(w, "stopped")
  /\ UNCHANGED <<to_send, vld, val_sent, writer, ready, regs, pkt, receipt, input, latches,
                  history>>

Report(w) ==
  /\ pc[w] = "report"
  /\ vld' = [vld EXCEPT ![w] = FALSE]
  /\ val_sent' = [val_sent EXCEPT ![w] = TRUE]
  /\ Goto(w, "clear")
  /\ UNCHANGED <<to_send, stop, writer, ready, regs, pkt, receipt, input, latches, history>>

(* extra_rc is indeterminate, as there was no second word: the thread may  *)
(* take it for an error and end.                                           *)
Clear(w) ==
  /\ pc[w] = "clear"
  /\ copy' = [copy EXCEPT ![w] = None]
  /\ \/ stop' = [stop EXCEPT ![w] = TRUE] /\ Goto(w, "stopped")
     \/ UNCHANGED stop /\ Goto(w, "check")
  /\ UNCHANGED <<to_send, vld, val_sent, wire, ready, regs, pkt, receipt, input, latches, history>>

Writer(w) == Check(w) \/ Write(w) \/ WriteFails(w) \/ Report(w) \/ Clear(w)

-----------------------------------------------------------------------------
(* The main loop, one critical section after the other *)

(* "Try to properly close out the threads" *)
StopThreads == stop' = [stop EXCEPT !["out"] = TRUE, !["log"] = TRUE]
LeaveLoop == StopThreads /\ Goto("main", "joining")

HandOver(w, v) ==
  /\ to_send' = [to_send EXCEPT ![w] = v]
  /\ vld' = [vld EXCEPT ![w] = TRUE]
  /\ accepted' = [accepted EXCEPT ![w] = Append(@, v)]
KeepEgress == UNCHANGED <<to_send, vld, accepted>>

(* "Check up on output thread" *)
CheckOut ==
  /\ pc["main"] = "out"
  /\ \/ stop["out"] /\ LeaveLoop /\ KeepEgress /\ UNCHANGED <<live, output_ready>>
     \/ /\ ~ stop["out"] /\ UNCHANGED stop
        /\ Goto("main", "log")
        /\ output_ready' = (~ vld["out"] /\ live["inj_TVALID"] = 0)
        /\ IF ~ vld["out"] /\ live["inj_TVALID"] = 1
           THEN HandOver("out", Injected(live["inj_TDATA"])) /\ live' = [live EXCEPT !["inj_TVALID"] = 0]
           ELSE KeepEgress /\ UNCHANGED live
  /\ UNCHANGED <<val_sent, writer, log_ready, scratch, pkt, receipt, input, latches,
                  injects, dropped, quota>>

(* A log is counted once, when its second word has been sent. *)
CountEvenAtZero == ~ pkt.is_receipt /\ ~ pkt.in_log_packet
CountReceipts == live["log_cnt"] > 0 /\ ~ pkt.in_log_packet
LogWasSent == live["log_cnt"] > 0 /\ ~ pkt.is_receipt /\ ~ pkt.in_log_packet

(* A receipt does not wait for the second word of a log. *)
ReceiptFirst ==
  IF receipt # None
  THEN /\ HandOver("log", ReceiptHeader)
       /\ pkt' = [in_log_packet |-> TRUE, log_data |-> receipt, is_receipt |-> TRUE]
       /\ receipt' = None
       /\ log_ready' = FALSE
  ELSE IF pkt.in_log_packet
  THEN /\ HandOver("log", pkt.log_data)
       /\ pkt' = [pkt EXCEPT !.in_log_packet = FALSE]
       /\ log_ready' = FALSE /\ UNCHANGED receipt
  ELSE log_ready' = TRUE /\ KeepEgress /\ UNCHANGED <<pkt, receipt>>

NextLogWord ==
  IF pkt.in_log_packet
  THEN /\ HandOver("log", pkt.log_data)
       /\ pkt' = [pkt EXCEPT !.in_log_packet = FALSE]
       /\ log_ready' = FALSE /\ UNCHANGED receipt
  ELSE IF receipt # None
  THEN /\ HandOver("log", ReceiptHeader)
       /\ pkt' = [in_log_packet |-> TRUE, log_data |-> receipt, is_receipt |-> TRUE]
       /\ receipt' = None
       /\ log_ready' = FALSE
  ELSE log_ready' = TRUE /\ KeepEgress /\ UNCHANGED <<pkt, receipt>>

(* "Check up on log thread" *)
CheckLog ==
  /\ pc["main"] = "log"
  /\ \/ /\ stop["log"]
        /\ LeaveLoop
        /\ KeepEgress
        /\ UNCHANGED <<val_sent, live, log_ready, pkt, receipt>>
     \/ /\ ~ stop["log"] /\ UNCHANGED stop
        /\ Goto("main", "input")
        /\ val_sent' = [val_sent EXCEPT !["log"] = FALSE]
        /\ live' = IF val_sent["log"] /\ LogWasSent THEN [live EXCEPT !["log_cnt"] = @ - 1] ELSE live
        /\ IF vld["log"]
           THEN log_ready' = FALSE /\ KeepEgress /\ UNCHANGED <<pkt, receipt>>
           ELSE NextLogWord
  /\ UNCHANGED <<writer, output_ready, scratch, input, latches, injects, dropped, quota>>

CopyToLog == live["log_cnt"] > 0 \/ live["keep_logging"] = 1
CopyToOut == live["log_cnt"] = 0 /\ live["keep_dropping"] = 0

(* The output is not waited for. *)
HastyReadyForInput ==
  /\ CopyToLog => log_ready
  /\ live["keep_pausing"] = 1 => live["log_cnt"] > 0 \/ live["drop_cnt"] > 0
ReadyForInput ==
  /\ CopyToOut => output_ready
  /\ CopyToLog => log_ready
  /\ live["keep_pausing"] = 1 => live["log_cnt"] > 0 \/ live["drop_cnt"] > 0

(* The input is copied to the output, the log, both or neither. *)
Copied == (IF CopyToOut THEN {"out"} ELSE {}) \cup (IF CopyToLog THEN {"log"} ELSE {})
CopiedWord == [w \in Writers |-> IF w = "out" THEN Input(next) ELSE LogHeader]
TakeInput ==
  /\ to_send' = [w \in Writers |-> IF w \in Copied THEN CopiedWord[w] ELSE to_send[w]]
  /\ vld' = [w \in Writers |-> w \in Copied \/ vld[w]]
  /\ accepted' = [w \in Writers |-> IF w \in Copied THEN Append(accepted[w], CopiedWord[w]) ELSE accepted[w]]
  /\ live' = IF ~ CopyToOut /\ live["drop_cnt"] > 0 THEN [live EXCEPT !["drop_cnt"] = @ - 1] ELSE live
  /\ IF CopyToLog
     THEN /\ pkt' = [in_log_packet |-> TRUE, log_data |-> Input(next), is_receipt |-> FALSE]
          /\ val_sent' = [val_sent EXCEPT !["log"] = FALSE]
     ELSE UNCHANGED <<pkt, val_sent>>
  /\ dropped' = IF Copied = {} THEN dropped \cup {next} ELSE dropped
  /\ quota' = IF live["log_cnt"] > 0 THEN quota - 1 ELSE quota
  /\ next' = next + 1
  /\ have' = FALSE
(* A word that cannot be taken is not kept. *)
LoseInput(full) ==
  /\ have' = FALSE
  /\ next' = IF full THEN next + 1 ELSE next
  /\ KeepEgress
  /\ UNCHANGED <<live, pkt, val_sent, dropped, quota>>
KeepInput(full) ==
  /\ have' = full
  /\ KeepEgress
  /\ UNCHANGED <<live, pkt, val_sent, dropped, quota, next>>

(* Poll and read the input when the buffer is not full, then take it if    *)
(* every place it is copied to is free.                                    *)
PollInput(arrives) ==
  /\ pc["main"] = "input"
  /\ arrives => ~ have /\ next <= Inputs
  /\ Goto("main", "cmd")
  /\ IF (have \/ arrives) /\ ReadyForInput THEN TakeInput ELSE KeepInput(have \/ arrives)
  /\ UNCHANGED <<stop, writer, ready, scratch, receipt, latches, injects>>

LogInProgress == ~ pkt.is_receipt /\ (pkt.in_log_packet \/ vld["log"] \/ val_sent["log"])

(* The registers of an inject still waiting are overwritten. *)
ClobberInject == scratch
(* LATCH: the scratch registers come into force, but for those of an       *)
(* inject that finds the last one still waiting.                           *)
Latched == [r \in Regs |-> IF live["inj_TVALID"] = 1 /\ r \in Inject THEN live[r] ELSE scratch[r]]
LatchedInjects ==
  CASE live["inj_TVALID"] = 0 /\ scratch["inj_TVALID"] = 1 ->
         Append(injects, Injected(scratch["inj_TDATA"]))
    [] live["inj_TVALID"] = 1 /\ scratch["inj_TVALID"] = 0 ->
         [injects EXCEPT ![Len(injects)] = Withdrawn(@[2])]
    [] OTHER -> injects
Latch ==
  /\ live' = Latched
  /\ receipt' = Answer(live["inj_TVALID"] = 1)
  /\ injects' = LatchedInjects
  /\ quota' = IF LogInProgress /\ scratch["log_cnt"] > 0 THEN scratch["log_cnt"] - 1 ELSE scratch["log_cnt"]

(* Poll and read the command pipe.  However the reads cut it, nothing is   *)
(* done before a command is whole, and one command is obeyed in a turn of  *)
(* the loop.  A command for another dbg_guv changes nothing here.          *)
NoCommand ==
  UNCHANGED <<regs, receipt, injects, quota, latches>>
SetRegister(r, v) ==
  /\ scratch' = [scratch EXCEPT ![r] = v]
  /\ UNCHANGED <<live, receipt, injects, quota, latches>>
LatchRegisters ==
  /\ latches < Latches
  /\ latches' = latches + 1
  /\ Latch
  /\ UNCHANGED scratch
Values(r) == IF r \in Counts THEN 0 .. MaxCount ELSE {0, 1}
ReadCommand(obey) ==
  /\ pc["main"] = "cmd"
  /\ Goto("main", "out")
  /\ output_ready' = FALSE /\ log_ready' = FALSE
  /\ obey
  /\ UNCHANGED <<egress, writer, pkt, input, accepted, dropped>>

(* The signal handler set stop, or a pipe was closed at the other end.     *)
Leave ==
  /\ \/ pc["main"] \in {"out", "cmd"}
     \/ pc["main"] = "input" /\ ~ have
  /\ LeaveLoop
  /\ UNCHANGED <<to_send, vld, val_sent, writer, ready, regs, pkt, receipt, input, latches,
                  history>>

(* The thread of the chain is not waited for. *)
Join ==
  /\ pc["main"] = "joining"
  /\ pc["out"] = "stopped" /\ pc["log"] = "stopped"
  /\ Goto("main", "done")
  /\ UNCHANGED <<egress, writer, ready, regs, pkt, receipt, input, latches, history>>

Main ==
  \/ CheckOut
  \/ CheckLog
  \/ \E arrives \in BOOLEAN : PollInput(arrives)
  \/ ReadCommand(NoCommand)
  \/ Join

-----------------------------------------------------------------------------
Init ==
  /\ pc = [t \in Writers \cup {"main"} |-> IF t = "main" THEN "out" ELSE "check"]
  /\ to_send = [w \in Writers |-> None]
  /\ vld = [w \in Writers |-> FALSE]
  /\ val_sent = [w \in Writers |-> FALSE]
  /\ stop = [w \in Writers |-> FALSE]
  /\ copy = [w \in Writers |-> None]
  /\ wire = [w \in Writers |-> << >>]
  /\ output_ready = FALSE /\ log_ready = FALSE
  /\ live = [r \in Regs |-> 0] /\ scratch = [r \in Regs |-> 0]
  /\ pkt = [in_log_packet |-> FALSE, log_data |-> None, is_receipt |-> FALSE]
  /\ receipt = None
  /\ next = 1 /\ have = FALSE
  /\ latches = 0
  /\ accepted = [w \in Writers |-> << >>]
  /\ injects = << >>
  /\ dropped = {}
  /\ quota = 0

Commanded ==
  \/ \E r \in Asked : \E v \in Values(r) : ReadCommand(SetRegister(r, v))
  \/ ReadCommand(LatchRegisters)

Next == Main \/ Commanded \/ Leave \/ \E w \in Writers : Writer(w)

Spec == Init /\ [][Next]_vars

-----------------------------------------------------------------------------
TypeOK ==
  /\ pc["main"] \in {"out", "log", "input", "cmd", "joining", "done"}
  /\ \A w \in Writers :
       /\ pc[w] \in {"check", "write", "report", "clear", "stopped"}
       /\ {vld[w], val_sent[w], stop[w]} \subseteq BOOLEAN
  /\ live \in [Regs -> 0 .. MaxCount + 1]
  /\ scratch \in [Regs -> 0 .. MaxCount + 1]
  /\ {pkt.in_log_packet, pkt.is_receipt, output_ready, log_ready, have} \subseteq BOOLEAN
  /\ next \in 1 .. Inputs + 1
  /\ latches \in 0 .. Latches
  /\ quota \in 0 .. MaxCount

(* "Once a value is written into to_send, it is considered sent": what the *)
(* loop hands to the output and log threads is written once and in order,  *)
(* although it is written outside the lock and the flag is cleared later.  *)
Unwritten(w) == IF vld[w] /\ pc[w] # "report" THEN <<to_send[w]>> ELSE << >>
HandedOver == \A w \in Writers : accepted[w] = wire[w] \o Unwritten(w)

(* Words go to the log in pairs, a header and its data, and no receipt     *)
(* comes between the two words of a log or the other way round.            *)
PairMatches(h, d) ==
  \/ h = LogHeader /\ d[1] = "input"
  \/ h = ReceiptHeader /\ d[1] = "answer"
LogFramed ==
  \A i \in DOMAIN wire["log"] :
    IF i % 2 = 1
    THEN wire["log"][i][1] = "header"
    ELSE PairMatches(wire["log"][i - 1], wire["log"][i])

(* The count that a LATCH brings is used up by exactly that many logs,     *)
(* counting the one that was on its way when it came: none is counted      *)
(* twice, or not at all, for having two words or for receipts in between.  *)
LogCountExact ==
  live["log_cnt"] = quota + (IF LogInProgress /\ live["log_cnt"] > 0 THEN 1 ELSE 0)

(* Every word of the input is copied to the output or to the log, or is    *)
(* dropped, in order and once each.                                        *)
Numbers(s) == [i \in DOMAIN s |-> s[i][2]]
Of(kind, s) ==
  LET of[n \in 0 .. Len(s)] ==
        IF n = 0 THEN << >>
        ELSE IF s[n][1] = kind THEN Append(of[n - 1], s[n]) ELSE of[n - 1]
  IN  of[Len(s)]
Increasing(s) == \A i, j \in DOMAIN s : i < j => s[i] < s[j]
ToLog == accepted["log"] \o (IF pkt.in_log_packet THEN <<pkt.log_data>> ELSE << >>)
InputOnce ==
  LET output == Numbers(Of("input", accepted["out"]))
      logged == Numbers(Of("input", ToLog))
  IN  /\ Increasing(output) /\ Increasing(logged)
      /\ ToSet(output) \cup ToSet(logged) \cup dropped = 1 .. next - 1
      /\ (ToSet(output) \cup ToSet(logged)) \cap dropped = {}

(* Every word that a LATCH injects is handed to the output once and in     *)
(* order, or still waits, whatever is latched meanwhile.  What becomes of  *)
(* a word that waits when a LATCH comes with inj_TVALID 0 is left open:    *)
(* the comment on the LATCH and its code disagree on it.                   *)
PassedOn ==
  Of("inject", accepted["out"])
  \o (IF live["inj_TVALID"] = 1 THEN <<Injected(live["inj_TDATA"])>> ELSE << >>)
InjectOnce ==
  \E place \in [DOMAIN PassedOn -> DOMAIN injects] :
    /\ Increasing(place)
    /\ \A i \in DOMAIN place : PassedOn[i][2] = injects[place[i]][2]
    /\ \A j \in DOMAIN injects :
         injects[j][1] = "inject" => \E i \in DOMAIN place : place[i] = j

(* What that comment says: the waiting word gives way to a LATCH with      *)
(* inj_TVALID 0.                                                           *)
GivesWay ==
  [][latches' # latches /\ scratch["inj_TVALID"] = 0 => live'["inj_TVALID"] = 0]_vars
=============================================================================
