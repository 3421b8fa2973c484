------------------------------ MODULE RxStream ------------------------------
(***************************************************************************)
(* The receive side of one FPGA connection (read_fpga_connection in        *)
(* src/dbg_guv.c).  The FPGA sends a stream of words: a receipt is one     *)
(* word, a log is a header that tells its own length, and data words.  The *)
(* socket cuts the stream after any byte; the read callback dispatches     *)
(* every whole packet and keeps a partial log for the next read.           *)
(***************************************************************************)
EXTENDS Naturals, Sequences

CONSTANTS W,           \* sizeof(uint32_t)
          BufSize,     \* FCI_BUF_SIZE: words in in_buf
          Kinds,       \* the packets the FPGA sends: [words, receipt, known]
          MaxPackets   \* bound: packets sent

ASSUME RxAssumption ==
  /\ {W, BufSize, MaxPackets} \subseteq Nat \ {0}
  /\ W <= BufSize
  /\ \A k \in Kinds : /\ k.words \in Nat \ {0}
                      /\ k.receipt \in BOOLEAN
                      /\ k.known \in BOOLEAN
                      /\ k.receipt => k.words = 1
                      /\ k.words + W <= BufSize + 1

VARIABLES sent,      \* history: the packets, numbered by their place
          stream,    \* history: their words
          got,       \* history: bytes read off the socket
          in_buf,    \* the words kept, or in the loop those from rd_pos on
          busy,      \* in the loop over the words of the buffer
          handled,   \* history: what was dispatched until the stream slipped
          torn,      \* history: a read began inside a word
          overran,   \* history: a log was skipped that was not all there
          open       \* the connection is open

vars == <<sent, stream, got, in_buf, busy, handled, torn, overran, open>>

(* Word i of the p-th packet, of kind k; known is whether its address is   *)
(* below MAX_GUVS_PER_FPGA.                                                *)
WordOf(k, p, i) == [packet |-> p, at |-> i, kind |-> k]
PacketWords(k, p) == [i \in 1 .. k.words |-> WordOf(k, p, i)]
(* Four bytes of two words. *)
Mixed == [packet |-> 0, at |-> 0]

-----------------------------------------------------------------------------
(* read() is asked for as many BYTES as there are words free, and returns  *)
(* some of the bytes that have arrived.                                    *)
Room == BufSize - Len(in_buf)
Unread == W * Len(stream) - got

(* The i-th whole word of a read. *)
ReadWord(i) == IF got % W = 0 THEN stream[got \div W + i] ELSE Mixed

(* A read that goes over the words kept. *)
ReadOver(n) ==
  /\ got' = got + n
  /\ in_buf' = [i \in 1 .. n \div W |-> ReadWord(i)]
  /\ busy' = (in_buf' # << >>)
  /\ torn' = (torn \/ got % W # 0)
  /\ UNCHANGED <<sent, stream, handled, overran, open>>

(* read_fpga_connection, up to its loop, when read() returns n.  The bytes *)
(* behind the last whole word are dropped.                                 *)
Read(n) ==
  /\ got' = got + n
  /\ in_buf' = in_buf \o [i \in 1 .. n \div W |-> ReadWord(i)]
  /\ busy' = (in_buf' # << >>)
  /\ torn' = (torn \/ got % W # 0)
  /\ UNCHANGED <<sent, stream, handled, overran, open>>

ReadCb ==
  /\ open /\ ~ busy
  /\ \E n \in 1 .. Room : n <= Unread /\ Read(n)

(* read() returned 0 or -1: the connection is cleaned up. *)
ReadFails ==
  /\ open /\ ~ busy
  /\ open' = FALSE
  /\ in_buf' = << >>
  /\ UNCHANGED <<sent, stream, got, busy, handled, torn, overran>>

-----------------------------------------------------------------------------
(* The loop over the words of the buffer, one packet at a time *)

(* The socket cut the stream where the code does not expect it. *)
Slipped == torn \/ overran

(* What the word at rd_pos reads as: any word that is not a header may     *)
(* look like the header of anything.                                       *)
ReadsAs(w) == IF w.at = 1 THEN {w.kind} ELSE Kinds

MoreThanWhole(k) == Len(in_buf) > k.words
Whole(k) == Len(in_buf) >= k.words

Consume(k) ==
  /\ in_buf' = SubSeq(in_buf, k.words + 1, Len(in_buf))
  /\ busy' = (in_buf' # << >>)

Dispatch(k) ==
  /\ k.known /\ (k.receipt \/ Whole(k))
  /\ Consume(k)
  /\ handled' = IF Slipped THEN handled ELSE Append(handled, SubSeq(in_buf, 1, k.words))
  /\ UNCHANGED overran

(* "ignore this message": rd_pos may move past the words that were read. *)
Skip(k) ==
  /\ ~ k.known
  /\ Consume(k)
  /\ overran' = (overran \/ ~ Whole(k))
  /\ UNCHANGED handled

DropStraggler(k) ==
  /\ k.known /\ ~ k.receipt /\ ~ Whole(k)
  /\ busy' = FALSE
  /\ in_buf' = << >>
  /\ UNCHANGED <<handled, overran>>

(* The words of a log that is not all there are shifted to the beginning.  *)
KeepStraggler(k) ==
  /\ k.known /\ ~ k.receipt /\ ~ Whole(k)
  /\ busy' = FALSE
  /\ UNCHANGED <<in_buf, handled, overran>>

Treat ==
  /\ busy
  /\ \E k \in ReadsAs(in_buf[1]) : Dispatch(k) \/ Skip(k) \/ KeepStraggler(k)
  /\ UNCHANGED <<sent, stream, got, torn, open>>

-----------------------------------------------------------------------------
(* The FPGA *)
Send(k) ==
  /\ Len(sent) < MaxPackets
  /\ sent' = Append(sent, k)
  /\ stream' = stream \o PacketWords(k, Len(sent) + 1)
  /\ UNCHANGED <<got, in_buf, busy, handled, torn, overran, open>>

Init ==
  /\ sent = << >> /\ stream = << >>
  /\ got = 0
  /\ in_buf = << >> /\ busy = FALSE
  /\ handled = << >>
  /\ torn = FALSE /\ overran = FALSE
  /\ open = TRUE

Next ==
  \/ \E k \in Kinds : Send(k)
  \/ ReadCb
  \/ ReadFails
  \/ Treat

Spec == Init /\ [][Next]_vars

(* A readable socket is read, and the loop goes on. *)
FairSpec == Spec /\ WF_vars(ReadCb) /\ WF_vars(Treat)

-----------------------------------------------------------------------------
(* What the first n of the packets s call for: those for known dbg_guvs,   *)
(* whole.                                                                  *)
Expected(s, n) ==
  LET e[m \in 0 .. n] ==
        IF m = 0 THEN << >>
        ELSE IF s[m].known THEN Append(e[m - 1], PacketWords(s[m], m)) ELSE e[m - 1]
  IN  e[n]

(* Every word that the loop takes for a header is one, until a read begins *)
(* inside a word or a log that was skipped is not all there.               *)
InStep == busy /\ ~ Slipped => in_buf[1].at = 1

(* What is kept between two reads is the beginning of one log, shorter     *)
(* than the log.                                                           *)
KeepsOneLog ==
  ~ busy /\ ~ Slipped /\ in_buf # << >> =>
    LET w == in_buf[1]
    IN  /\ Len(in_buf) < w.kind.words
        /\ in_buf = SubSeq(PacketWords(w.kind, w.packet), 1, Len(in_buf))

(* Whatever was read before, and whatever it was taken for, the next read  *)
(* is asked for a whole word at least: the length passed to read() is in   *)
(* bytes, and counts words.                                                *)
RoomForWord == ~ busy => Room >= W

(* However the socket cuts the stream, every receipt and log reaches its   *)
(* dbg_guv once, whole and in order, until then.                           *)
DispatchInOrder == \E n \in 0 .. Len(sent) : handled = Expected(sent, n)

(* Nothing that was sent stays undispatched while the connection is open   *)
(* and in step.                                                            *)
AllDispatched == [](open => <>(handled = Expected(sent, Len(sent)) \/ Slipped \/ ~ open))

(* "because we might only read part of a message, we need to save partial  *)
(* messages in a buffer": with no word cut in two, the rest of a partial   *)
(* message is not taken for a new one.                                     *)
PartialSaved == busy /\ ~ torn => in_buf[1].at = 1
=============================================================================
