------------------------------ MODULE LineBuf -------------------------------
(***************************************************************************)
(* A window's scrollback (linebuf in src/textio.c): a circular buffer that *)
(* one writer overwrites, oldest line first, and the part of it a window   *)
(* shows.  A line is the number of the append that wrote it, 0 standing    *)
(* for the NULL of a slot never written.                                   *)
(***************************************************************************)
EXTENDS Integers

CONSTANT NLines       \* nlines: DBG_GUV_SCROLLBACK, MSG_WIN_SCROLLBACK

ASSUME LineBufAssumption == NLines \in Nat \ {0}

Slots == 0 .. NLines - 1

LineBufs == [lines : [Slots -> Nat], pos : Slots, offset : Slots]

init_linebuf == [lines |-> [s \in Slots |-> 0], pos |-> 0, offset |-> 0]

(* The position after a write, back at the start when the end is reached *)
NextLine(pos) == IF pos + 1 = NLines THEN 0 ELSE pos + 1

linebuf_append(b, line) ==
  [b EXCEPT !.lines = [b.lines EXCEPT ![b.pos] = line], !.pos = NextLine(b.pos)]

(* Positive for up.  The offset is kept inside the buffer. *)
Clamp(x) == IF x < 0 THEN 0 ELSE IF x >= NLines THEN NLines - 1 ELSE x
Scroll(b, amount) == [b EXCEPT !.offset = Clamp(b.offset + amount)]

-----------------------------------------------------------------------------
(* A window h lines high draws its i-th line, from 0 at the top, out of    *)
(* slot Index.  Operand is what the code takes modulo nlines: C's % is     *)
(* TLA+'s only for an operand that is not negative.                        *)
UnboundShown(b, h) == b.offset         \* mutant: the offset as it is
Shown(b, h) == IF b.offset + (h - 1) >= NLines
               THEN (NLines - 1) - (h - 1) ELSE b.offset
Operand(b, h, i) == ((b.pos - 1) - Shown(b, h) - (h - 1) + i) + NLines
Index(b, h, i) == Operand(b, h, i) % NLines
draw_linebuf(b, h) == [i \in 0 .. h - 1 |-> b.lines[Index(b, h, i)]]

(* What a window is to show after n appends: the h newest lines once the   *)
(* offset newest are skipped, never further back than the buffer reaches.  *)
Line(n, back) == IF back < n THEN n - back ELSE 0
Skipped(offset, h) == IF offset > NLines - h THEN NLines - h ELSE offset
Newest(n, offset, h) ==
  [i \in 0 .. h - 1 |-> Line(n, Skipped(offset, h) + (h - 1 - i))]
=============================================================================
