--------------------------- MODULE Console_proofs ---------------------------
(***************************************************************************)
(* Proofs about Console, LineBuf and Getch, for every scrollback, every    *)
(* height of a window, any number of lines and anything that is typed.     *)
(* First the windows, then the decoder: what the recursive functions of    *)
(* Getch compute (by induction over the length of what was typed), what    *)
(* the decoder knows at each of its labels, and what every character does. *)
(***************************************************************************)
EXTENDS Console, FiniteSetTheorems, SequenceTheorems, WellFoundedInduction, TLAPS

(* How many lines were appended after the one in slot s, when the next     *)
(* goes to slot pos.                                                       *)
Back(pos, s) == IF s < pos THEN pos - 1 - s ELSE pos - 1 - s + NLines

(* The buffer after n appends. *)
Holds(b, n) ==
  /\ b \in LineBufs
  /\ \A s \in Slots : b.lines[s] = Line(n, Back(b.pos, s))

LEMMA InitHolds == Holds(init_linebuf, 0)
<1>1. init_linebuf \in LineBufs
  BY LineBufAssumption DEF init_linebuf, LineBufs, Slots
<1>2. ASSUME NEW s \in Slots PROVE init_linebuf.lines[s] = Line(0, Back(0, s))
  BY LineBufAssumption DEF init_linebuf, Line, Back, Slots
<1>3. init_linebuf.pos = 0
  BY DEF init_linebuf
<1>. QED  BY <1>1, <1>2, <1>3 DEF Holds

(* linebuf_append overwrites the oldest line, and every other line is one  *)
(* further back.                                                           *)
LEMMA AppendHolds ==
  ASSUME NEW n \in Nat, NEW b, Holds(b, n)
  PROVE  Holds(linebuf_append(b, n + 1), n + 1)
<1>. DEFINE c == linebuf_append(b, n + 1)
<1>1. /\ b \in LineBufs
      /\ b.pos \in Slots
      /\ b.lines \in [Slots -> Nat]
      /\ \A s \in Slots : b.lines[s] = Line(n, Back(b.pos, s))
  BY DEF Holds, LineBufs
<1>2. NextLine(b.pos) \in Slots
  BY <1>1, LineBufAssumption DEF NextLine, Slots
<1>3. [b.lines EXCEPT ![b.pos] = n + 1] \in [Slots -> Nat]
  BY <1>1
<1>4. /\ c \in LineBufs
      /\ c.lines = [b.lines EXCEPT ![b.pos] = n + 1]
      /\ c.pos = NextLine(b.pos)
  <2>. DEFINE l == [b.lines EXCEPT ![b.pos] = n + 1]
  <2>1. c = [b EXCEPT !.lines = l, !.pos = NextLine(b.pos)]
    BY DEF linebuf_append
  <2>2. l \in [Slots -> Nat]
    BY <1>3
  <2>. HIDE DEF c, l
  <2>3. c \in LineBufs /\ c.lines = l /\ c.pos = NextLine(b.pos)
    BY <1>1, <1>2, <2>1, <2>2 DEF LineBufs
  <2>. QED  BY <2>3 DEF l
<1>. HIDE DEF c
<1>5. ASSUME NEW s \in Slots
      PROVE  c.lines[s] = Line(n + 1, Back(c.pos, s))
  <2>1. CASE s = b.pos
    <3>1. Back(c.pos, s) = 0
      BY <1>1, <1>4, <2>1, LineBufAssumption DEF Back, NextLine, Slots
    <3>2. c.lines[s] = n + 1
      BY <1>1, <1>4, <2>1
    <3>. QED  BY <3>1, <3>2 DEF Line
  <2>2. CASE s # b.pos
    <3>1. /\ Back(c.pos, s) = Back(b.pos, s) + 1
          /\ Back(b.pos, s) \in Nat
      <4>1. NLines \in Nat /\ NLines > 0
        BY LineBufAssumption
      <4>2. PICK p \in 0 .. NLines - 1 : p = b.pos
        BY <1>1 DEF Slots
      <4>3. c.pos = IF p + 1 = NLines THEN 0 ELSE p + 1
        BY <1>4, <4>2 DEF NextLine
      <4>4. s \in 0 .. NLines - 1 /\ s # p
        BY <2>2, <4>2 DEF Slots
      <4>. QED  BY <4>1, <4>2, <4>3, <4>4 DEF Back
    <3>2. c.lines[s] = Line(n, Back(b.pos, s))
      BY <1>1, <1>4, <2>2
    <3>. QED  BY <3>1, <3>2 DEF Line
  <2>. QED  BY <2>1, <2>2
<1>6. Holds(c, n + 1)
  BY <1>4, <1>5 DEF Holds
<1>. QED  BY <1>6 DEF c

(* Scrolling moves the offset, inside the buffer, and nothing else. *)
LEMMA ScrollHolds ==
  ASSUME NEW n \in Nat, NEW b, Holds(b, n), NEW amount \in Int
  PROVE  Holds(Scroll(b, amount), n)
<1>1. /\ b \in LineBufs
      /\ b.offset \in Slots
  BY DEF Holds, LineBufs
<1>2. Clamp(b.offset + amount) \in Slots
  BY <1>1, LineBufAssumption DEF Clamp, Slots
<1>3. /\ Scroll(b, amount) \in LineBufs
      /\ Scroll(b, amount).pos = b.pos
      /\ Scroll(b, amount).lines = b.lines
  BY <1>1, <1>2 DEF Scroll, LineBufs
<1>. QED  BY <1>3 DEF Holds

(* What draw_linebuf then shows in a window no higher than the buffer. *)
LEMMA DrawsNewest ==
  ASSUME NEW n \in Nat, NEW b, Holds(b, n), NEW h \in 1 .. NLines
  PROVE  /\ \A i \in 0 .. h - 1 : Operand(b, h, i) >= 0
         /\ draw_linebuf(b, h) = Newest(n, b.offset, h)
<1>0. NLines \in Nat /\ NLines > 0
  BY LineBufAssumption
<1>1. /\ b.pos \in 0 .. NLines - 1
      /\ b.offset \in 0 .. NLines - 1
      /\ \A s \in Slots : b.lines[s] = Line(n, Back(b.pos, s))
  BY DEF Holds, LineBufs, Slots
<1>2. ASSUME NEW i \in 0 .. h - 1
      PROVE  /\ Operand(b, h, i) >= 0
             /\ b.lines[Index(b, h, i)] = Line(n, Skipped(b.offset, h) + (h - 1 - i))
  <2>. DEFINE back == Skipped(b.offset, h) + (h - 1 - i)
  <2>1. Shown(b, h) = Skipped(b.offset, h) /\ back \in 0 .. NLines - 1
    BY <1>0, <1>1 DEF Shown, Skipped
  <2>2. Skipped(b.offset, h) \in Int
    BY <1>0, <1>1 DEF Skipped
  <2>3. Operand(b, h, i) = b.pos - 1 - back + NLines
    BY <1>0, <1>1, <2>1, <2>2 DEF Operand
  <2>. HIDE DEF back
  <2>4. PICK a \in 0 .. 2 * NLines - 1 : a = Operand(b, h, i)
    BY <1>0, <1>1, <2>1, <2>3
  <2>5. a % NLines = IF a < NLines THEN a ELSE a - NLines
    <3>1. CASE a < NLines
      BY <1>0, <3>1
    <3>2. CASE a >= NLines
      <4>1. a - NLines \in 0 .. NLines - 1 /\ a = NLines * 1 + (a - NLines)
        BY <1>0, <3>2
      <4>. QED  BY <1>0, <3>2, <4>1
    <3>. QED  BY <1>0, <3>1, <3>2
  <2>6. /\ Index(b, h, i) \in Slots
        /\ Back(b.pos, Index(b, h, i)) = back
    BY <1>0, <1>1, <2>1, <2>3, <2>4, <2>5 DEF Index, Back, Slots
  <2>. QED  BY <1>0, <1>1, <2>1, <2>4, <2>6 DEF back
<1>. QED  BY <1>2 DEF draw_linebuf, Newest

-----------------------------------------------------------------------------
(* The inductive invariant: every window holds its newest lines.           *)
IInv ==
  /\ appended \in [Windows -> Nat]
  /\ buf \in [Windows -> LineBufs]
  /\ \A w \in Windows : Holds(buf[w], appended[w])

LEMMA InitIInv == Init => IInv
BY InitHolds DEF Init, IInv, Holds

LEMMA KeepsIInv == IInv /\ UNCHANGED <<buf, appended>> => IInv'
BY DEF IInv

LEMMA AppendedKeeps ==
  ASSUME IInv, NEW w \in Windows, NEW n \in {0, 1}, Appended(w, n)
  PROVE  IInv'
<1>1. CASE n = 0
  <2>1. buf' = buf /\ appended' = [appended EXCEPT ![w] = @ + 0]
    BY <1>1 DEF Appended
  <2>2. appended' = appended
    BY <2>1 DEF IInv
  <2>. QED  BY <2>1, <2>2, KeepsIInv
<1>2. CASE n = 1
  <2>1. /\ buf' = [buf EXCEPT ![w] = linebuf_append(buf[w], appended[w] + 1)]
        /\ appended' = [appended EXCEPT ![w] = appended[w] + 1]
    BY <1>2 DEF Appended
  <2>2. appended' \in [Windows -> Nat]
    BY <2>1 DEF IInv
  <2>3. Holds(linebuf_append(buf[w], appended[w] + 1), appended[w] + 1)
    BY AppendHolds DEF IInv
  <2>4. buf' \in [Windows -> LineBufs]
    BY <2>1, <2>3 DEF IInv, Holds
  <2>5. ASSUME NEW v \in Windows PROVE Holds(buf'[v], appended'[v])
    BY <2>1, <2>3 DEF IInv
  <2>. QED  BY <2>2, <2>4, <2>5 DEF IInv
<1>. QED  BY <1>1, <1>2

LEMMA ErrLogIsWindow == "err_log" \in Windows
BY ConsoleAssumption

LEMMA ScrollKeeps ==
  ASSUME IInv, NEW dir, NEW mods, ScrollFocused(dir, mods)
  PROVE  IInv'
<1>1. CASE focus \notin Windows
  BY <1>1, ErrLogIsWindow, AppendedKeeps DEF ScrollFocused, Message
<1>2. CASE focus \in Windows /\ dir \notin {"UP", "DOWN"}
  BY <1>2, KeepsIInv DEF ScrollFocused
<1>3. CASE focus \in Windows /\ dir \in {"UP", "DOWN"}
  <2>. DEFINE b == Scroll(buf[focus], Amount(dir, mods))
  <2>1. buf' = [buf EXCEPT ![focus] = b] /\ appended' = appended
    BY <1>3 DEF ScrollFocused
  <2>2. Amount(dir, mods) \in Int
    BY <1>3 DEF Amount
  <2>3. Holds(b, appended[focus])
    BY <1>3, <2>2, ScrollHolds DEF IInv
  <2>. HIDE DEF b
  <2>4. buf' \in [Windows -> LineBufs]
    BY <2>1, <2>3 DEF IInv, Holds
  <2>5. ASSUME NEW v \in Windows PROVE Holds(buf'[v], appended'[v])
    BY <2>1, <2>3 DEF IInv
  <2>. QED  BY <2>1, <2>4, <2>5 DEF IInv
<1>. QED  BY <1>1, <1>2, <1>3

LEMMA WindowKeeps ==
  ASSUME IInv, NEW op, Window(op)
  PROVE  IInv'
<1>1. PICK n \in {0, 1} : Appended("err_log", n)
  BY DEF Window
<1>. QED  BY <1>1, ErrLogIsWindow, AppendedKeeps

LEMMA StepIInv == IInv /\ [Next]_vars => IInv'
<1>. SUFFICES ASSUME IInv, [Next]_vars PROVE IInv'
  OBVIOUS
<1>1. ASSUME NEW w \in Windows, GotLog(w) PROVE IInv'
  BY <1>1, AppendedKeeps DEF GotLog
<1>2. ASSUME NEW c \in Chars, handle_stdin_cb(c) PROVE IInv'
  <2>1. CASE Good(c)
    <3>1. CASE Used(in', c)
      <4>1. Use(in', c)
        BY <2>1, <3>1 DEF Good
      <4>2. CASE Window([what |-> "move", dir |-> in'.key]) \/ Window([what |-> "focus", dir |-> in'.key])
                 \/ Window([what |-> "window", key |-> c])
        BY <4>2, WindowKeeps
      <4>3. CASE ScrollFocused(in'.key, in'.mods)
        BY <4>3, ScrollKeeps
      <4>. QED  BY <4>1, <4>2, <4>3 DEF Use
    <3>2. CASE ~ Used(in', c)
      <4>1. PassOn(in', c)
        BY <2>1, <3>2 DEF Good
      <4>2. PICK n \in {0, 1} : Appended("err_log", n)
        BY <4>1 DEF PassOn
      <4>. QED  BY <4>2, ErrLogIsWindow, AppendedKeeps
    <3>. QED  BY <3>1, <3>2
  <2>2. CASE Bad(c)
    BY <2>2, ErrLogIsWindow, AppendedKeeps DEF Bad, Message
  <2>3. CASE More(c)
    BY <2>3, KeepsIInv DEF More
  <2>. QED  BY <1>2, <2>1, <2>2, <2>3 DEF handle_stdin_cb
<1>3. CASE UNCHANGED vars
  BY <1>3, KeepsIInv DEF vars, console
<1>. QED  BY <1>1, <1>2, <1>3 DEF Next

(* Whatever is typed and however lines arrive, every window that scrolls   *)
(* shows the newest lines behind its offset, and draw_linebuf reads no     *)
(* slot outside the buffer.                                                *)
THEOREM WindowsShowNewest == Spec => []ShowsNewest
<1>1. IInv => ShowsNewest
  <2>. SUFFICES ASSUME IInv, NEW w \in Windows, NEW h \in 1 .. NLines
                PROVE  /\ \A i \in 0 .. h - 1 : Operand(buf[w], h, i) >= 0
                       /\ draw_linebuf(buf[w], h) = Newest(appended[w], buf[w].offset, h)
    BY DEF ShowsNewest
  <2>1. Holds(buf[w], appended[w]) /\ appended[w] \in Nat
    BY DEF IInv
  <2>. QED  BY <2>1, DrawsNewest
<1>2. IInv /\ [Next]_vars => IInv'
  BY StepIInv
<1>. QED  BY InitIInv, <1>1, <1>2, PTL DEF Spec

LEMMA LeastNat ==
  ASSUME NEW S \in SUBSET Nat, S # {}
  PROVE  \E m \in S : \A k \in S : m <= k
<1>. DEFINE R == OpToRel(<, Nat)
<1>1. IsWellFoundedOn(R, Nat)
  BY NatLessThanWellFounded
<1>2. \A k, m \in Nat : k < m => <<k, m>> \in R
  BY DEF OpToRel
<1>. HIDE DEF R
<1>3. PICK m \in S : \A k \in S : ~ (<<k, m>> \in R)
  BY <1>1, WFMin, Zenon
<1>4. \A k \in S : ~ (k < m)
  BY <1>2, <1>3, Zenon
<1>5. \A k \in S : m <= k
  BY <1>4
<1>. QED  BY <1>5

(* Induction over the numbers, for the set of those a fact holds of. *)
LEMMA SetInduction ==
  ASSUME NEW S, 0 \in S, \A n \in Nat : n \in S => n + 1 \in S
  PROVE  \A n \in Nat : n \in S
<1>. SUFFICES ASSUME Nat \ S # {} PROVE FALSE
  OBVIOUS
<1>1. PICK m \in Nat \ S : \A k \in Nat \ S : m <= k
  BY LeastNat, Zenon
<1>2. m # 0 /\ m - 1 \in Nat
  BY <1>1
<1>3. m - 1 \in S
  BY <1>1, <1>2
<1>. QED  BY <1>1, <1>2, <1>3

(* What the recursive function of Number is, over the first n characters. *)
Values(s, n, v) ==
  /\ v \in [0 .. n -> Int]
  /\ v[0] = 0
  /\ \A k \in 1 .. n : v[k] = v[k - 1] * 10 + (s[k] - 48)

LEMMA ValuesExist ==
  ASSUME NEW s \in Seq(Int)
  PROVE  \E v : Values(s, Len(s), v)
<1>. DEFINE S == {n \in Nat : n <= Len(s) => \E v : Values(s, n, v)}
<1>1. 0 \in S
  <2>. DEFINE v == [k \in 0 .. 0 |-> 0]
  <2>1. v \in [0 .. 0 -> Int] /\ v[0] = 0
    OBVIOUS
  <2>2. \A k \in 1 .. 0 : FALSE
    OBVIOUS
  <2>3. Values(s, 0, v)
    <3>. HIDE DEF v
    <3>. QED  BY <2>1, <2>2 DEF Values
  <2>. HIDE DEF v
  <2>. QED  BY <2>3
<1>2. ASSUME NEW n \in Nat, n \in S PROVE n + 1 \in S
  <2>. SUFFICES ASSUME n + 1 <= Len(s) PROVE \E v : Values(s, n + 1, v)
    OBVIOUS
  <2>1. PICK v : Values(s, n, v)
    BY <1>2
  <2>. DEFINE w == [k \in 0 .. n + 1 |-> IF k = n + 1 THEN v[n] * 10 + (s[n + 1] - 48) ELSE v[k]]
  <2>2. s[n + 1] \in Int
    OBVIOUS
  <2>3. /\ w \in [0 .. n + 1 -> Int]
        /\ w[0] = 0
    BY <2>1, <2>2 DEF Values
  <2>4. ASSUME NEW k \in 1 .. n + 1 PROVE w[k] = w[k - 1] * 10 + (s[k] - 48)
    <3>1. CASE k = n + 1
      BY <3>1
    <3>2. CASE k # n + 1
      <4>1. k \in 1 .. n /\ w[k] = v[k] /\ w[k - 1] = v[k - 1]
        BY <3>2
      <4>. HIDE DEF w
      <4>. QED  BY <2>1, <4>1 DEF Values
    <3>. QED  BY <3>1, <3>2
  <2>5. Values(s, n + 1, w)
    <3>. HIDE DEF w
    <3>. QED  BY <2>3, <2>4 DEF Values
  <2>. HIDE DEF w
  <2>. QED  BY <2>5
<1>3. \A n \in Nat : n \in S
  <2>. HIDE DEF S
  <2>. QED  BY <1>1, <1>2, SetInduction
<1>4. Len(s) \in S
  BY <1>3
<1>. QED  BY <1>4

LEMMA ValuesUnique ==
  ASSUME NEW s \in Seq(Int), NEW t \in Seq(Int), NEW n \in Nat, n <= Len(s), n <= Len(t),
         \A k \in 1 .. n : s[k] = t[k],
         NEW a \in Nat, NEW b \in Nat, n <= a, n <= b,
         NEW v, NEW w, Values(s, a, v), Values(t, b, w)
  PROVE  v[n] = w[n]
<1>. DEFINE S == {k \in Nat : k <= n => v[k] = w[k]}
<1>1. 0 \in S
  BY DEF Values
<1>2. ASSUME NEW k \in Nat, k \in S PROVE k + 1 \in S
  <2>. SUFFICES ASSUME k + 1 <= n PROVE v[k + 1] = w[k + 1]
    OBVIOUS
  <2>1. v[k] = w[k] /\ s[k + 1] = t[k + 1]
    BY <1>2
  <2>2. v[k + 1] = v[k] * 10 + (s[k + 1] - 48)
    <3>1. k + 1 \in 1 .. a /\ (k + 1) - 1 = k
      OBVIOUS
    <3>. QED  BY <3>1 DEF Values
  <2>3. w[k + 1] = w[k] * 10 + (t[k + 1] - 48)
    <3>1. k + 1 \in 1 .. b /\ (k + 1) - 1 = k
      OBVIOUS
    <3>. QED  BY <3>1 DEF Values
  <2>. QED  BY <2>1, <2>2, <2>3
<1>3. \A k \in Nat : k \in S
  <2>. HIDE DEF S
  <2>. QED  BY <1>1, <1>2, SetInduction
<1>. QED  BY <1>3

LEMMA NumberValues ==
  ASSUME NEW s \in Seq(Int)
  PROVE  \E v : Values(s, Len(s), v) /\ Number(s) = v[Len(s)]
<1>1. PICK v : Values(s, Len(s), v)
  BY ValuesExist
<1>2. v = [k \in 0 .. Len(s) |-> IF k = 0 THEN 0 ELSE v[k - 1] * 10 + (s[k] - 48)]
  BY <1>1 DEF Values
<1>3. \E w : /\ w = [k \in 0 .. Len(s) |-> IF k = 0 THEN 0 ELSE w[k - 1] * 10 + (s[k] - 48)]
             /\ Number(s) = w[Len(s)]
  BY <1>2, Zenon DEF Number
<1>4. PICK w : /\ w = [k \in 0 .. Len(s) |-> IF k = 0 THEN 0 ELSE w[k - 1] * 10 + (s[k] - 48)]
               /\ Number(s) = w[Len(s)]
  BY <1>3
<1>. DEFINE S == {k \in Nat : k <= Len(s) => w[k] \in Int}
<1>5. 0 \in S
  <2>1. 0 \in 0 .. Len(s)
    OBVIOUS
  <2>2. w[0] = 0
    BY <1>4, <2>1
  <2>. QED  BY <2>2
<1>6. ASSUME NEW k \in Nat, k \in S PROVE k + 1 \in S
  <2>. SUFFICES ASSUME k + 1 <= Len(s) PROVE w[k + 1] \in Int
    OBVIOUS
  <2>1. w[k + 1] = w[k] * 10 + (s[k + 1] - 48)
    BY <1>4
  <2>2. w[k] \in Int /\ s[k + 1] \in Int
    BY <1>6
  <2>. QED  BY <2>1, <2>2
<1>7. \A k \in Nat : k \in S
  <2>. HIDE DEF S
  <2>. QED  BY <1>5, <1>6, SetInduction
<1>8. Values(s, Len(s), w)
  <2>1. \A k \in 0 .. Len(s) : w[k] \in Int
    BY <1>7
  <2>2. w \in [0 .. Len(s) -> Int]
    BY <1>4, <2>1
  <2>3. w[0] = 0
    <3>1. 0 \in 0 .. Len(s)
      OBVIOUS
    <3>. QED  BY <1>4, <3>1
  <2>4. ASSUME NEW k \in 1 .. Len(s) PROVE w[k] = w[k - 1] * 10 + (s[k] - 48)
    <3>1. k \in 0 .. Len(s) /\ k # 0
      OBVIOUS
    <3>. QED  BY <1>4, <3>1
  <2>. QED  BY <2>2, <2>3, <2>4 DEF Values
<1>. QED  BY <1>4, <1>8

(* The number that the digits of a field say, one more digit at a time. *)
LEMMA NumberEmpty == Number(<< >>) = 0
<1>. DEFINE e == << >>
<1>1. e \in Seq(Int) /\ Len(e) = 0
  OBVIOUS
<1>. HIDE DEF e
<1>2. PICK v : Values(e, Len(e), v) /\ Number(e) = v[Len(e)]
  BY <1>1, NumberValues
<1>3. Number(e) = 0
  BY <1>1, <1>2 DEF Values
<1>. QED  BY <1>3 DEF e

LEMMA NumberAppend ==
  ASSUME NEW s \in Seq(Int), NEW c \in Int
  PROVE  /\ Number(s) \in Int
         /\ Number(Append(s, c)) = Number(s) * 10 + (c - 48)
<1>. DEFINE t == Append(s, c)
<1>1. /\ t \in Seq(Int) /\ Len(t) = Len(s) + 1
      /\ \A k \in 1 .. Len(s) : t[k] = s[k]
      /\ t[Len(s) + 1] = c
  OBVIOUS
<1>. HIDE DEF t
<1>2. PICK v : Values(s, Len(s), v) /\ Number(s) = v[Len(s)]
  BY NumberValues
<1>3. PICK w : Values(t, Len(t), w) /\ Number(t) = w[Len(t)]
  BY <1>1, NumberValues
<1>4. w[Len(s)] = v[Len(s)]
  <2>1. Len(s) \in Nat /\ Len(t) \in Nat /\ Len(s) <= Len(s) /\ Len(s) <= Len(t)
    BY <1>1
  <2>. QED  BY <1>1, <1>2, <1>3, <2>1, ValuesUnique
<1>5. w[Len(s) + 1] = w[Len(s)] * 10 + (c - 48)
  <2>1. Len(s) + 1 \in 1 .. Len(t) /\ (Len(s) + 1) - 1 = Len(s)
    BY <1>1
  <2>. QED  BY <1>1, <1>3, <2>1 DEF Values
<1>6. v[Len(s)] \in Int
  <2>1. Len(s) \in 0 .. Len(s)
    OBVIOUS
  <2>. QED  BY <1>2, <2>1 DEF Values
<1>. QED  BY <1>1, <1>2, <1>3, <1>4, <1>5, <1>6 DEF t

-----------------------------------------------------------------------------
(* Fields *)

LEMMA SemisFinite ==
  ASSUME NEW s \in Seq(Int)
  PROVE  /\ Semicolons(s) \subseteq 1 .. Len(s)
         /\ IsFiniteSet(Semicolons(s))
         /\ Cardinality(Semicolons(s)) \in Nat
         /\ \A p \in Int : Rank(s, p) \in Nat
<1>1. Semicolons(s) \subseteq 1 .. Len(s)
  BY DEF Semicolons
<1>2. IsFiniteSet(1 .. Len(s))
  BY FS_Interval
<1>3. IsFiniteSet(Semicolons(s))
  BY <1>1, <1>2, FS_Subset
<1>4. ASSUME NEW p \in Int PROVE Rank(s, p) \in Nat
  <2>1. {q \in Semicolons(s) : q <= p} \subseteq Semicolons(s)
    OBVIOUS
  <2>. QED  BY <1>3, <2>1, FS_Subset, FS_CardinalityType DEF Rank
<1>. QED  BY <1>1, <1>3, <1>4, FS_CardinalityType

(* No two semicolons have the same rank. *)
LEMMA RankUnique ==
  ASSUME NEW s \in Seq(Int), NEW p \in Semicolons(s), NEW q \in Semicolons(s),
         Rank(s, p) = Rank(s, q)
  PROVE  p = q
<1>1. ASSUME NEW a \in Semicolons(s), NEW b \in Semicolons(s), a < b
      PROVE  Rank(s, a) # Rank(s, b)
  <2>. DEFINE A == {x \in Semicolons(s) : x <= a}
              B == {x \in Semicolons(s) : x <= b}
  <2>0. Semicolons(s) \subseteq Int
    BY SemisFinite
  <2>1. A \subseteq B /\ b \in B /\ b \notin A
    BY <1>1, <2>0
  <2>2. B \subseteq Semicolons(s)
    OBVIOUS
  <2>3. IsFiniteSet(B)
    BY <2>2, SemisFinite, FS_Subset
  <2>. HIDE DEF A, B
  <2>4. Cardinality(A) # Cardinality(B)
    BY <2>1, <2>3, FS_Subset
  <2>. QED  BY <2>4 DEF Rank, A, B
<1>2. p \in Int /\ q \in Int
  BY SemisFinite
<1>3. p < q \/ q < p \/ p = q
  BY <1>2
<1>. QED  BY <1>1, <1>3

LEMMA NthIs ==
  ASSUME NEW s \in Seq(Int), NEW p \in Semicolons(s)
  PROVE  Nth(s, Rank(s, p)) = p
<1>1. \E q \in Semicolons(s) : Rank(s, q) = Rank(s, p)
  OBVIOUS
<1>2. /\ Nth(s, Rank(s, p)) \in Semicolons(s)
      /\ Rank(s, Nth(s, Rank(s, p))) = Rank(s, p)
  BY <1>1, Zenon DEF Nth
<1>. QED  BY <1>2, RankUnique

(* Every rank up to the number of semicolons is that of one. *)
Ranked(s) ==
  \A k \in 1 .. Cardinality(Semicolons(s)) : \E p \in Semicolons(s) : Rank(s, p) = k

LEMMA NthRank ==
  ASSUME NEW s \in Seq(Int), Ranked(s), NEW k \in 1 .. Cardinality(Semicolons(s))
  PROVE  /\ Nth(s, k) \in Semicolons(s)
         /\ Rank(s, Nth(s, k)) = k
BY Zenon DEF Nth, Ranked

LEMMA AppendFacts ==
  ASSUME NEW s \in Seq(Int), NEW c \in Int
  PROVE  /\ Append(s, c) \in Seq(Int)
         /\ Len(Append(s, c)) = Len(s) + 1
         /\ \A k \in 1 .. Len(s) : Append(s, c)[k] = s[k]
         /\ Append(s, c)[Len(s) + 1] = c
OBVIOUS

(* One more character, be it a semicolon or not. *)
LEMMA SemisAppend ==
  ASSUME NEW s \in Seq(Int), NEW c \in Int, Ranked(s)
  PROVE  LET t == Append(s, c)
         IN  /\ c # 59 => Semicolons(t) = Semicolons(s)
             /\ c = 59 => Semicolons(t) = Semicolons(s) \cup {Len(s) + 1}
             /\ c # 59 => Cardinality(Semicolons(t)) = Cardinality(Semicolons(s))
             /\ c = 59 => Cardinality(Semicolons(t)) = Cardinality(Semicolons(s)) + 1
             /\ \A k \in 1 .. Cardinality(Semicolons(s)) : Nth(t, k) = Nth(s, k)
             /\ c = 59 => Nth(t, Cardinality(Semicolons(t))) = Len(s) + 1
             /\ Ranked(t)
<1>. DEFINE t == Append(s, c)
            S == Semicolons(s)
            n == Len(s)
<1>0. n \in Nat /\ Len(t) = n + 1 /\ t \in Seq(Int)
  BY AppendFacts
<1>1. S \subseteq 1 .. n /\ IsFiniteSet(S) /\ Cardinality(S) \in Nat
  BY SemisFinite
<1>2. c # 59 => Semicolons(t) = S
  BY AppendFacts DEF Semicolons
<1>3. c = 59 => Semicolons(t) = S \cup {n + 1}
  BY AppendFacts DEF Semicolons
<1>4. c = 59 => Cardinality(Semicolons(t)) = Cardinality(S) + 1
  <2>1. n + 1 \notin S
    BY <1>1
  <2>. HIDE DEF S, n
  <2>. QED  BY <1>1, <1>3, <2>1, FS_AddElement
<1>. HIDE DEF t
<1>5. ASSUME NEW p \in S PROVE p \in Semicolons(t) /\ Rank(t, p) = Rank(s, p)
  <2>1. {q \in Semicolons(t) : q <= p} = {q \in S : q <= p}
    BY <1>1, <1>2, <1>3
  <2>. QED  BY <1>2, <1>3, <2>1 DEF Rank
<1>6. ASSUME NEW k \in 1 .. Cardinality(S)
      PROVE  /\ Nth(t, k) = Nth(s, k)
             /\ Nth(s, k) \in Semicolons(t)
             /\ Rank(t, Nth(s, k)) = k
  <2>1. Nth(s, k) \in S /\ Rank(s, Nth(s, k)) = k
    BY NthRank
  <2>2. Nth(s, k) \in Semicolons(t) /\ Rank(t, Nth(s, k)) = k
    BY <1>5, <2>1
  <2>3. Nth(t, k) = Nth(s, k)
    <3>. DEFINE p == Nth(s, k)
    <3>. HIDE DEF p
    <3>1. Nth(t, Rank(t, p)) = p
      BY <1>0, <2>2, NthIs DEF p
    <3>. QED  BY <2>2, <3>1 DEF p
  <2>. QED  BY <2>2, <2>3
<1>7. ASSUME c = 59
      PROVE  /\ n + 1 \in Semicolons(t)
             /\ Rank(t, n + 1) = Cardinality(Semicolons(t))
             /\ Nth(t, Cardinality(Semicolons(t))) = n + 1
  <2>1. n + 1 \in Semicolons(t)
    BY <1>3, <1>7
  <2>2. {q \in Semicolons(t) : q <= n + 1} = Semicolons(t)
    BY <1>0, <1>1, <1>3, <1>7
  <2>3. Rank(t, n + 1) = Cardinality(Semicolons(t))
    BY <2>2 DEF Rank
  <2>4. Nth(t, Rank(t, n + 1)) = n + 1
    BY <1>0, <2>1, NthIs
  <2>. QED  BY <2>1, <2>3, <2>4
<1>8. Ranked(t)
  <2>. SUFFICES ASSUME NEW k \in 1 .. Cardinality(Semicolons(t))
                PROVE  \E p \in Semicolons(t) : Rank(t, p) = k
    BY DEF Ranked
  <2>1. k \in 1 .. Cardinality(S) \/ (c = 59 /\ k = Cardinality(Semicolons(t)))
    <3>. DEFINE m == Cardinality(S)
                l == Cardinality(Semicolons(t))
    <3>1. m \in Nat /\ (c # 59 => l = m) /\ (c = 59 => l = m + 1) /\ k \in 1 .. l
      BY <1>1, <1>2, <1>4
    <3>. HIDE DEF m, l
    <3>2. k \in 1 .. m \/ (c = 59 /\ k = l)
      <4>1. CASE c = 59
        <5>1. l = m + 1
          BY <3>1, <4>1
        <5>2. k \in 1 .. m + 1
          BY <3>1, <5>1
        <5>3. k \in 1 .. m \/ k = l
          BY <3>1, <5>1, <5>2
        <5>. QED  BY <4>1, <5>3
      <4>2. CASE c # 59
        <5>1. l = m
          BY <3>1, <4>2
        <5>2. k \in 1 .. l
          BY <3>1
        <5>. QED  BY <5>1, <5>2
      <4>. QED  BY <4>1, <4>2
    <3>. QED  BY <3>2 DEF m, l
  <2>. QED  BY <1>6, <1>7, <2>1
<1>. QED  BY <1>2, <1>3, <1>4, <1>6, <1>7, <1>8 DEF t

LEMMA SubSeqAppend ==
  ASSUME NEW s \in Seq(Int), NEW c \in Int, NEW a \in 1 .. Len(s) + 1
  PROVE  /\ \A b \in 0 .. Len(s) : SubSeq(Append(s, c), a, b) = SubSeq(s, a, b)
         /\ SubSeq(Append(s, c), a, Len(s) + 1) = Append(SubSeq(s, a, Len(s)), c)
         /\ \A b \in 0 .. Len(s) : SubSeq(s, a, b) \in Seq(Int)
<1>. DEFINE t == Append(s, c)
<1>1. t \in Seq(Int) /\ Len(t) = Len(s) + 1 /\ t[Len(s) + 1] = c
      /\ \A k \in 1 .. Len(s) : t[k] = s[k]
  BY AppendFacts
<1>. HIDE DEF t
<1>2. ASSUME NEW b \in 0 .. Len(s)
      PROVE  SubSeq(t, a, b) = SubSeq(s, a, b) /\ SubSeq(s, a, b) \in Seq(Int)
  <2>. DEFINE u == SubSeq(t, a, b)
              v == SubSeq(s, a, b)
  <2>1. u \in Seq(Int) /\ Len(u) = (IF a <= b THEN b + 1 - a ELSE 0)
        /\ \A k \in 1 .. Len(u) : u[k] = t[a + k - 1]
    BY <1>1
  <2>2. v \in Seq(Int) /\ Len(v) = (IF a <= b THEN b + 1 - a ELSE 0)
        /\ \A k \in 1 .. Len(v) : v[k] = s[a + k - 1]
    OBVIOUS
  <2>. HIDE DEF u, v
  <2>3. ASSUME NEW k \in 1 .. Len(u) PROVE u[k] = v[k]
    <3>1. a + k - 1 \in 1 .. Len(s) /\ k \in 1 .. Len(v)
      BY <2>1, <2>2
    <3>. QED  BY <1>1, <2>1, <2>2, <3>1
  <2>4. u = v
    BY <2>1, <2>2, <2>3, SeqEqual
  <2>. QED  BY <2>2, <2>4 DEF u, v
<1>3. SubSeq(t, a, Len(s) + 1) = Append(SubSeq(s, a, Len(s)), c)
  <2>. DEFINE u == SubSeq(t, a, Len(s) + 1)
              v == SubSeq(s, a, Len(s))
              w == Append(v, c)
  <2>1. v \in Seq(Int) /\ Len(v) = Len(s) + 1 - a /\ \A k \in 1 .. Len(v) : v[k] = s[a + k - 1]
    OBVIOUS
  <2>2. u \in Seq(Int) /\ Len(u) = Len(s) + 2 - a /\ \A k \in 1 .. Len(u) : u[k] = t[a + k - 1]
    BY <1>1
  <2>. HIDE DEF u, v
  <2>3. /\ w \in Seq(Int) /\ Len(w) = Len(u) /\ w[Len(v) + 1] = c
        /\ \A k \in 1 .. Len(v) : w[k] = v[k]
    <3>1. Len(u) = Len(v) + 1
      BY <2>1, <2>2
    <3>. QED  BY <2>1, <3>1, AppendFacts
  <2>. HIDE DEF w
  <2>4. ASSUME NEW k \in 1 .. Len(u) PROVE u[k] = w[k]
    <3>1. CASE k \in 1 .. Len(v)
      <4>1. a + k - 1 \in 1 .. Len(s)
        BY <2>1, <3>1
      <4>. QED  BY <1>1, <2>1, <2>2, <2>3, <3>1, <4>1
    <3>2. CASE k = Len(v) + 1
      <4>1. a + k - 1 = Len(s) + 1
        BY <2>1, <3>2
      <4>2. u[k] = t[Len(s) + 1]
        BY <2>2, <4>1
      <4>3. w[k] = c
        BY <2>3, <3>2
      <4>. QED  BY <1>1, <4>2, <4>3
    <3>3. k \in 1 .. Len(v) + 1
      BY <2>1, <2>2
    <3>. QED  BY <2>1, <3>1, <3>2, <3>3
  <2>5. u = w
    BY <2>2, <2>3, <2>4, SeqEqual
  <2>. QED  BY <2>5 DEF u, v, w
<1>. QED  BY <1>2, <1>3 DEF t

LEMMA FieldsAppend ==
  ASSUME NEW s \in Seq(Int), NEW c \in Int, Ranked(s), NEW m, m = Cardinality(Semicolons(s))
  PROVE  LET t == Append(s, c)
         IN  /\ \A k \in 1 .. m + 1 : Field(s, k) \in Seq(Int)
             /\ \A k \in 1 .. m : Field(t, k) = Field(s, k)
             /\ c # 59 => Field(t, m + 1) = Append(Field(s, m + 1), c)
             /\ c = 59 => Field(t, m + 1) = Field(s, m + 1)
             /\ c = 59 => Field(t, m + 2) = << >>
<1>. DEFINE t == Append(s, c)
            n == Len(s)
<1>0. n \in Nat /\ m \in Nat /\ t \in Seq(Int) /\ Len(t) = n + 1
  BY SemisFinite, AppendFacts
<1>1. /\ c # 59 => Cardinality(Semicolons(t)) = m
      /\ c = 59 => Cardinality(Semicolons(t)) = m + 1
      /\ \A k \in 1 .. m : Nth(t, k) = Nth(s, k)
      /\ c = 59 => Nth(t, m + 1) = n + 1
  BY SemisAppend
<1>2. \A k \in 1 .. m : Nth(s, k) \in 1 .. n
  BY NthRank, SemisFinite
<1>. HIDE DEF t
<1>3. ASSUME NEW k \in 1 .. m + 1
      PROVE  FieldStart(s, k) \in 1 .. n + 1 /\ FieldStart(t, k) = FieldStart(s, k)
  <2>1. CASE k = 1
    BY <1>0, <2>1 DEF FieldStart
  <2>2. CASE k # 1
    <3>1. k - 1 \in 1 .. m
      BY <1>0, <2>2
    <3>2. FieldStart(s, k) = Nth(s, k - 1) + 1 /\ FieldStart(t, k) = Nth(t, k - 1) + 1
      BY <2>2 DEF FieldStart
    <3>3. Nth(s, k - 1) \in 1 .. n /\ Nth(t, k - 1) = Nth(s, k - 1)
      BY <1>1, <1>2, <3>1
    <3>. QED  BY <1>0, <3>2, <3>3
  <2>. QED  BY <2>1, <2>2
<1>4. ASSUME NEW k \in 1 .. m
      PROVE  /\ FieldEnd(s, k) \in 0 .. n /\ FieldEnd(t, k) = FieldEnd(s, k)
  <2>1. ~ (k > m) /\ ~ (k > Cardinality(Semicolons(t)))
    BY <1>0, <1>1
  <2>2. FieldEnd(s, k) = Nth(s, k) - 1 /\ FieldEnd(t, k) = Nth(t, k) - 1
    BY <2>1 DEF FieldEnd
  <2>3. Nth(s, k) \in 1 .. n /\ Nth(t, k) = Nth(s, k)
    BY <1>1, <1>2
  <2>. QED  BY <1>0, <2>2, <2>3
<1>5. FieldEnd(s, m + 1) = n
  BY <1>0 DEF FieldEnd
<1>6. /\ c # 59 => FieldEnd(t, m + 1) = n + 1
      /\ c = 59 => FieldEnd(t, m + 1) = n
      /\ c = 59 => FieldStart(t, m + 2) = n + 2 /\ FieldEnd(t, m + 2) = n + 1
  BY <1>0, <1>1 DEF FieldEnd, FieldStart
<1>7. ASSUME NEW k \in 1 .. m + 1 PROVE Field(s, k) \in Seq(Int)
  <2>1. k \in 1 .. m \/ k = m + 1
    BY <1>0
  <2>2. FieldEnd(s, k) \in 0 .. n /\ FieldStart(s, k) \in 1 .. n + 1
    BY <1>0, <1>3, <1>4, <1>5, <2>1
  <2>. QED  BY <2>2, SubSeqAppend DEF Field
<1>8. ASSUME NEW k \in 1 .. m PROVE Field(t, k) = Field(s, k)
  <2>1. k \in 1 .. m + 1
    BY <1>0
  <2>. QED  BY <1>3, <1>4, <2>1, SubSeqAppend DEF Field, t
<1>9. m + 1 \in 1 .. m + 1 /\ n \in 0 .. n
  BY <1>0
<1>10. c # 59 => Field(t, m + 1) = Append(Field(s, m + 1), c)
  BY <1>3, <1>5, <1>6, <1>9, SubSeqAppend DEF Field, t
<1>11. c = 59 => Field(t, m + 1) = Field(s, m + 1)
  BY <1>3, <1>5, <1>6, <1>9, SubSeqAppend DEF Field, t
<1>12. c = 59 => Field(t, m + 2) = << >>
  <2>1. SubSeq(t, n + 2, n + 1) = << >>
    BY <1>0
  <2>. QED  BY <1>6, <2>1 DEF Field
<1>. QED  BY <1>7, <1>8, <1>10, <1>11, <1>12 DEF t

-----------------------------------------------------------------------------
(* The decoder has read the parameters b: all numbers but the last are in  *)
(* ps, and the last, if there is one, is num.                              *)
Parsed(b, ps, num, dirty) ==
  /\ b \in Seq(Int) /\ Ranked(b)
  /\ ps \in Seq(Int) /\ num \in Int /\ dirty \in BOOLEAN
  /\ Len(ps) = Cardinality(Semicolons(b))
  /\ \A k \in 1 .. Len(ps) : ps[k] = Number(Field(b, k))
  /\ num = Number(Field(b, Len(ps) + 1))
  /\ dirty <=> b # << >> /\ b[Len(b)] # 59

LEMMA ParsedNothing == Parsed(<< >>, << >>, 0, FALSE)
<1>. DEFINE e == << >>
<1>1. e \in Seq(Int) /\ Len(e) = 0
  OBVIOUS
<1>2. Semicolons(e) = {}
  BY <1>1 DEF Semicolons
<1>3. Cardinality(Semicolons(e)) = 0
  BY <1>2, FS_EmptySet
<1>4. Ranked(e)
  BY <1>3 DEF Ranked
<1>5. Field(e, 1) = e
  <2>1. FieldStart(e, 1) = 1 /\ FieldEnd(e, 1) = 0
    BY <1>1, <1>3 DEF FieldStart, FieldEnd
  <2>. QED  BY <2>1 DEF Field
<1>. QED  BY <1>1, <1>3, <1>4, <1>5, NumberEmpty DEF Parsed

LEMMA ParsedDigit ==
  ASSUME NEW b, NEW ps, NEW num, NEW dirty, Parsed(b, ps, num, dirty), NEW c \in Int, c # 59
  PROVE  Parsed(Append(b, c), ps, num * 10 + (c - 48), TRUE)
<1>. DEFINE t == Append(b, c)
            m == Len(ps)
<1>1. b \in Seq(Int) /\ m = Cardinality(Semicolons(b)) /\ Ranked(b) /\ ps \in Seq(Int) /\ m \in Nat
      /\ num \in Int
  BY DEF Parsed
<1>2. t \in Seq(Int) /\ Len(t) = Len(b) + 1 /\ t[Len(t)] = c
  BY <1>1, AppendFacts
<1>3. Ranked(t) /\ Cardinality(Semicolons(t)) = m
  BY <1>1, SemisAppend
<1>4. /\ \A k \in 1 .. m : Field(t, k) = Field(b, k)
      /\ Field(t, m + 1) = Append(Field(b, m + 1), c)
      /\ Field(b, m + 1) \in Seq(Int)
  <2>1. m + 1 \in 1 .. m + 1
    BY <1>1
  <2>. QED  BY <1>1, <2>1, FieldsAppend
<1>5. Number(Field(t, m + 1)) = num * 10 + (c - 48)
  BY <1>4, NumberAppend DEF Parsed
<1>6. t # << >>
  BY <1>1, <1>2
<1>. HIDE DEF t
<1>. DEFINE x == num * 10 + (c - 48)
<1>7. x \in Int
  BY <1>1
<1>8. \A k \in 1 .. m : ps[k] = Number(Field(t, k))
  BY <1>4 DEF Parsed
<1>9. Number(Field(t, m + 1)) = x
  BY <1>5
<1>. HIDE DEF x
<1>10. Parsed(t, ps, x, TRUE)
  BY <1>1, <1>2, <1>3, <1>6, <1>7, <1>8, <1>9 DEF Parsed
<1>. QED  BY <1>10 DEF t, x

LEMMA ParsedSemicolon ==
  ASSUME NEW b, NEW ps, NEW num, NEW dirty, Parsed(b, ps, num, dirty)
  PROVE  Parsed(Append(b, 59), Append(ps, num), 0, FALSE)
<1>. DEFINE t == Append(b, 59)
            m == Len(ps)
            qs == Append(ps, num)
<1>1. b \in Seq(Int) /\ m = Cardinality(Semicolons(b)) /\ Ranked(b) /\ ps \in Seq(Int) /\ m \in Nat
      /\ num \in Int /\ 59 \in Int
  BY DEF Parsed
<1>2. t \in Seq(Int) /\ Len(t) = Len(b) + 1 /\ t[Len(t)] = 59
  BY <1>1, AppendFacts
<1>3. Ranked(t) /\ Cardinality(Semicolons(t)) = m + 1
  BY <1>1, SemisAppend
<1>4. /\ \A k \in 1 .. m : Field(t, k) = Field(b, k)
      /\ Field(t, m + 1) = Field(b, m + 1)
      /\ Field(t, m + 2) = << >>
  BY <1>1, FieldsAppend
<1>5. /\ qs \in Seq(Int) /\ Len(qs) = m + 1 /\ qs[m + 1] = num
      /\ \A k \in 1 .. m : qs[k] = ps[k]
  BY <1>1, AppendFacts
<1>. HIDE DEF t, qs
<1>6. ASSUME NEW k \in 1 .. Len(qs) PROVE qs[k] = Number(Field(t, k))
  <2>1. k \in 1 .. m \/ k = m + 1
    <3>1. k \in 1 .. m + 1
      BY <1>5
    <3>. QED  BY <1>1, <3>1
  <2>. QED  BY <1>4, <1>5, <2>1 DEF Parsed
<1>7. Number(Field(t, Len(qs) + 1)) = 0
  <2>1. Len(qs) + 1 = m + 2
    BY <1>1, <1>5
  <2>. QED  BY <1>4, <2>1, NumberEmpty
<1>8. Parsed(t, qs, 0, FALSE)
  BY <1>2, <1>3, <1>5, <1>6, <1>7 DEF Parsed
<1>. QED  BY <1>8 DEF t, qs

(* What FlushNumber then leaves is what the parameters say. *)
LEMMA ParsedParams ==
  ASSUME NEW b, NEW ps, NEW num, NEW dirty, Parsed(b, ps, num, dirty)
  PROVE  Params(b) = IF dirty THEN Append(ps, num) ELSE ps
<1>. DEFINE m == Len(ps)
<1>1. b \in Seq(Int) /\ m = Cardinality(Semicolons(b)) /\ ps \in Seq(Int) /\ m \in Nat
      /\ num \in Int /\ dirty \in BOOLEAN
  BY DEF Parsed
<1>2. NumFields(b) = IF dirty THEN m + 1 ELSE m
  BY <1>1 DEF NumFields, Parsed
<1>3. CASE dirty
  <2>. DEFINE qs == Append(ps, num)
  <2>0. /\ qs \in Seq(Int) /\ Len(qs) = m + 1 /\ qs[m + 1] = num
        /\ \A k \in 1 .. m : qs[k] = ps[k]
    BY <1>1, AppendFacts
  <2>. HIDE DEF qs
  <2>1. /\ qs = [k \in 1 .. m + 1 |-> qs[k]] /\ qs[m + 1] = num
        /\ \A k \in 1 .. m : qs[k] = ps[k]
    BY <1>1, <2>0
  <2>2. ASSUME NEW k \in 1 .. m + 1 PROVE qs[k] = Number(Field(b, k))
    <3>1. k \in 1 .. m \/ k = m + 1
      BY <1>1
    <3>2. CASE k = m + 1
      BY <2>1, <3>2 DEF Parsed
    <3>3. CASE k \in 1 .. m
      BY <2>1, <3>3 DEF Parsed
    <3>. QED  BY <3>1, <3>2, <3>3
  <2>3. Params(b) = [k \in 1 .. m + 1 |-> Number(Field(b, k))]
    BY <1>2, <1>3 DEF Params
  <2>4. Params(b) = qs
    BY <2>1, <2>2, <2>3
  <2>. QED  BY <1>3, <2>4 DEF qs
<1>4. CASE ~ dirty
  <2>1. ps = [k \in 1 .. m |-> ps[k]]
    BY <1>1
  <2>2. Params(b) = [k \in 1 .. m |-> Number(Field(b, k))]
    BY <1>2, <1>4 DEF Params
  <2>3. \A k \in 1 .. m : ps[k] = Number(Field(b, k))
    BY DEF Parsed
  <2>4. Params(b) = ps
    BY <2>1, <2>2, <2>3
  <2>. QED  BY <1>4, <2>4
<1>. QED  BY <1>1, <1>3, <1>4

-----------------------------------------------------------------------------
(* The decoder: what it remembers of the input under way is what the       *)
(* characters of that input say.                                           *)

ModSet == {"shift", "meta", "ctrl"}
ArrowKeys == {"UP", "DOWN", "LEFT", "RIGHT"}
OtherKeys == {"F1", "F2", "F3", "F4", "F5", "F6", "F7", "F8", "F9", "F10",
              "INSERT", "DEL", "PGUP", "PGDOWN"}
Keys == ArrowKeys \cup OtherKeys
InputTypes == {"PLAIN", "ESCSEQ", "FN_KEY", "MOUSE", "UNICODE"}
Inputs == [type : InputTypes, key : Keys, mods : SUBSET ModSet, params : Seq(Int)]
Labels == {"start", "unicode_char", "escape_seq", "fn_key", "csi_first",
           "csi_seq", "mouse_button", "mouse_x", "mouse_y", "spinning"}

DecTypes ==
  /\ typed \in Seq(0 .. 255)
  /\ in \in Inputs
  /\ parsed_num \in Int /\ parsed_num_dirty \in BOOLEAN
  /\ left \in Int
  /\ rc \in {-1, 0, 1}
  /\ at \in Labels

(* The parameters typed so far, between ^[[ or ^[[? and here *)
BodyStart(s) == IF Len(s) > 2 /\ s[3] = 63 THEN 4 ELSE 3
CsiBody(s) == SubSeq(s, BodyStart(s), Len(s))

Begun(s, n) == Len(s) = n /\ s[1] = ESC /\ (n > 1 => s[2] = 91) /\ (n > 2 => s[3] = 77)

InUnicode ==
  /\ typed # << >> /\ typed[1] > 127
  /\ Leading(typed[1]) \in 1 .. 4 /\ Len(typed) <= Leading(typed[1])
  /\ left = Leading(typed[1]) - Len(typed)
  /\ \A k \in 2 .. Len(typed) : typed[k] \in 128 .. 191
InCsi ==
  /\ Len(typed) > 1 /\ typed[1] = ESC /\ typed[2] = 91
  /\ Len(typed) > 2 => typed[3] # 77
  /\ Parsed(CsiBody(typed), in.params, parsed_num, parsed_num_dirty)

NoParams == << >>
NothingParsed == in.params = NoParams /\ parsed_num = 0

DecLabels ==
  /\ at = "unicode_char" => InUnicode /\ in.type = "UNICODE"
  /\ at = "escape_seq" => Begun(typed, 1) /\ in.type = "ESCSEQ" /\ NothingParsed
  /\ at = "fn_key" => /\ Len(typed) = 2 /\ typed[1] = ESC /\ typed[2] = 79
                      /\ in.type = "FN_KEY"
  /\ at = "csi_first" => Begun(typed, 2) /\ in.type = "ESCSEQ" /\ NothingParsed
  /\ at = "csi_seq" => InCsi /\ Len(typed) > 2 /\ in.type = "ESCSEQ"
  /\ at = "mouse_button" => Begun(typed, 3) /\ in.type = "MOUSE"
  /\ at = "mouse_x" => Begun(typed, 4) /\ in.type = "MOUSE" /\ ~BadButton(typed[4])
  /\ at = "mouse_y" => /\ Begun(typed, 5) /\ in.type = "MOUSE" /\ ~BadButton(typed[4])
                       /\ typed[5] \in 32 .. 127
  /\ at \in {"escape_seq", "fn_key", "csi_first", "csi_seq"} => in.mods = {}

DecInv ==
  /\ DecTypes
  /\ DecLabels
  /\ at # "start" => rc = 1
  /\ at = "start" /\ rc = 1 => typed = << >> /\ rejected = << >> /\ ansi_code = << >>
  /\ at \notin {"csi_seq", "spinning"} => ~parsed_num_dirty

-----------------------------------------------------------------------------
(* What timonerie then does with an input, good or bad. *)

LEMMA GoodDoes ==
  ASSUME NEW c, Good(c)
  PROVE  /\ in'.type = "ESCSEQ" => did' = LetterMeans(c)
         /\ in'.type \in {"UNICODE", "MOUSE"} => did' = Readline(FALSE)
         /\ in'.type = "FN_KEY" =>
              did' = IF in'.key \in ArrowKeys THEN ArrowMeans(in'.key, in'.mods)
                     ELSE Readline(FALSE)
         /\ in'.type = "PLAIN" /\ in'.mods = {} => did' = Readline(c = 12)
<1>. DEFINE i == in'
<1>1. CASE Used(i, c)
  <2>1. Use(i, c)
    BY <1>1 DEF Good
  <2>2. /\ ArrowUsed(i) => i.type \in {"PLAIN", "FN_KEY"} /\ i.key \in ArrowKeys
        /\ ArrowUsed(i) => Moves(i) \/ Focuses(i) \/ Scrolls(i)
        /\ LetterUsed(i, c) => i.type = "ESCSEQ" /\ c \in KeysUsed
    BY DEF ArrowUsed, LetterUsed, ArrowKeys
  <2>3. CASE LetterUsed(i, c)
    <3>1. did' = [what |-> "window", key |-> c]
      BY <2>1, <2>2, <2>3 DEF Use, Window
    <3>. QED  BY <2>2, <2>3, <3>1 DEF LetterMeans
  <2>4. CASE ArrowUsed(i)
    <3>1. did' = ArrowMeans(i.key, i.mods)
      <4>1. CASE Moves(i)
        <5>1. did' = [what |-> "move", dir |-> i.key]
          BY <2>1, <2>2, <2>4, <4>1 DEF Use, Window, Moves, Focuses, Scrolls
        <5>2. /\ i.mods = {"meta", "shift"} /\ ~ (i.mods = {"meta"})
              /\ ~ ("ctrl" \in i.mods /\ "meta" \notin i.mods)
          BY <4>1 DEF Moves
        <5>. QED  BY <5>1, <5>2, Zenon DEF ArrowMeans
      <4>2. CASE Focuses(i)
        <5>1. did' = [what |-> "focus", dir |-> i.key]
          BY <2>1, <2>2, <2>4, <4>2 DEF Use, Window, Moves, Focuses, Scrolls
        <5>. QED  BY <4>2, <5>1 DEF ArrowMeans, Focuses
      <4>3. CASE Scrolls(i)
        <5>1. did' = [what |-> "scroll", dir |-> i.key, far |-> "shift" \in i.mods]
          BY <2>1, <2>2, <2>4, <4>3 DEF Use, ScrollFocused, Moves, Focuses, Scrolls
        <5>2. ~ (i.mods = {"meta", "shift"}) /\ ~ (i.mods = {"meta"})
          BY <4>3 DEF Scrolls
        <5>3. "ctrl" \in i.mods /\ "meta" \notin i.mods
          BY <4>3 DEF Scrolls
        <5>. QED  BY <5>1, <5>2, <5>3, Zenon DEF ArrowMeans
      <4>. QED  BY <2>2, <2>4, <4>1, <4>2, <4>3
    <3>2. ~ (i.type = "PLAIN" /\ i.mods = {})
      BY <2>2, <2>4 DEF Moves, Focuses, Scrolls
    <3>. QED  BY <2>2, <2>4, <3>1, <3>2
  <2>. QED  BY <1>1, <2>3, <2>4 DEF Used
<1>2. CASE ~ Used(i, c)
  <2>1. did' = [what |-> "readline", redraw |-> i.type = "PLAIN" /\ c = 12]
    BY <1>2 DEF Good, PassOn
  <2>2. CASE i.type # "PLAIN"
    <3>1. (i.type = "PLAIN" /\ c = 12) = FALSE
      BY <2>2
    <3>2. did' = Readline(FALSE)
      BY <2>1, <3>1, Zenon DEF Readline
    <3>3. i.type = "ESCSEQ" => LetterMeans(c) = Readline(FALSE)
      BY <1>2 DEF LetterMeans, Used, LetterUsed
    <3>4. i.type = "FN_KEY" /\ i.key \in ArrowKeys => ArrowMeans(i.key, i.mods) = Readline(FALSE)
      <4>. SUFFICES ASSUME i.type = "FN_KEY", i.key \in ArrowKeys
                    PROVE  ArrowMeans(i.key, i.mods) = Readline(FALSE)
        OBVIOUS
      <4>1. ~ (Moves(i) \/ Focuses(i) \/ Scrolls(i))
        BY <1>2 DEF Used, ArrowUsed, ArrowKeys
      <4>2. /\ ~ (i.mods = {"meta", "shift"}) /\ ~ (i.mods = {"meta"})
            /\ ~ ("ctrl" \in i.mods /\ "meta" \notin i.mods)
        BY <4>1 DEF Moves, Focuses, Scrolls
      <4>. QED  BY <4>2, Zenon DEF ArrowMeans
    <3>. QED  BY <2>2, <3>2, <3>3, <3>4
  <2>3. CASE i.type = "PLAIN"
    <3>1. (i.type = "PLAIN" /\ c = 12) = (c = 12)
      BY <2>3
    <3>2. did' = Readline(c = 12)
      BY <2>1, <3>1, Zenon DEF Readline
    <3>. QED  BY <2>3, <3>2
  <2>. QED  BY <2>2, <2>3
<1>. QED  BY <1>1, <1>2

LEMMA Outcomes ==
  ASSUME NEW c, Good(c) \/ Bad(c) \/ More(c)
  PROVE  /\ rc' \in {-1, 0, 1}
         /\ rc' = 0 => Good(c)
         /\ rc' = -1 => did' = Failed
BY DEF Good, Bad, More

-----------------------------------------------------------------------------
(* One lemma per label.  Each says what DecInv needs of the next state,    *)
(* and that the input that ends here was taken for what its characters say.*)

LEMMA LeadingIs ==
  ASSUME NEW c \in 128 .. 255
  PROVE  Leading(c) \in 1 .. 8
<1>1. \E n \in 1 .. 8 : FirstWith[n] <= c /\ (n = 8 \/ c < FirstWith[n + 1])
  <2>1. /\ FirstWith[1] = 128 /\ FirstWith[2] = 192 /\ FirstWith[3] = 224 /\ FirstWith[4] = 240
        /\ FirstWith[5] = 248 /\ FirstWith[6] = 252 /\ FirstWith[7] = 254 /\ FirstWith[8] = 255
    BY DEF FirstWith
  <2>2. CASE c < 192  BY <2>1, <2>2
  <2>3. CASE c >= 192 /\ c < 224  BY <2>1, <2>3
  <2>4. CASE c >= 224 /\ c < 240  BY <2>1, <2>4
  <2>5. CASE c >= 240 /\ c < 248  BY <2>1, <2>5
  <2>6. CASE c >= 248 /\ c < 252  BY <2>1, <2>6
  <2>7. CASE c >= 252 /\ c < 254  BY <2>1, <2>7
  <2>8. CASE c >= 254 /\ c < 255  BY <2>1, <2>8
  <2>9. CASE c = 255  BY <2>1, <2>9
  <2>. QED  BY <2>2, <2>3, <2>4, <2>5, <2>6, <2>7, <2>8, <2>9
<1>. QED  BY <1>1, Zenon DEF Leading

LEMMA InputFields ==
  ASSUME NEW i \in Inputs
  PROVE  /\ i.type \in InputTypes /\ i.key \in Keys
         /\ i.params \in Seq(Int) /\ i.mods \in SUBSET ModSet
BY DEF Inputs

LEMMA WithType ==
  ASSUME NEW i \in Inputs, NEW ty \in InputTypes, NEW j, j = [i EXCEPT !.type = ty]
  PROVE  j \in Inputs /\ j.type = ty /\ j.key = i.key /\ j.mods = i.mods /\ j.params = i.params
BY DEF Inputs

LEMMA WithKey ==
  ASSUME NEW i \in Inputs, NEW k \in Keys, NEW j, j = [i EXCEPT !.key = k]
  PROVE  j \in Inputs /\ j.type = i.type /\ j.key = k /\ j.mods = i.mods /\ j.params = i.params
BY DEF Inputs

LEMMA WithMods ==
  ASSUME NEW i \in Inputs, NEW m \in SUBSET ModSet, NEW j, j = [i EXCEPT !.mods = m]
  PROVE  j \in Inputs /\ j.type = i.type /\ j.key = i.key /\ j.mods = m /\ j.params = i.params
BY DEF Inputs

LEMMA WithParams ==
  ASSUME NEW i \in Inputs, NEW p \in Seq(Int), NEW j, j = [i EXCEPT !.params = p]
  PROVE  j \in Inputs /\ j.type = i.type /\ j.key = i.key /\ j.mods = i.mods /\ j.params = p
BY DEF Inputs

(* What the code of one character leaves behind. *)
Taken ==
  /\ DecTypes' /\ DecLabels'
  /\ at' # "start" => rc' = 1
  /\ at' = "start" => rc' # 1
  /\ at' \notin {"csi_seq", "spinning"} => ~parsed_num_dirty'
  /\ rc' # 1 => did' = Meaning(typed')

(* The input ends here ... *)
LEMMA EndTaken ==
  ASSUME typed' \in Seq(0 .. 255), in' \in Inputs, parsed_num' \in Int, parsed_num_dirty' = FALSE,
         left' \in Int, at' = "start", rc' \in {-1, 0}, did' = Meaning(typed')
  PROVE  Taken
<1>1. DecTypes'
  BY DEF DecTypes, Labels
<1>2. DecLabels'
  BY DEF DecLabels
<1>. QED  BY <1>1, <1>2 DEF Taken

(* ... or goes on. *)
LEMMA MoreTaken ==
  ASSUME typed' \in Seq(0 .. 255), in' \in Inputs, parsed_num' \in Int, parsed_num_dirty' \in BOOLEAN,
         left' \in Int, at' \in Labels, at' # "start", rc' = 1, DecLabels',
         at' \notin {"csi_seq", "spinning"} => ~parsed_num_dirty'
  PROVE  Taken
<1>1. DecTypes'
  BY DEF DecTypes
<1>. QED  BY <1>1 DEF Taken

LEMMA MeaningIs ==
  ASSUME NEW s \in Seq(0 .. 255), Len(s) > 0
  PROVE  /\ s[1] > 127 => Meaning(s) = UnicodeMeans(s)
         /\ s[1] < 128 /\ s[1] # ESC => Meaning(s) = Readline(s[1] = 12)
         /\ s[1] = ESC /\ s[2] = 79 =>
              Meaning(s) = IF s[3] \in DOMAIN F1to4 THEN Readline(FALSE) ELSE Failed
         /\ s[1] = ESC /\ s[2] = 91 =>
              Meaning(s) = IF s[3] = 77 THEN MouseMeans(SubSeq(s, 4, Len(s)))
                           ELSE ControlMeans(Params(SubSeq(s, IF Len(s) > 3 /\ s[3] = 63 THEN 4 ELSE 3, Len(s) - 1)),
                                             s[Len(s)])
         /\ s[1] = ESC /\ s[2] # 79 /\ s[2] # 91 =>
              Meaning(s) = IF isprint(s[2]) THEN LetterMeans(s[2]) ELSE Failed
<1>0. 1 \in 1 .. Len(s)
  OBVIOUS
<1>b. s[1] \in 0 .. 255
  BY <1>0, ElementOfSeq
<1>1. PICK x \in 0 .. 255 : x = s[1]
  BY <1>b, Zenon
<1>a. /\ x > 127 => x # 27 /\ ~ (x \notin {27} \cup 128 .. 255)
      /\ x < 128 /\ x # 27 => ~ (x > 127) /\ x \notin {27} \cup 128 .. 255
      /\ x = 27 => ~ (x > 127) /\ ~ (x \notin {27} \cup 128 .. 255)
  OBVIOUS
<1>2. /\ s[1] > 127 => s[1] # ESC /\ ~ (s[1] \notin {ESC} \cup 128 .. 255)
      /\ s[1] < 128 /\ s[1] # ESC => ~ (s[1] > 127) /\ s[1] \notin {ESC} \cup 128 .. 255
      /\ s[1] = ESC => ~ (s[1] > 127) /\ ~ (s[1] \notin {ESC} \cup 128 .. 255)
  BY <1>1, <1>a, Zenon DEF ESC
<1>3. 79 # 91
  OBVIOUS
<1>4. s[1] > 127 => Meaning(s) = UnicodeMeans(s)
  BY <1>2, Zenon DEF Meaning
<1>5. s[1] < 128 /\ s[1] # ESC => Meaning(s) = Readline(s[1] = 12)
  BY <1>2, Zenon DEF Meaning
<1>6. s[1] = ESC /\ s[2] = 79 =>
        Meaning(s) = IF s[3] \in DOMAIN F1to4 THEN Readline(FALSE) ELSE Failed
  BY <1>2, <1>3, Zenon DEF Meaning
<1>7. s[1] = ESC /\ s[2] = 91 =>
        Meaning(s) = IF s[3] = 77 THEN MouseMeans(SubSeq(s, 4, Len(s)))
                     ELSE ControlMeans(Params(SubSeq(s, IF Len(s) > 3 /\ s[3] = 63 THEN 4 ELSE 3, Len(s) - 1)),
                                       s[Len(s)])
  BY <1>2, <1>3, Zenon DEF Meaning
<1>8. s[1] = ESC /\ s[2] # 79 /\ s[2] # 91 =>
        Meaning(s) = IF isprint(s[2]) THEN LetterMeans(s[2]) ELSE Failed
  BY <1>2, Zenon DEF Meaning
<1>. QED  BY <1>4, <1>5, <1>6, <1>7, <1>8

(* What the tables of the decoder hold. *)
LEMMA F1to4Are ==
  /\ DOMAIN F1to4 = 80 .. 83
  /\ \A c \in 80 .. 83 : F1to4[c] \in OtherKeys
<1>1. /\ F1to4[80] = "F1" /\ F1to4[81] = "F2" /\ F1to4[82] = "F3" /\ F1to4[83] = "F4"
      /\ DOMAIN F1to4 = 80 .. 83
  BY DEF F1to4
<1>2. \A c \in 80 .. 83 : c = 80 \/ c = 81 \/ c = 82 \/ c = 83
  OBVIOUS
<1>. QED  BY <1>1, <1>2 DEF OtherKeys

LEMMA ArrowsAre ==
  /\ DOMAIN Arrows = 65 .. 68
  /\ \A c \in 65 .. 68 : Arrows[c] \in ArrowKeys
<1>1. /\ Arrows[65] = "UP" /\ Arrows[66] = "DOWN" /\ Arrows[67] = "RIGHT" /\ Arrows[68] = "LEFT"
      /\ DOMAIN Arrows = 65 .. 68
  BY DEF Arrows
<1>2. \A c \in 65 .. 68 : c = 65 \/ c = 66 \/ c = 67 \/ c = 68
  OBVIOUS
<1>. QED  BY <1>1, <1>2 DEF ArrowKeys

LEMMA FnKeysAre ==
  /\ DOMAIN FnKeys = (DOMAIN Arrows) \cup (DOMAIN F1to4)
  /\ \A c \in DOMAIN Arrows : FnKeys[c] = Arrows[c]
  /\ \A c \in DOMAIN F1to4 : FnKeys[c] = F1to4[c]
<1>1. DOMAIN FnKeys = (DOMAIN Arrows) \cup (DOMAIN F1to4)
  BY DEF FnKeys
<1>2. \A c \in DOMAIN FnKeys : FnKeys[c] = IF c \in DOMAIN Arrows THEN Arrows[c] ELSE F1to4[c]
  BY DEF FnKeys
<1>3. \A c \in DOMAIN F1to4 : c \notin DOMAIN Arrows
  BY F1to4Are, ArrowsAre
<1>. QED  BY <1>1, <1>2, <1>3

LEMMA TildeKeysAre ==
  ASSUME NEW p \in DOMAIN TildeKeys
  PROVE  TildeKeys[p] \in OtherKeys
<1>1. p \in {2, 3, 5, 6, 15} \cup 17 .. 21
  BY DEF TildeKeys
<1>2. TildeKeys[p] =
       CASE p = 2 -> "INSERT" [] p = 3 -> "DEL" [] p = 5 -> "PGUP" [] p = 6 -> "PGDOWN"
         [] p = 15 -> "F5" [] p = 17 -> "F6" [] p = 18 -> "F7" [] p = 19 -> "F8"
         [] p = 20 -> "F9" [] p = 21 -> "F10"
  BY <1>1 DEF TildeKeys
<1>3. p = 2 \/ p = 3 \/ p = 5 \/ p = 6 \/ p = 15 \/ p = 17 \/ p = 18 \/ p = 19 \/ p = 20 \/ p = 21
  BY <1>1
<1>. QED  BY <1>2, <1>3 DEF OtherKeys

(* parse_modifier_code knows a modifier parameter by a table; it is one    *)
(* more than a mask.                                                       *)
LEMMA CodeModsAreMasks ==
  /\ DOMAIN CodeMods = 2 .. 8
  /\ \A p \in 2 .. 8 : CodeMods[p] = MaskOf(p) /\ CodeMods[p] \in SUBSET ModSet
<1>1. DOMAIN CodeMods = 2 .. 8
  BY DEF CodeMods
<1>2. /\ CodeMods[2] = {"shift"} /\ CodeMods[3] = {"meta"} /\ CodeMods[4] = {"shift", "meta"}
      /\ CodeMods[5] = {"ctrl"} /\ CodeMods[6] = {"ctrl", "shift"} /\ CodeMods[7] = {"ctrl", "meta"}
      /\ CodeMods[8] = {"ctrl", "shift", "meta"}
  BY DEF CodeMods
<1>3. ASSUME NEW p \in 2 .. 8
      PROVE  MaskOf(p) = {m \in ModSet : \/ m = "shift" /\ Bit(p - 1, 1)
                                         \/ m = "meta" /\ Bit(p - 1, 2)
                                         \/ m = "ctrl" /\ Bit(p - 1, 4)}
  BY DEF MaskOf, ModSet
<1>4. /\ Bit(1, 1) /\ ~Bit(1, 2) /\ ~Bit(1, 4)
      /\ ~Bit(2, 1) /\ Bit(2, 2) /\ ~Bit(2, 4)
      /\ Bit(3, 1) /\ Bit(3, 2) /\ ~Bit(3, 4)
      /\ ~Bit(4, 1) /\ ~Bit(4, 2) /\ Bit(4, 4)
      /\ Bit(5, 1) /\ ~Bit(5, 2) /\ Bit(5, 4)
      /\ ~Bit(6, 1) /\ Bit(6, 2) /\ Bit(6, 4)
      /\ Bit(7, 1) /\ Bit(7, 2) /\ Bit(7, 4)
  BY DEF Bit
<1>5. /\ MaskOf(2) = {"shift"} /\ MaskOf(3) = {"meta"} /\ MaskOf(4) = {"shift", "meta"}
      /\ MaskOf(5) = {"ctrl"} /\ MaskOf(6) = {"ctrl", "shift"} /\ MaskOf(7) = {"ctrl", "meta"}
      /\ MaskOf(8) = {"ctrl", "shift", "meta"}
  <2>1. MaskOf(2) = {"shift"}  BY <1>3, <1>4 DEF ModSet
  <2>2. MaskOf(3) = {"meta"}  BY <1>3, <1>4 DEF ModSet
  <2>3. MaskOf(4) = {"shift", "meta"}  BY <1>3, <1>4 DEF ModSet
  <2>4. MaskOf(5) = {"ctrl"}  BY <1>3, <1>4 DEF ModSet
  <2>5. MaskOf(6) = {"ctrl", "shift"}  BY <1>3, <1>4 DEF ModSet
  <2>6. MaskOf(7) = {"ctrl", "meta"}  BY <1>3, <1>4 DEF ModSet
  <2>7. MaskOf(8) = {"ctrl", "shift", "meta"}  BY <1>3, <1>4 DEF ModSet
  <2>. QED  BY <2>1, <2>2, <2>3, <2>4, <2>5, <2>6, <2>7
<1>6. \A p \in 2 .. 8 : p = 2 \/ p = 3 \/ p = 4 \/ p = 5 \/ p = 6 \/ p = 7 \/ p = 8
  OBVIOUS
<1>7. \A p \in 2 .. 8 : CodeMods[p] = MaskOf(p)
  BY <1>2, <1>5, <1>6
<1>8. \A p \in 2 .. 8 : CodeMods[p] \in SUBSET ModSet
  BY <1>2, <1>6 DEF ModSet
<1>. QED  BY <1>1, <1>7, <1>8

LEMMA ClearedIs ==
  ASSUME NEW i \in Inputs, NEW ty \in InputTypes
  PROVE  /\ [Cleared(i) EXCEPT !.type = ty] \in Inputs
         /\ [Cleared(i) EXCEPT !.type = ty].type = ty
         /\ [Cleared(i) EXCEPT !.type = ty].mods = {}
<1>1. Cleared(i) = [[i EXCEPT !.params = NoParams] EXCEPT !.mods = {}]
  BY DEF Cleared, NoParams
<1>2. NoParams \in Seq(Int) /\ {} \in SUBSET ModSet
  BY DEF NoParams
<1>. QED  BY <1>1, <1>2 DEF Inputs

LEMMA ClearedParams ==
  ASSUME NEW i \in Inputs, NEW ty \in InputTypes
  PROVE  [Cleared(i) EXCEPT !.type = ty].params = NoParams
<1>1. Cleared(i) = [[i EXCEPT !.params = NoParams] EXCEPT !.mods = {}]
  BY DEF Cleared, NoParams
<1>. QED  BY <1>1 DEF Inputs

LEMMA StartTaken ==
  ASSUME DecInv, NEW c \in 0 .. 255, Start(c), Record(c), Good(c) \/ Bad(c) \/ More(c)
  PROVE  Taken
<1>1. /\ at = "start" /\ parsed_num' = 0 /\ parsed_num_dirty' = FALSE
      /\ parsed_num' \in Int /\ parsed_num_dirty' \in BOOLEAN
      /\ in \in Inputs /\ left \in Int
  BY DEF Start, DecInv, DecTypes
<1>2. /\ typed' = <<c>> /\ typed' \in Seq(0 .. 255)
      /\ Len(typed') = 1 /\ typed'[1] = c
  BY <1>1 DEF Record
<1>3. "PLAIN" \in InputTypes /\ "ESCSEQ" \in InputTypes /\ "UNICODE" \in InputTypes
  BY DEF InputTypes
<1>4. CASE c < 128 /\ c # ESC
  <2>1. /\ at' = "start" /\ rc' = 0 /\ left' = left
        /\ in' = [Cleared(in) EXCEPT !.type = "PLAIN"]
    BY <1>4 DEF Start, Accept, Finish
  <2>2. in' \in Inputs /\ in'.type = "PLAIN" /\ in'.mods = {}
    BY <1>1, <1>3, <2>1, ClearedIs
  <2>3. did' = Readline(c = 12)
    BY <2>1, <2>2, Outcomes, GoodDoes
  <2>4. Meaning(typed') = Readline(c = 12)
    <3>1. Len(typed') > 0
      BY <1>2
    <3>. QED  BY <1>2, <1>4, <3>1, MeaningIs, Zenon
  <2>. QED  BY <1>1, <1>2, <2>1, <2>2, <2>3, <2>4, EndTaken, Zenon
<1>5. CASE c = ESC
  <2>1. /\ at' = "escape_seq" /\ rc' = 1 /\ left' = left
        /\ in' = [Cleared(in) EXCEPT !.type = "ESCSEQ"]
    BY <1>5 DEF Start, Continue, ESC
  <2>2. in' \in Inputs /\ in'.type = "ESCSEQ" /\ in'.mods = {} /\ in'.params = NoParams
    BY <1>1, <1>3, <2>1, ClearedIs, ClearedParams
  <2>3. Begun(typed', 1)
    BY <1>2, <1>5 DEF Begun
  <2>4. DecLabels'
    BY <1>1, <2>1, <2>2, <2>3 DEF DecLabels, NothingParsed
  <2>. QED  BY <1>1, <1>2, <2>1, <2>2, <2>4, MoreTaken, Zenon DEF Labels
<1>6. CASE c > 127
  <2>. DEFINE u == [Cleared(in) EXCEPT !.type = "UNICODE"]
  <2>1. u \in Inputs /\ u.type = "UNICODE" /\ u.mods = {}
    BY <1>1, <1>3, ClearedIs
  <2>2. Leading(c) \in 1 .. 8
    BY <1>6, LeadingIs
  <2>3. Meaning(typed') = UnicodeMeans(typed')
    <3>1. Len(typed') > 0
      BY <1>2
    <3>. QED  BY <1>2, <1>6, <3>1, MeaningIs, Zenon
  <2>. HIDE DEF u
  <2>4. CASE Leading(c) > 4
    <3>1. at' = "start" /\ rc' = -1 /\ in' = u /\ left' = left
      BY <1>6, <2>4 DEF Start, Reject, Finish, ESC, u
    <3>2. did' = Failed
      BY <3>1, Outcomes
    <3>3. UnicodeMeans(typed') = Failed
      BY <1>2 DEF UnicodeMeans
    <3>. QED  BY <1>1, <1>2, <2>1, <2>3, <3>1, <3>2, <3>3, EndTaken, Zenon
  <2>5. CASE ~ (Leading(c) > 4)
    <3>1. at' = "unicode_char" /\ rc' = 1 /\ in' = u /\ left' = Leading(c) - 1
      BY <1>6, <2>5 DEF Start, Continue, ESC, u
    <3>2. InUnicode'
      <4>1. Leading(c) \in 1 .. 4
        BY <2>2, <2>5
      <4>. QED  BY <1>2, <1>6, <3>1, <4>1 DEF InUnicode
    <3>3. left' \in Int
      BY <2>2, <3>1
    <3>4. DecLabels'
      BY <2>1, <3>1, <3>2 DEF DecLabels
    <3>. QED  BY <1>1, <1>2, <2>1, <3>1, <3>3, <3>4, MoreTaken, Zenon DEF Labels
  <2>. QED  BY <2>4, <2>5
<1>. QED  BY <1>4, <1>5, <1>6 DEF ESC

(* The characters so far, one more of them. *)
LEMMA TypedMore ==
  ASSUME DecInv, NEW c \in 0 .. 255, at # "start", Record(c)
  PROVE  /\ typed' = Append(typed, c)
         /\ typed' \in Seq(0 .. 255) /\ Len(typed') = Len(typed) + 1 /\ Len(typed) \in Nat
         /\ typed'[Len(typed) + 1] = c
         /\ \A k \in 1 .. Len(typed) : typed'[k] = typed[k]
         /\ rejected' = rejected
<1>1. typed' = Append(typed, c) /\ rc = 1 /\ typed \in Seq(0 .. 255)
  BY DEF Record, DecInv, DecTypes
<1>2. rejected' = rejected
  BY <1>1 DEF Record
<1>. QED  BY <1>1, <1>2

LEMMA UnicodeTaken ==
  ASSUME DecInv, NEW c \in 0 .. 255, UnicodeChar(c), Record(c), Good(c) \/ Bad(c) \/ More(c)
  PROVE  Taken
<1>1. /\ at = "unicode_char" /\ parsed_num' = parsed_num /\ parsed_num_dirty' = parsed_num_dirty
      /\ InUnicode /\ in.type = "UNICODE" /\ in \in Inputs /\ parsed_num_dirty = FALSE
      /\ left \in Int /\ parsed_num \in Int
      /\ typed \in Seq(0 .. 255)
  BY DEF UnicodeChar, NoNumber, DecInv, DecLabels, DecTypes
<1>. DEFINE t == typed'
            n == Len(typed)
<1>2. /\ t \in Seq(0 .. 255) /\ Len(t) = n + 1 /\ t[n + 1] = c
      /\ \A k \in 1 .. n : t[k] = typed[k]
      /\ n \in Nat
  <2>1. at # "start"
    BY <1>1
  <2>. QED  BY <2>1, TypedMore, Zenon
<1>3. /\ n \in 1 .. 4 /\ typed[1] > 127 /\ Leading(typed[1]) \in 1 .. 4
      /\ n <= Leading(typed[1]) /\ left = Leading(typed[1]) - n
      /\ \A k \in 2 .. n : typed[k] \in 128 .. 191
  <2>1. n # 0
    BY <1>1 DEF InUnicode
  <2>2. Leading(typed[1]) \in 1 .. 4 /\ n <= Leading(typed[1])
    BY <1>1 DEF InUnicode
  <2>3. n \in 1 .. 4
    <3>1. n \in Nat
      BY <1>2
    <3>2. PICK l \in 1 .. 4 : l = Leading(typed[1]) /\ n <= l
      BY <2>2
    <3>. HIDE DEF n
    <3>. QED  BY <2>1, <3>1, <3>2
  <2>. QED  BY <1>1, <2>2, <2>3, Zenon DEF InUnicode
<1>4. t[1] = typed[1] /\ Meaning(t) = UnicodeMeans(t)
  <2>1. t[1] = typed[1] /\ Len(t) > 0
    BY <1>2, <1>3
  <2>. QED  BY <1>2, <1>3, <2>1, MeaningIs, Zenon
<1>. HIDE DEF t, n
<1>5. c \div 64 = 2 <=> c \in 128 .. 191
  OBVIOUS
<1>6. CASE left = 0 \/ c \div 64 # 2
  <2>1. at' = "start" /\ rc' = -1 /\ in' = in /\ left' = left
    BY <1>6 DEF UnicodeChar, Reject, Finish
  <2>2. UnicodeMeans(t) = Failed
    <3>1. CASE left = 0
      <4>1. Leading(t[1]) # Len(t)
        BY <1>2, <1>3, <1>4, <3>1
      <4>. QED  BY <4>1 DEF UnicodeMeans
    <3>2. CASE c \div 64 # 2
      <4>1. n + 1 \in 2 .. Len(t) /\ t[n + 1] \notin 128 .. 191
        BY <1>2, <1>3, <1>5, <3>2
      <4>. QED  BY <4>1 DEF UnicodeMeans
    <3>. QED  BY <1>6, <3>1, <3>2
  <2>3. did' = Failed
    BY <2>1, Outcomes
  <2>. QED  BY <1>1, <1>2, <1>4, <2>1, <2>2, <2>3, EndTaken, Zenon DEF t
<1>7. CASE ~ (left = 0 \/ c \div 64 # 2)
  <2>1. left' = left - 1 /\ in' = in
    BY <1>7 DEF UnicodeChar, Accept, Continue, Finish
  <2>2. \A k \in 2 .. n + 1 : t[k] \in 128 .. 191
    <3>. SUFFICES ASSUME NEW k \in 2 .. n + 1 PROVE t[k] \in 128 .. 191
      OBVIOUS
    <3>1. CASE k = n + 1
      BY <1>2, <1>5, <1>7, <3>1
    <3>2. CASE k # n + 1
      <4>1. k \in 1 .. n /\ k \in 2 .. n
        BY <1>2, <3>2
      <4>2. t[k] = typed[k]
        BY <1>2, <4>1, Zenon
      <4>3. typed[k] \in 128 .. 191
        BY <1>3, <4>1, Zenon
      <4>. QED  BY <4>2, <4>3
    <3>. QED  BY <3>1, <3>2
  <2>3. CASE left = 1
    <3>1. at' = "start" /\ rc' = 0
      BY <1>7, <2>3 DEF UnicodeChar, Accept, Finish
    <3>2. did' = Readline(FALSE)
      BY <1>1, <2>1, <3>1, Outcomes, GoodDoes
    <3>3. UnicodeMeans(t) = Readline(FALSE)
      <4>1. Len(t) \in 2 .. 4 /\ Leading(t[1]) = Len(t)
        BY <1>2, <1>3, <1>4, <2>3
      <4>2. \A k \in 2 .. Len(t) : t[k] \in 128 .. 191
        BY <1>2, <2>2
      <4>. QED  BY <4>1, <4>2, Zenon DEF UnicodeMeans
    <3>4. left' \in Int
      BY <1>1, <2>1
    <3>. QED  BY <1>1, <1>2, <1>4, <2>1, <3>1, <3>2, <3>3, <3>4, EndTaken, Zenon DEF t
  <2>4. CASE left # 1
    <3>1. at' = "unicode_char" /\ rc' = 1
      BY <1>7, <2>4 DEF UnicodeChar, Continue
    <3>2. InUnicode'
      <4>. DEFINE l == Leading(typed[1])
      <4>0. Leading(t[1]) = l
        BY <1>4
      <4>. HIDE DEF l
      <4>1. n + 1 <= l /\ left' = l - (n + 1) /\ l \in 1 .. 4
        <5>1. l \in 1 .. 4 /\ left = l - n /\ n \in 1 .. 4 /\ n <= l
          BY <1>3 DEF l
        <5>. QED  BY <1>7, <2>1, <2>4, <5>1
      <4>2. t # << >> /\ t[1] > 127
        BY <1>2, <1>3, <1>4
      <4>. QED  BY <1>2, <2>2, <4>0, <4>1, <4>2 DEF InUnicode, t
    <3>3. left' \in Int
      BY <1>1, <2>1
    <3>4. DecLabels'
      BY <1>1, <2>1, <3>1, <3>2 DEF DecLabels
    <3>. QED  BY <1>1, <1>2, <2>1, <3>1, <3>3, <3>4, MoreTaken, Zenon DEF Labels, t
  <2>. QED  BY <2>3, <2>4
<1>. QED  BY <1>6, <1>7

LEMMA EscapeTaken ==
  ASSUME DecInv, NEW c \in 0 .. 255, EscapeSeq(c), Record(c), Good(c) \/ Bad(c) \/ More(c)
  PROVE  Taken
<1>1. /\ at = "escape_seq" /\ parsed_num' = parsed_num /\ parsed_num_dirty' = parsed_num_dirty
      /\ left' = left /\ Len(typed) = 1 /\ typed[1] = ESC /\ in.type = "ESCSEQ" /\ in.mods = {}
      /\ in.params = NoParams /\ parsed_num = 0 /\ parsed_num \in Int /\ parsed_num_dirty = FALSE
      /\ in \in Inputs /\ left \in Int
  BY DEF EscapeSeq, NoNumber, DecInv, DecLabels, DecTypes, Begun, NothingParsed
<1>. DEFINE t == typed'
<1>2. t \in Seq(0 .. 255) /\ Len(t) = 2 /\ t[1] = ESC /\ t[2] = c
  <2>1. at # "start"
    BY <1>1
  <2>2. /\ t \in Seq(0 .. 255) /\ Len(t) = Len(typed) + 1 /\ t[Len(typed) + 1] = c
        /\ \A k \in 1 .. Len(typed) : t[k] = typed[k]
    BY <2>1, TypedMore, Zenon
  <2>. HIDE DEF t
  <2>. QED  BY <1>1, <2>2
<1>. HIDE DEF t
<1>3. CASE c = 79
  <2>1. at' = "fn_key" /\ rc' = 1 /\ in' = [in EXCEPT !.type = "FN_KEY"]
    BY <1>3 DEF EscapeSeq, Continue
  <2>2. in' \in Inputs /\ in'.type = "FN_KEY" /\ in'.mods = {}
    <3>1. "FN_KEY" \in InputTypes
      BY DEF InputTypes
    <3>. QED  BY <1>1, <2>1, <3>1, WithType
  <2>3. DecLabels'
    BY <1>2, <1>3, <2>1, <2>2 DEF DecLabels, t
  <2>. QED  BY <1>1, <1>2, <2>1, <2>2, <2>3, MoreTaken, Zenon DEF Labels, t
<1>4. CASE c = 91
  <2>1. at' = "csi_first" /\ rc' = 1 /\ in' = in
    BY <1>4 DEF EscapeSeq, Continue
  <2>2. DecLabels'
    BY <1>1, <1>2, <1>4, <2>1 DEF DecLabels, Begun, NothingParsed, t
  <2>. QED  BY <1>1, <1>2, <2>1, <2>2, MoreTaken, Zenon DEF Labels, t
<1>5. CASE c # 79 /\ c # 91
  <2>1. IF isprint(c) THEN Accept(in) ELSE Reject(in)
    BY <1>5 DEF EscapeSeq
  <2>2. at' = "start" /\ in' = in /\ rc' = IF isprint(c) THEN 0 ELSE -1
    BY <2>1 DEF Accept, Reject, Finish
  <2>3. did' = IF isprint(c) THEN LetterMeans(c) ELSE Failed
    BY <1>1, <2>2, Outcomes, GoodDoes
  <2>4. Meaning(t) = IF isprint(c) THEN LetterMeans(c) ELSE Failed
    <3>1. Len(t) > 0
      BY <1>2
    <3>. QED  BY <1>2, <1>5, <3>1, MeaningIs, Zenon
  <2>. QED  BY <1>1, <1>2, <2>2, <2>3, <2>4, EndTaken, Zenon DEF t
<1>. QED  BY <1>3, <1>4, <1>5

LEMMA FnKeyTaken ==
  ASSUME DecInv, NEW c \in 0 .. 255, FnKey(c), Record(c), Good(c) \/ Bad(c) \/ More(c)
  PROVE  Taken
<1>1. /\ at = "fn_key" /\ parsed_num' = parsed_num /\ parsed_num_dirty' = parsed_num_dirty
      /\ left' = left
      /\ Len(typed) = 2 /\ typed[1] = ESC /\ typed[2] = 79 /\ in.type = "FN_KEY"
      /\ parsed_num_dirty = FALSE /\ in \in Inputs /\ left \in Int /\ parsed_num \in Int
  BY DEF FnKey, NoNumber, DecInv, DecLabels, DecTypes
<1>. DEFINE t == typed'
<1>2. t \in Seq(0 .. 255) /\ Len(t) = 3 /\ t[1] = ESC /\ t[2] = 79 /\ t[3] = c
  <2>1. at # "start"
    BY <1>1
  <2>2. /\ t \in Seq(0 .. 255) /\ Len(t) = Len(typed) + 1 /\ t[Len(typed) + 1] = c
        /\ \A k \in 1 .. Len(typed) : t[k] = typed[k]
    BY <2>1, TypedMore, Zenon
  <2>. HIDE DEF t
  <2>. QED  BY <1>1, <2>2
<1>. HIDE DEF t
<1>3. Meaning(t) = IF c \in DOMAIN F1to4 THEN Readline(FALSE) ELSE Failed
  <2>1. Len(t) > 0
    BY <1>2
  <2>. QED  BY <1>2, <2>1, MeaningIs, Zenon
<1>4. CASE c \in DOMAIN F1to4
  <2>1. at' = "start" /\ rc' = 0 /\ in' = [in EXCEPT !.key = F1to4[c]]
    BY <1>4 DEF FnKey, Accept, Finish
  <2>2. F1to4[c] \in Keys /\ F1to4[c] \notin ArrowKeys
    BY <1>4, F1to4Are DEF Keys, OtherKeys, ArrowKeys
  <2>3. in' \in Inputs /\ in'.type = "FN_KEY" /\ in'.key = F1to4[c]
    BY <1>1, <2>1, <2>2, WithKey
  <2>4. did' = Readline(FALSE)
    BY <2>1, <2>2, <2>3, Outcomes, GoodDoes
  <2>. QED  BY <1>1, <1>2, <1>3, <1>4, <2>1, <2>3, <2>4, EndTaken, Zenon DEF t
<1>5. CASE c \notin DOMAIN F1to4
  <2>1. at' = "start" /\ rc' = -1 /\ in' = in
    BY <1>5 DEF FnKey, Reject, Finish
  <2>2. did' = Failed
    BY <2>1, Outcomes
  <2>. QED  BY <1>1, <1>2, <1>3, <1>5, <2>1, <2>2, EndTaken, Zenon DEF t
<1>. QED  BY <1>4, <1>5

-----------------------------------------------------------------------------
(* The final characters of a control sequence *)

LEMMA AcceptDoes ==
  ASSUME NEW c, Good(c) \/ Bad(c) \/ More(c), NEW i, Accept(i), i.type = "FN_KEY"
  PROVE  /\ at' = "start" /\ rc' = 0 /\ in' = i
         /\ did' = IF i.key \in ArrowKeys THEN ArrowMeans(i.key, i.mods) ELSE Readline(FALSE)
<1>1. at' = "start" /\ rc' = 0 /\ in' = i
  BY DEF Accept, Finish
<1>2. Good(c)
  BY <1>1, Outcomes
<1>. QED  BY <1>1, <1>2, GoodDoes

LEMMA RejectDoes ==
  ASSUME NEW c, Good(c) \/ Bad(c) \/ More(c), NEW i, Reject(i)
  PROVE  at' = "start" /\ rc' = -1 /\ in' = i /\ did' = Failed
<1>1. at' = "start" /\ rc' = -1 /\ in' = i
  BY DEF Reject, Finish
<1>. QED  BY <1>1, Outcomes

(* parse_modifier_code *)
LEMMA ModifiedDoes ==
  ASSUME NEW c, Good(c) \/ Bad(c) \/ More(c), NEW i \in Inputs, i.type = "FN_KEY",
         Len(i.params) = 2, Modified(i)
  PROVE  /\ at' = "start" /\ rc' \in {-1, 0} /\ in' \in Inputs
         /\ did' = IF ModifierOk(i.params)
                   THEN IF i.key \in ArrowKeys THEN ArrowMeans(i.key, MaskOf(i.params[2]))
                        ELSE Readline(FALSE)
                   ELSE Failed
<1>. DEFINE p == i.params[2]
<1>1. ModifierOk(i.params) <=> p \in 2 .. 8
  BY DEF ModifierOk
<1>2. CASE p \in 2 .. 8
  <2>. DEFINE j == [i EXCEPT !.mods = CodeMods[p]]
  <2>1. CodeMods[p] = MaskOf(p) /\ CodeMods[p] \in SUBSET ModSet /\ p \in DOMAIN CodeMods
    BY <1>2, CodeModsAreMasks
  <2>2. Accept(j)
    BY <2>1 DEF Modified
  <2>3. j \in Inputs /\ j.type = "FN_KEY" /\ j.key = i.key /\ j.mods = MaskOf(p)
    BY <2>1, WithMods
  <2>. HIDE DEF j
  <2>4. /\ at' = "start" /\ rc' = 0 /\ in' = j
        /\ did' = IF i.key \in ArrowKeys THEN ArrowMeans(i.key, MaskOf(p)) ELSE Readline(FALSE)
    BY <2>2, <2>3, AcceptDoes
  <2>. QED  BY <1>1, <1>2, <2>3, <2>4
<1>3. CASE p \notin 2 .. 8
  <2>1. Reject(i)
    BY <1>3, CodeModsAreMasks DEF Modified
  <2>2. at' = "start" /\ rc' = -1 /\ in' = i /\ did' = Failed
    BY <2>1, RejectDoes
  <2>. QED  BY <1>1, <1>3, <2>2
<1>. QED  BY <1>2, <1>3

LEMMA TildeMeans ==
  ASSUME Good(126) \/ Bad(126) \/ More(126), NEW i \in Inputs, i.type = "FN_KEY", i.mods = {},
         parse_tilde_sequence(i)
  PROVE  /\ at' = "start" /\ rc' \in {-1, 0} /\ in' \in Inputs
         /\ did' = ControlMeans(i.params, 126)
<1>. DEFINE ps == i.params
            n == Len(ps)
            p == ps[1]
            keyed == [i EXCEPT !.key = TildeKeys[p]]
<1>0. ps \in Seq(Int) /\ n \in Nat
  BY InputFields
<1>1. ControlMeans(ps, 126) =
        IF n \in {1, 2} /\ ~ (p \in DOMAIN TildeKeys /\ ModifierOk(ps)) THEN Failed ELSE Readline(FALSE)
  <2>1. 126 # 59
    OBVIOUS
  <2>. QED  BY <2>1, ArrowsAre, F1to4Are DEF ControlMeans
<1>2. /\ n \notin {1, 2} => Accept(i)
      /\ n \in {1, 2} /\ p \notin DOMAIN TildeKeys => Reject(i)
      /\ n = 1 /\ p \in DOMAIN TildeKeys => Accept(keyed)
      /\ n = 2 /\ p \in DOMAIN TildeKeys => Modified(keyed)
  <2>1. ~ (n = 1 /\ n = 2)
    OBVIOUS
  <2>. QED  BY <2>1 DEF parse_tilde_sequence
<1>3. CASE n \notin {1, 2}
  <2>1. ArrowMeans(i.key, {}) = Readline(FALSE)
    BY DEF ArrowMeans
  <2>2. /\ at' = "start" /\ rc' = 0 /\ in' = i
        /\ did' = IF i.key \in ArrowKeys THEN ArrowMeans(i.key, i.mods) ELSE Readline(FALSE)
    BY <1>2, <1>3, AcceptDoes
  <2>. QED  BY <1>1, <1>3, <2>1, <2>2
<1>4. CASE n \in {1, 2} /\ p \notin DOMAIN TildeKeys
  <2>1. at' = "start" /\ rc' = -1 /\ in' = i /\ did' = Failed
    BY <1>2, <1>4, RejectDoes
  <2>. QED  BY <1>1, <1>4, <2>1
<1>5. CASE n \in {1, 2} /\ p \in DOMAIN TildeKeys
  <2>1. TildeKeys[p] \in Keys /\ TildeKeys[p] \notin ArrowKeys
    BY <1>5, TildeKeysAre DEF Keys, OtherKeys, ArrowKeys
  <2>2. /\ keyed \in Inputs /\ keyed.type = "FN_KEY" /\ keyed.key = TildeKeys[p]
        /\ keyed.params = ps /\ keyed.mods = {}
    BY <2>1, WithKey
  <2>. HIDE DEF keyed
  <2>3. CASE n = 1
    <3>1. /\ at' = "start" /\ rc' = 0 /\ in' = keyed
          /\ did' = IF keyed.key \in ArrowKeys THEN ArrowMeans(keyed.key, keyed.mods) ELSE Readline(FALSE)
      BY <1>2, <1>5, <2>2, <2>3, AcceptDoes
    <3>2. ModifierOk(ps)
      BY <2>3 DEF ModifierOk
    <3>. QED  BY <1>1, <1>5, <2>1, <2>2, <3>1, <3>2
  <2>4. CASE n = 2
    <3>1. Modified(keyed)
      BY <1>2, <1>5, <2>4
    <3>2. Len(keyed.params) = 2
      BY <2>2, <2>4
    <3>3. /\ at' = "start" /\ rc' \in {-1, 0} /\ in' \in Inputs
          /\ did' = IF ModifierOk(keyed.params)
                    THEN IF keyed.key \in ArrowKeys THEN ArrowMeans(keyed.key, MaskOf(keyed.params[2]))
                         ELSE Readline(FALSE)
                    ELSE Failed
      BY <2>2, <3>1, <3>2, ModifiedDoes
    <3>4. did' = IF ModifierOk(ps) THEN Readline(FALSE) ELSE Failed
      BY <2>1, <2>2, <3>3
    <3>. QED  BY <1>1, <1>5, <2>4, <3>3, <3>4
  <2>. QED  BY <1>5, <2>3, <2>4
<1>. QED  BY <1>3, <1>4, <1>5

LEMMA FinalMeans ==
  ASSUME NEW c \in 0 .. 255, c \notin {59, 126}, Good(c) \/ Bad(c) \/ More(c),
         NEW i \in Inputs, i.type = "ESCSEQ", i.mods = {}, convert_csi_fn_key(i, c)
  PROVE  /\ at' = "start" /\ rc' \in {-1, 0} /\ in' \in Inputs
         /\ did' = ControlMeans(i.params, c)
<1>. DEFINE ps == i.params
            n == Len(ps)
            keyed == [i EXCEPT !.type = "FN_KEY", !.key = FnKeys[c]]
<1>1. /\ c \in DOMAIN Arrows => ControlMeans(ps, c) =
           IF ModifierOk(ps) THEN ArrowMeans(Arrows[c], IF n = 2 THEN MaskOf(ps[2]) ELSE {}) ELSE Failed
      /\ c \in DOMAIN F1to4 => ControlMeans(ps, c) =
           IF n = 2 /\ ModifierOk(ps) THEN Readline(FALSE) ELSE Failed
      /\ c \notin DOMAIN Arrows /\ c \notin DOMAIN F1to4 => ControlMeans(ps, c) = LetterMeans(c)
  <2>1. c # 59 /\ c # 126 /\ (c \in DOMAIN F1to4 => c \notin DOMAIN Arrows)
    BY ArrowsAre, F1to4Are
  <2>. QED  BY <2>1, Zenon DEF ControlMeans
<1>2. /\ c \notin DOMAIN FnKeys => Accept(i)
      /\ c \in DOMAIN FnKeys /\ n = 2 => Modified(keyed)
      /\ c \in DOMAIN Arrows /\ n # 2 => Accept(keyed)
      /\ c \in DOMAIN F1to4 /\ n # 2 => Reject(keyed)
  <2>1. /\ DOMAIN FnKeys = (DOMAIN Arrows) \cup (DOMAIN F1to4)
        /\ c \in DOMAIN F1to4 => c \notin DOMAIN Arrows
    BY ArrowsAre, F1to4Are, FnKeysAre
  <2>. QED  BY <2>1 DEF convert_csi_fn_key
<1>3. CASE c \notin DOMAIN FnKeys
  <2>1. at' = "start" /\ rc' = 0 /\ in' = i
    BY <1>2, <1>3 DEF Accept, Finish
  <2>2. Good(c)
    BY <2>1, Outcomes
  <2>3. did' = LetterMeans(c)
    BY <2>1, <2>2, GoodDoes
  <2>4. c \notin DOMAIN Arrows /\ c \notin DOMAIN F1to4
    BY <1>3, FnKeysAre
  <2>. QED  BY <1>1, <2>1, <2>3, <2>4
<1>4. CASE c \in DOMAIN FnKeys
  <2>0. /\ c \in DOMAIN Arrows => FnKeys[c] = Arrows[c] /\ FnKeys[c] \in ArrowKeys
        /\ c \in DOMAIN F1to4 => FnKeys[c] = F1to4[c] /\ FnKeys[c] \in OtherKeys
        /\ c \in DOMAIN Arrows \/ c \in DOMAIN F1to4
        /\ FnKeys[c] \in Keys
    BY <1>4, FnKeysAre, ArrowsAre, F1to4Are DEF Keys
  <2>1. "FN_KEY" \in InputTypes
    BY DEF InputTypes
  <2>2. /\ keyed \in Inputs /\ keyed.type = "FN_KEY" /\ keyed.key = FnKeys[c]
        /\ keyed.params = ps /\ keyed.mods = {}
    <3>. DEFINE j == [i EXCEPT !.type = "FN_KEY"]
    <3>1. j \in Inputs /\ j.type = "FN_KEY" /\ j.params = ps /\ j.mods = {}
      BY <2>1, WithType
    <3>2. keyed = [j EXCEPT !.key = FnKeys[c]]
      OBVIOUS
    <3>. HIDE DEF j, keyed
    <3>. QED  BY <2>0, <3>1, <3>2, WithKey
  <2>. HIDE DEF keyed
  <2>3. OtherKeys \cap ArrowKeys = {}
    BY DEF OtherKeys, ArrowKeys
  <2>4. CASE n = 2
    <3>1. Modified(keyed)
      BY <1>2, <1>4, <2>4
    <3>2. Len(keyed.params) = 2
      BY <2>2, <2>4
    <3>3. /\ at' = "start" /\ rc' \in {-1, 0} /\ in' \in Inputs
          /\ did' = IF ModifierOk(keyed.params)
                    THEN IF keyed.key \in ArrowKeys THEN ArrowMeans(keyed.key, MaskOf(keyed.params[2]))
                         ELSE Readline(FALSE)
                    ELSE Failed
      BY <2>2, <3>1, <3>2, ModifiedDoes
    <3>4. did' = IF ModifierOk(ps)
                 THEN IF FnKeys[c] \in ArrowKeys THEN ArrowMeans(FnKeys[c], MaskOf(ps[2])) ELSE Readline(FALSE)
                 ELSE Failed
      BY <2>2, <3>3
    <3>. QED  BY <1>1, <2>0, <2>3, <2>4, <3>3, <3>4
  <2>5. CASE n # 2 /\ c \in DOMAIN Arrows
    <3>1. /\ at' = "start" /\ rc' = 0 /\ in' = keyed
          /\ did' = IF keyed.key \in ArrowKeys THEN ArrowMeans(keyed.key, keyed.mods) ELSE Readline(FALSE)
      BY <1>2, <2>2, <2>5, AcceptDoes
    <3>2. ModifierOk(ps)
      BY <2>5 DEF ModifierOk
    <3>3. did' = ArrowMeans(Arrows[c], {})
      BY <2>0, <2>2, <2>5, <3>1
    <3>. QED  BY <1>1, <2>2, <2>5, <3>1, <3>2, <3>3
  <2>6. CASE n # 2 /\ c \in DOMAIN F1to4
    <3>1. at' = "start" /\ rc' = -1 /\ in' = keyed /\ did' = Failed
      BY <1>2, <2>6, RejectDoes
    <3>. QED  BY <1>1, <2>2, <2>6, <3>1
  <2>. QED  BY <2>0, <2>4, <2>5, <2>6
<1>. QED  BY <1>3, <1>4

LEMMA SeqOfInt ==
  ASSUME NEW s \in Seq(0 .. 255)
  PROVE  s \in Seq(Int)
<1>1. 0 .. 255 \subseteq Int
  OBVIOUS
<1>. QED  BY <1>1, SeqMonotonic

LEMMA BodyMore ==
  ASSUME NEW s \in Seq(0 .. 255), NEW c \in 0 .. 255, Len(s) > 1, Len(s) = 2 => c # 63
  PROVE  LET t == Append(s, c)
         IN  /\ CsiBody(t) = Append(CsiBody(s), c)
             /\ SubSeq(t, IF Len(t) > 3 /\ t[3] = 63 THEN 4 ELSE 3, Len(t) - 1) = CsiBody(s)
<1>. DEFINE t == Append(s, c)
<1>1. s \in Seq(Int) /\ c \in Int
  BY SeqOfInt
<1>2. /\ Len(t) = Len(s) + 1 /\ t[Len(s) + 1] = c
      /\ \A k \in 1 .. Len(s) : t[k] = s[k]
  BY <1>1, AppendFacts
<1>3. Len(s) \in Nat
  OBVIOUS
<1>t. t = Append(s, c)
  OBVIOUS
<1>. HIDE DEF t
<1>. DEFINE a == BodyStart(s)
<1>4. a \in 1 .. Len(s) + 1 /\ BodyStart(t) = a
      /\ (IF Len(t) > 3 /\ t[3] = 63 THEN 4 ELSE 3) = a
  <2>1. CASE Len(s) = 2
    BY <1>2, <2>1 DEF BodyStart
  <2>2. CASE Len(s) > 2
    <3>1. t[3] = s[3]
      BY <1>2, <1>3, <2>2
    <3>. QED  BY <1>2, <1>3, <2>2, <3>1 DEF BodyStart
  <2>3. Len(s) = 2 \/ Len(s) > 2
    <3>1. PICK n \in Nat : n = Len(s) /\ n > 1
      BY <1>3
    <3>2. n = 2 \/ n > 2
      BY <3>1
    <3>. QED  BY <3>1, <3>2
  <2>. QED  BY <2>1, <2>2, <2>3, Zenon
<1>. HIDE DEF a
<1>5. SubSeq(t, a, Len(s)) = SubSeq(s, a, Len(s))
      /\ SubSeq(t, a, Len(s) + 1) = Append(SubSeq(s, a, Len(s)), c)
  <2>1. Len(s) \in 0 .. Len(s)
    BY <1>3
  <2>. QED  BY <1>1, <1>4, <1>t, <2>1, SubSeqAppend
<1>6. Len(t) - 1 = Len(s)
  BY <1>2, <1>3
<1>7. CsiBody(t) = SubSeq(t, a, Len(s) + 1) /\ CsiBody(s) = SubSeq(s, a, Len(s))
  BY <1>2, <1>4 DEF CsiBody, a
<1>. QED  BY <1>4, <1>5, <1>6, <1>7 DEF t

(* The loop over the parameters, and the first character after ^[[ *)
LEMMA LoopTaken ==
  ASSUME DecInv, NEW c \in 0 .. 255, Record(c), Good(c) \/ Bad(c) \/ More(c),
         at # "start", InCsi, in.type = "ESCSEQ", in.mods = {},
         Len(typed) = 2 => c # 63 /\ c # 77,
         CsiLoop(c), left' = left
  PROVE  Taken
<1>. DEFINE t == typed'
            b == CsiBody(typed)
            i == FlushNumber(in)
<1>1. /\ typed \in Seq(0 .. 255) /\ in \in Inputs /\ parsed_num \in Int
      /\ parsed_num_dirty \in BOOLEAN /\ left' \in Int /\ rc = 1
  BY DEF DecInv, DecTypes
<1>2. /\ Len(typed) > 1 /\ typed[1] = ESC /\ typed[2] = 91 /\ (Len(typed) > 2 => typed[3] # 77)
      /\ Parsed(b, in.params, parsed_num, parsed_num_dirty)
  BY DEF InCsi
<1>3. /\ t = Append(typed, c) /\ t \in Seq(0 .. 255) /\ Len(t) = Len(typed) + 1
      /\ t[Len(typed) + 1] = c /\ Len(typed) \in Nat
      /\ \A k \in 1 .. Len(typed) : t[k] = typed[k]
  BY TypedMore, Zenon
<1>4. /\ CsiBody(t) = Append(b, c)
      /\ SubSeq(t, IF Len(t) > 3 /\ t[3] = 63 THEN 4 ELSE 3, Len(t) - 1) = b
  <2>1. Len(typed) > 1 /\ (Len(typed) = 2 => c # 63)
    BY <1>2
  <2>2. c \in 0 .. 255
    OBVIOUS
  <2>. QED  BY <1>1, <1>3, <2>1, <2>2, BodyMore
<1>. HIDE DEF t, b
<1>5. /\ Len(t) > 2 /\ Len(t) > 1 /\ Len(t) > 0
      /\ t[1] = ESC /\ t[2] = 91 /\ t[3] # 77 /\ t[Len(t)] = c
  <2>1. PICK n \in Nat : n = Len(typed) /\ n > 1
    BY <1>2, <1>3
  <2>2. Len(t) = n + 1 /\ 1 \in 1 .. n /\ 2 \in 1 .. n
    BY <1>3, <2>1
  <2>3. t[1] = typed[1] /\ t[2] = typed[2] /\ t[Len(t)] = c
    BY <1>3, <2>1, <2>2
  <2>4. Len(t) > 2 /\ Len(t) > 1 /\ Len(t) > 0
    BY <2>1, <2>2
  <2>5. t[3] # 77
    <3>1. CASE n = 2
      BY <1>3, <2>1, <3>1
    <3>2. CASE n > 2
      <4>1. 3 \in 1 .. n
        BY <3>2
      <4>. QED  BY <1>2, <1>3, <2>1, <3>2, <4>1
    <3>. QED  BY <2>1, <3>1, <3>2
  <2>. QED  BY <1>2, <2>3, <2>4, <2>5
<1>6. Meaning(t) = ControlMeans(Params(b), c)
  <2>. DEFINE body == SubSeq(t, IF Len(t) > 3 /\ t[3] = 63 THEN 4 ELSE 3, Len(t) - 1)
  <2>1. Meaning(t) = IF t[3] = 77 THEN MouseMeans(SubSeq(t, 4, Len(t)))
                     ELSE ControlMeans(Params(body), t[Len(t)])
    BY <1>3, <1>5, MeaningIs
  <2>2. body = b
    BY <1>4
  <2>. HIDE DEF body
  <2>. QED  BY <1>5, <2>1, <2>2
<1>7. /\ i \in Inputs /\ i.type = "ESCSEQ" /\ i.mods = {}
      /\ i.params = Params(b)
  <2>. DEFINE p == Append(in.params, parsed_num)
  <2>1. Params(b) = IF parsed_num_dirty THEN p ELSE in.params
    BY <1>2, ParsedParams
  <2>2. p \in Seq(Int)
    BY <1>1, InputFields
  <2>3. i = IF parsed_num_dirty THEN [in EXCEPT !.params = p] ELSE in
    BY DEF FlushNumber, Stored
  <2>. HIDE DEF p, i
  <2>4. CASE parsed_num_dirty
    BY <1>1, <2>1, <2>2, <2>3, <2>4, WithParams
  <2>5. CASE ~ parsed_num_dirty
    BY <1>1, <2>1, <2>3, <2>5
  <2>. QED  BY <2>4, <2>5
<1>. HIDE DEF i
<1>8. CASE isdigit(c)
  <2>1. /\ parsed_num' = parsed_num * 10 + (c - 48) /\ parsed_num_dirty' = TRUE
        /\ at' = "csi_seq" /\ in' = in /\ rc' = 1
    <3>1. c # 59 /\ c # 126
      BY <1>8 DEF isdigit
    <3>. QED  BY <1>8, <3>1 DEF CsiLoop, Continue
  <2>2. Parsed(CsiBody(t), in.params, parsed_num * 10 + (c - 48), TRUE)
    <3>1. c \in Int /\ c # 59
      BY <1>8 DEF isdigit
    <3>2. Parsed(b, in.params, parsed_num, parsed_num_dirty)
      BY <1>2
    <3>3. Parsed(Append(b, c), in.params, parsed_num * 10 + (c - 48), TRUE)
      BY <3>1, <3>2, ParsedDigit, Zenon
    <3>. QED  BY <1>4, <3>3, Zenon
  <2>3. InCsi'
    <3>1. Parsed(CsiBody(t), in'.params, parsed_num', parsed_num_dirty')
      BY <2>1, <2>2, Zenon
    <3>. QED  BY <1>5, <3>1, Zenon DEF InCsi, t
  <2>4. DecLabels'
    BY <1>5, <2>1, <2>3 DEF DecLabels, t
  <2>5. parsed_num' \in Int
    BY <1>1, <2>1
  <2>. QED  BY <1>1, <1>3, <2>1, <2>4, <2>5, MoreTaken, Zenon DEF Labels, t
<1>9. CASE c = 59
  <2>. DEFINE s == Stored(in)
  <2>1. /\ parsed_num' = 0 /\ parsed_num_dirty' = FALSE
        /\ IF Len(in.params) + 1 = MaxParams THEN Reject(s) ELSE Continue("csi_seq", s)
    <3>1. ~ isdigit(c) /\ c # 126
      BY <1>9 DEF isdigit
    <3>. QED  BY <1>9, <3>1 DEF CsiLoop, ResetNumber
  <2>2. /\ s \in Inputs /\ s.type = "ESCSEQ" /\ s.mods = {}
        /\ s.params = Append(in.params, parsed_num)
    <3>1. Append(in.params, parsed_num) \in Seq(Int)
      BY <1>1, InputFields
    <3>. DEFINE p == Append(in.params, parsed_num)
    <3>2. s = [in EXCEPT !.params = p]
      BY DEF Stored
    <3>a. p \in Seq(Int)
      BY <3>1
    <3>. HIDE DEF s, p
    <3>3. s \in Inputs /\ s.type = "ESCSEQ" /\ s.mods = {} /\ s.params = p
      BY <1>1, <3>2, <3>a, WithParams
    <3>. QED  BY <3>3 DEF p
  <2>. HIDE DEF s
  <2>3. 0 \in Int /\ parsed_num' \in Int
    BY <2>1
  <2>4. CASE Len(in.params) + 1 = MaxParams
    <3>1. at' = "start" /\ rc' = -1 /\ in' = s /\ did' = Failed
      BY <2>1, <2>4, RejectDoes
    <3>2. ControlMeans(Params(b), c) = Failed
      <4>1. 59 # 126 /\ 59 \notin DOMAIN Arrows /\ 59 \notin DOMAIN F1to4
        BY ArrowsAre, F1to4Are
      <4>. QED  BY <1>9, <4>1, Zenon DEF ControlMeans
    <3>. QED  BY <1>1, <1>3, <1>6, <2>1, <2>2, <2>3, <3>1, <3>2, EndTaken, Zenon DEF t
  <2>5. CASE Len(in.params) + 1 # MaxParams
    <3>1. at' = "csi_seq" /\ rc' = 1 /\ in' = s
      BY <2>1, <2>5 DEF Continue
    <3>2. Parsed(CsiBody(t), s.params, 0, FALSE)
      <4>1. Parsed(b, in.params, parsed_num, parsed_num_dirty)
        BY <1>2
      <4>2. Parsed(Append(b, 59), Append(in.params, parsed_num), 0, FALSE)
        BY <4>1, ParsedSemicolon, Zenon
      <4>3. CsiBody(t) = Append(b, 59) /\ s.params = Append(in.params, parsed_num)
        BY <1>4, <1>9, <2>2
      <4>. QED  BY <4>2, <4>3, Zenon
    <3>3. InCsi'
      <4>1. Parsed(CsiBody(t), in'.params, parsed_num', parsed_num_dirty')
        BY <2>1, <3>1, <3>2, Zenon
      <4>. QED  BY <1>5, <4>1, Zenon DEF InCsi, t
    <3>4. DecLabels'
      BY <1>5, <2>2, <3>1, <3>3 DEF DecLabels, t
    <3>. QED  BY <1>1, <1>3, <2>1, <2>2, <2>3, <3>1, <3>4, MoreTaken, Zenon DEF Labels, t
  <2>. QED  BY <2>4, <2>5
<1>10. ASSUME FlushReset
       PROVE  parsed_num' \in Int /\ parsed_num_dirty' = FALSE
  BY <1>1, <1>10 DEF FlushReset, ResetNumber, NoNumber
<1>11. CASE c = 126
  <2>. DEFINE j == [i EXCEPT !.type = "FN_KEY"]
  <2>1. FlushReset /\ parse_tilde_sequence(j)
    <3>1. ~ isdigit(c) /\ c # 59
      BY <1>11 DEF isdigit
    <3>. QED  BY <1>11, <3>1 DEF CsiLoop, i
  <2>2. j \in Inputs /\ j.type = "FN_KEY" /\ j.mods = {} /\ j.params = i.params
    <3>1. "FN_KEY" \in InputTypes
      BY DEF InputTypes
    <3>. QED  BY <1>7, <3>1, WithType
  <2>. HIDE DEF j
  <2>3. /\ at' = "start" /\ rc' \in {-1, 0} /\ in' \in Inputs
        /\ did' = ControlMeans(j.params, c)
    BY <1>11, <2>1, <2>2, TildeMeans
  <2>4. did' = Meaning(t)
    BY <1>6, <1>7, <2>2, <2>3
  <2>. QED  BY <1>1, <1>3, <1>10, <2>1, <2>3, <2>4, EndTaken, Zenon DEF t
<1>12. CASE isprint(c) /\ ~isdigit(c) /\ c \notin {59, 126}
  <2>1. FlushReset /\ convert_csi_fn_key(i, c)
    BY <1>12 DEF CsiLoop, i
  <2>2. /\ at' = "start" /\ rc' \in {-1, 0} /\ in' \in Inputs
        /\ did' = ControlMeans(i.params, c)
    BY <1>7, <1>12, <2>1, FinalMeans
  <2>3. did' = Meaning(t)
    BY <1>6, <1>7, <2>2
  <2>. QED  BY <1>1, <1>3, <1>10, <2>1, <2>2, <2>3, EndTaken, Zenon DEF t
<1>13. CASE ~isprint(c) /\ ~isdigit(c) /\ c \notin {59, 126}
  <2>1. /\ parsed_num' = parsed_num /\ parsed_num_dirty' = parsed_num_dirty
        /\ at' = "spinning" /\ in' = in /\ rc' = 1
    BY <1>1, <1>13 DEF CsiLoop, NoNumber
  <2>2. DecLabels'
    BY <2>1 DEF DecLabels
  <2>. QED  BY <1>1, <1>3, <2>1, <2>2, MoreTaken, Zenon DEF Labels, t
<1>. QED  BY <1>8, <1>9, <1>11, <1>12, <1>13

LEMMA CsiFirstTaken ==
  ASSUME DecInv, NEW c \in 0 .. 255, CsiFirst(c), Record(c), Good(c) \/ Bad(c) \/ More(c)
  PROVE  Taken
<1>1. /\ at = "csi_first" /\ left' = left /\ Len(typed) = 2 /\ typed[1] = ESC /\ typed[2] = 91
      /\ in.type = "ESCSEQ" /\ in.mods = {}
      /\ in.params = NoParams /\ parsed_num = 0 /\ parsed_num \in Int /\ parsed_num_dirty = FALSE
      /\ in \in Inputs /\ left \in Int /\ typed \in Seq(0 .. 255)
  BY DEF CsiFirst, DecInv, DecLabels, DecTypes, Begun, NothingParsed
<1>. DEFINE t == typed'
<1>2. t \in Seq(0 .. 255) /\ Len(t) = 3 /\ t[1] = ESC /\ t[2] = 91 /\ t[3] = c
  <2>1. at # "start"
    BY <1>1
  <2>2. /\ t \in Seq(0 .. 255) /\ Len(t) = Len(typed) + 1 /\ t[Len(typed) + 1] = c
        /\ \A k \in 1 .. Len(typed) : t[k] = typed[k]
    BY <2>1, TypedMore, Zenon
  <2>. HIDE DEF t
  <2>. QED  BY <1>1, <2>2
<1>. HIDE DEF t
<1>3. Parsed(NoParams, NoParams, 0, FALSE)
  BY ParsedNothing DEF NoParams
<1>4. CASE c = 77
  <2>1. /\ parsed_num' = parsed_num /\ parsed_num_dirty' = FALSE
        /\ at' = "mouse_button" /\ rc' = 1 /\ in' = [in EXCEPT !.type = "MOUSE"]
    BY <1>1, <1>4 DEF CsiFirst, NoNumber, Continue
  <2>2. in' \in Inputs /\ in'.type = "MOUSE"
    <3>1. "MOUSE" \in InputTypes
      BY DEF InputTypes
    <3>. QED  BY <1>1, <2>1, <3>1, WithType
  <2>3. DecLabels'
    BY <1>2, <1>4, <2>1, <2>2 DEF DecLabels, Begun, t
  <2>. QED  BY <1>1, <1>2, <2>1, <2>2, <2>3, MoreTaken, Zenon DEF Labels, t
<1>5. CASE c = 63
  <2>1. /\ parsed_num' = parsed_num /\ parsed_num_dirty' = FALSE
        /\ at' = "csi_seq" /\ rc' = 1 /\ in' = in
    BY <1>1, <1>5 DEF CsiFirst, NoNumber, Continue
  <2>2. CsiBody(t) = NoParams
    <3>1. BodyStart(t) = 4
      BY <1>2, <1>5 DEF BodyStart
    <3>2. SubSeq(t, 4, 3) = << >>
      BY <1>2
    <3>. QED  BY <1>2, <3>1, <3>2 DEF CsiBody, NoParams
  <2>3. InCsi'
    <3>1. Len(t) > 1 /\ t[1] = ESC /\ t[2] = 91 /\ t[3] # 77
      BY <1>2, <1>5
    <3>2. Parsed(CsiBody(t), in'.params, parsed_num', parsed_num_dirty')
      BY <1>1, <1>3, <2>1, <2>2, Zenon
    <3>. QED  BY <3>1, <3>2, Zenon DEF InCsi, t
  <2>4. DecLabels'
    BY <1>1, <1>2, <2>1, <2>3 DEF DecLabels, t
  <2>. QED  BY <1>1, <1>2, <2>1, <2>4, MoreTaken, Zenon DEF Labels, t
<1>6. CASE c # 77 /\ c # 63
  <2>1. CsiLoop(c)
    BY <1>6 DEF CsiFirst
  <2>2. CsiBody(typed) = NoParams
    <3>1. BodyStart(typed) = 3
      BY <1>1 DEF BodyStart
    <3>2. SubSeq(typed, 3, 2) = << >>
      BY <1>1
    <3>. QED  BY <1>1, <3>1, <3>2 DEF CsiBody, NoParams
  <2>3. InCsi
    <3>1. Len(typed) > 1 /\ ~ (Len(typed) > 2)
      BY <1>1
    <3>2. Parsed(CsiBody(typed), in.params, parsed_num, parsed_num_dirty)
      BY <1>1, <1>3, <2>2, Zenon
    <3>. QED  BY <1>1, <3>1, <3>2, Zenon DEF InCsi
  <2>4. at # "start"
    BY <1>1
  <2>. QED  BY <1>1, <1>6, <2>1, <2>3, <2>4, LoopTaken
<1>. QED  BY <1>4, <1>5, <1>6

LEMMA CsiSeqTaken ==
  ASSUME DecInv, NEW c \in 0 .. 255, CsiSeq(c), Record(c), Good(c) \/ Bad(c) \/ More(c)
  PROVE  Taken
<1>1. /\ at # "start" /\ InCsi /\ Len(typed) > 2 /\ in.type = "ESCSEQ" /\ in.mods = {}
      /\ CsiLoop(c) /\ left' = left /\ typed \in Seq(0 .. 255)
  BY DEF CsiSeq, DecInv, DecLabels, DecTypes
<1>2. ~ (Len(typed) = 2)
  <2>1. PICK n \in Nat : n = Len(typed) /\ n > 2
    BY <1>1
  <2>2. n # 2
    BY <2>1
  <2>. QED  BY <2>1, <2>2
<1>. QED  BY <1>1, <1>2, LoopTaken

-----------------------------------------------------------------------------
(* The mouse *)

LEMMA MouseMeaning ==
  ASSUME NEW s \in Seq(0 .. 255), NEW n \in 4 .. 6, Len(s) = n, s[1] = ESC, s[2] = 91, s[3] = 77
  PROVE  /\ n # 6 => Meaning(s) = Failed
         /\ n = 6 => Meaning(s) =
              IF ~BadButton(s[4]) /\ s[5] \in 32 .. 127 /\ s[6] \in 32 .. 127
              THEN Readline(FALSE) ELSE Failed
<1>. DEFINE bytes == SubSeq(s, 4, n)
<1>1. Meaning(s) = MouseMeans(bytes)
  <2>1. Len(s) > 0
    OBVIOUS
  <2>. QED  BY <2>1, MeaningIs, Zenon
<1>2. Len(bytes) = n - 3 /\ \A k \in 1 .. n - 3 : bytes[k] = s[k + 3]
  OBVIOUS
<1>. HIDE DEF bytes
<1>3. CASE n # 6
  <2>1. n - 3 # 3
    BY <1>3
  <2>2. Len(bytes) # 3
    BY <1>2, <2>1
  <2>. QED  BY <1>1, <1>3, <2>2 DEF MouseMeans
<1>4. CASE n = 6
  <2>1. Len(bytes) = 3
    BY <1>2, <1>4
  <2>2. bytes[1] = s[4] /\ bytes[2] = s[5] /\ bytes[3] = s[6]
    BY <1>2, <1>4
  <2>. QED  BY <1>1, <1>4, <2>1, <2>2 DEF MouseMeans
<1>. QED  BY <1>3, <1>4

LEMMA MouseShort ==
  ASSUME NEW s \in Seq(0 .. 255), Len(s) \in {4, 5}, s[1] = ESC, s[2] = 91, s[3] = 77
  PROVE  Meaning(s) = Failed
<1>. PICK n \in 4 .. 6 : n = Len(s) /\ n # 6
  OBVIOUS
<1>. QED  BY MouseMeaning

LEMMA MouseLong ==
  ASSUME NEW s \in Seq(0 .. 255), Len(s) = 6, s[1] = ESC, s[2] = 91, s[3] = 77
  PROVE  Meaning(s) = IF ~BadButton(s[4]) /\ s[5] \in 32 .. 127 /\ s[6] \in 32 .. 127
                      THEN Readline(FALSE) ELSE Failed
<1>. PICK n \in 4 .. 6 : n = Len(s) /\ n = 6
  OBVIOUS
<1>. QED  BY MouseMeaning

(* The mouse bytes: where, and how many characters there are already. *)
LEMMA MouseTaken ==
  ASSUME DecInv, NEW c \in 0 .. 255, MouseButton(c) \/ MouseX(c) \/ MouseY(c), Record(c),
         Good(c) \/ Bad(c) \/ More(c)
  PROVE  Taken
<1>1. /\ at \in {"mouse_button", "mouse_x", "mouse_y"} /\ left' = left
      /\ parsed_num' = parsed_num /\ parsed_num_dirty' = FALSE /\ parsed_num \in Int
      /\ in.type = "MOUSE" /\ in \in Inputs /\ left \in Int /\ typed \in Seq(0 .. 255)
      /\ at = "mouse_button" => Begun(typed, 3)
      /\ at = "mouse_x" => Begun(typed, 4) /\ ~BadButton(typed[4])
      /\ at = "mouse_y" => Begun(typed, 5) /\ ~BadButton(typed[4]) /\ typed[5] \in 32 .. 127
  BY DEF MouseButton, MouseX, MouseY, NoNumber, DecInv, DecLabels, DecTypes
<1>. DEFINE t == typed'
<1>2. PICK n \in 4 .. 6 :
        /\ t \in Seq(0 .. 255) /\ Len(t) = n /\ Begun(t, n) /\ t[n] = c
        /\ at = "mouse_button" => n = 4
        /\ at = "mouse_x" => n = 5 /\ t[4] = typed[4]
        /\ at = "mouse_y" => n = 6 /\ t[4] = typed[4] /\ t[5] = typed[5]
  <2>1. PICK m \in 3 .. 5 : /\ Begun(typed, m)
                            /\ at = "mouse_button" => m = 3
                            /\ at = "mouse_x" => m = 4
                            /\ at = "mouse_y" => m = 5
    BY <1>1
  <2>2. at # "start"
    BY <1>1
  <2>3. /\ t \in Seq(0 .. 255) /\ Len(t) = Len(typed) + 1 /\ t[Len(typed) + 1] = c
        /\ \A k \in 1 .. Len(typed) : t[k] = typed[k]
    BY <2>2, TypedMore, Zenon
  <2>. HIDE DEF t
  <2>4. Len(typed) = m /\ typed[1] = ESC /\ typed[2] = 91 /\ typed[3] = 77
    BY <2>1 DEF Begun
  <2>5. Len(t) = m + 1 /\ t[m + 1] = c /\ \A k \in 1 .. m : t[k] = typed[k]
    BY <2>3, <2>4
  <2>6. t[1] = ESC /\ t[2] = 91 /\ t[3] = 77
    BY <2>4, <2>5
  <2>7. Begun(t, m + 1)
    BY <2>5, <2>6 DEF Begun
  <2>8. /\ m = 4 => t[4] = typed[4]
        /\ m = 5 => t[4] = typed[4] /\ t[5] = typed[5]
    BY <2>5
  <2>9. m + 1 \in 4 .. 6
    OBVIOUS
  <2>. QED  BY <2>1, <2>3, <2>5, <2>7, <2>8, <2>9
<1>. HIDE DEF t
<1>3. Signed(c) < 32 <=> c \notin 32 .. 127
  BY DEF Signed
<1>4. /\ t[1] = ESC /\ t[2] = 91 /\ t[3] = 77
  BY <1>2 DEF Begun
<1>5. /\ n # 6 => Meaning(t) = Failed
      /\ n = 6 => Meaning(t) =
           IF ~BadButton(t[4]) /\ t[5] \in 32 .. 127 /\ t[6] \in 32 .. 127
           THEN Readline(FALSE) ELSE Failed
  <2>1. t \in Seq(0 .. 255) /\ n \in 4 .. 6 /\ Len(t) = n
    BY <1>2, Zenon
  <2>2. t[1] = ESC /\ t[2] = 91 /\ t[3] = 77
    BY <1>4
  <2>3. CASE n # 6
    <3>1. Len(t) \in {4, 5}
      BY <2>1, <2>3
    <3>2. Meaning(t) = Failed
      BY <2>1, <2>2, <3>1, MouseShort, Zenon
    <3>. QED  BY <2>3, <3>2, Zenon
  <2>4. CASE n = 6
    <3>1. Len(t) = 6
      BY <2>1, <2>4
    <3>. QED  BY <2>1, <2>2, <2>4, <3>1, MouseLong, Zenon
  <2>. QED  BY <2>3, <2>4, Zenon
<1>6. ASSUME NEW i \in Inputs, Reject(i), Meaning(t) = Failed
      PROVE  Taken
  <2>1. at' = "start" /\ rc' = -1 /\ in' = i /\ did' = Failed
    BY <1>6, RejectDoes
  <2>. QED  BY <1>1, <1>2, <1>6, <2>1, EndTaken, Zenon DEF t
<1>7. CASE at = "mouse_button"
  <2>. DEFINE held == IF Signed(c) < 32 THEN in ELSE [in EXCEPT !.mods = HeldMods(c)]
  <2>0. n = 4 /\ t[4] = c
    BY <1>2, <1>7
  <2>1. IF BadButton(c) THEN Reject(held) ELSE Continue("mouse_x", held)
    BY <1>7 DEF MouseButton, MouseX, MouseY
  <2>2. held \in Inputs /\ held.type = "MOUSE"
    <3>1. HeldMods(c) \in SUBSET ModSet
      BY DEF HeldMods, ModSet
    <3>. QED  BY <1>1, <3>1, WithMods
  <2>. HIDE DEF held
  <2>3. CASE BadButton(c)
    BY <1>5, <1>6, <2>0, <2>1, <2>2, <2>3
  <2>4. CASE ~ BadButton(c)
    <3>1. at' = "mouse_x" /\ rc' = 1 /\ in' = held
      BY <2>1, <2>4 DEF Continue
    <3>2. DecLabels'
      BY <1>2, <2>0, <2>2, <2>4, <3>1 DEF DecLabels, t
    <3>. QED  BY <1>1, <1>2, <2>2, <3>1, <3>2, MoreTaken, Zenon DEF Labels, t
  <2>. QED  BY <2>3, <2>4
<1>8. CASE at = "mouse_x"
  <2>0. n = 5 /\ t[5] = c /\ t[4] = typed[4]
    BY <1>2, <1>8
  <2>1. IF Signed(c) < 32 THEN Reject(in) ELSE Continue("mouse_y", in)
    BY <1>8 DEF MouseButton, MouseX, MouseY
  <2>2. CASE Signed(c) < 32
    <3>0. n # 6
      BY <2>0
    <3>1. Reject(in) /\ Meaning(t) = Failed
      BY <1>5, <2>1, <2>2, <3>0, Zenon
    <3>. QED  BY <1>1, <1>6, <3>1
  <2>3. CASE ~ (Signed(c) < 32)
    <3>1. at' = "mouse_y" /\ rc' = 1 /\ in' = in
      BY <2>1, <2>3 DEF Continue
    <3>2. DecLabels'
      BY <1>1, <1>2, <1>3, <1>8, <2>0, <2>3, <3>1 DEF DecLabels, t
    <3>. QED  BY <1>1, <1>2, <3>1, <3>2, MoreTaken, Zenon DEF Labels, t
  <2>. QED  BY <2>2, <2>3
<1>9. CASE at = "mouse_y"
  <2>0. n = 6 /\ t[6] = c /\ ~BadButton(t[4]) /\ t[5] \in 32 .. 127
    BY <1>1, <1>2, <1>9
  <2>1. IF Signed(c) < 32 THEN Reject(in) ELSE Accept(in)
    BY <1>9 DEF MouseButton, MouseX, MouseY
  <2>2. CASE Signed(c) < 32
    <3>0. t[6] \notin 32 .. 127
      BY <1>3, <2>0, <2>2
    <3>1. Meaning(t) = Failed
      BY <1>5, <2>0, <3>0, Zenon
    <3>2. Reject(in)
      BY <2>1, <2>2
    <3>3. Reject(in) /\ Meaning(t) = Failed
      BY <3>1, <3>2
    <3>. QED  BY <1>1, <1>6, <3>3
  <2>3. CASE ~ (Signed(c) < 32)
    <3>1. at' = "start" /\ rc' = 0 /\ in' = in
      BY <2>1, <2>3 DEF Accept, Finish
    <3>2. did' = Readline(FALSE)
      BY <1>1, <3>1, Outcomes, GoodDoes
    <3>3. Meaning(t) = Readline(FALSE)
      BY <1>3, <1>5, <2>0, <2>3
    <3>. QED  BY <1>1, <1>2, <3>1, <3>2, <3>3, EndTaken, Zenon DEF t
  <2>. QED  BY <2>2, <2>3
<1>. QED  BY <1>1, <1>7, <1>8, <1>9

-----------------------------------------------------------------------------
(* The decoder's invariant, and what becomes of the characters. *)

TypedInv ==
  /\ DecInv
  /\ rejected \in Seq(0 .. 255)
  /\ MeansWhatWasTyped
  /\ EachOnce

LEMMA InitTyped == Init => TypedInv
<1>. SUFFICES ASSUME Init PROVE TypedInv
  OBVIOUS
<1>1. /\ at = "start" /\ typed = << >> /\ rejected = << >> /\ ansi_code = << >> /\ rc = 1
      /\ parsed_num = 0 /\ parsed_num_dirty = FALSE /\ left = 0
      /\ in = [type |-> "PLAIN", key |-> "UP", mods |-> {}, params |-> <<>>]
  BY DEF Init, GetchInit
<1>2. in \in Inputs
  BY <1>1 DEF Inputs, InputTypes, Keys, ArrowKeys
<1>3. << >> \in Seq(0 .. 255) /\ << >> \o << >> = << >>
  OBVIOUS
<1>4. DecTypes /\ DecLabels
  <2>1. typed \in Seq(0 .. 255)
    BY <1>1, <1>3, Zenon
  <2>2. /\ parsed_num \in Int /\ parsed_num_dirty \in BOOLEAN /\ left \in Int
        /\ rc \in {-1, 0, 1} /\ at \in Labels
    <3>1. at = "start" /\ rc = 1 /\ parsed_num = 0 /\ parsed_num_dirty = FALSE /\ left = 0
      BY <1>1, Zenon
    <3>2. "start" \in Labels
      BY DEF Labels
    <3>3. at \in Labels /\ parsed_num_dirty \in BOOLEAN
      BY <3>1, <3>2, Zenon
    <3>4. parsed_num \in Int /\ left \in Int /\ rc \in {-1, 0, 1}
      BY <3>1
    <3>. QED  BY <3>3, <3>4
  <2>3. DecLabels
    BY <1>1 DEF DecLabels
  <2>. QED  BY <1>2, <2>1, <2>2, <2>3, Zenon DEF DecTypes
<1>5. DecInv
  BY <1>1, <1>4 DEF DecInv
<1>. QED  BY <1>1, <1>3, <1>5 DEF TypedInv, MeansWhatWasTyped, EachOnce

LEMMA TakenKeepsDec ==
  ASSUME Taken
  PROVE  DecInv' /\ MeansWhatWasTyped'
BY DEF Taken, DecInv, MeansWhatWasTyped

LEMMA CharTaken ==
  ASSUME DecInv, NEW c \in 0 .. 255, handle_stdin_cb(c)
  PROVE  Taken
<1>1. Record(c) /\ (Good(c) \/ Bad(c) \/ More(c)) /\ textio_getch_cr(c)
  BY DEF handle_stdin_cb
<1>. QED  BY <1>1, StartTaken, UnicodeTaken, EscapeTaken, FnKeyTaken, CsiFirstTaken, CsiSeqTaken,
             MouseTaken DEF textio_getch_cr

(* readline_sendstr passes on what comes before the first NUL. *)
LEMMA SentUpToNul ==
  ASSUME NEW s \in Seq(0 .. 255)
  PROVE  LET t == readline_sendstr(s)
         IN  /\ Len(t) \in Nat /\ Len(t) <= Len(s) /\ t = SubSeq(s, 1, Len(t))
             /\ \A k \in 1 .. Len(t) : t[k] # 0
             /\ Len(t) < Len(s) => s[Len(t) + 1] = 0
<1>1. CASE Nuls(s) = {}
  <2>1. readline_sendstr(s) = s
    BY <1>1 DEF readline_sendstr
  <2>2. \A k \in 1 .. Len(s) : s[k] # 0
    BY <1>1 DEF Nuls
  <2>3. s = SubSeq(s, 1, Len(s)) /\ Len(s) \in Nat
    OBVIOUS
  <2>. QED  BY <2>1, <2>2, <2>3
<1>2. CASE Nuls(s) # {}
  <2>. DEFINE First(k) == k \in Nuls(s) /\ \A j \in Nuls(s) : k <= j
              m == CHOOSE k \in Nuls(s) : \A j \in Nuls(s) : k <= j
  <2>1. Nuls(s) \subseteq 1 .. Len(s) /\ Len(s) \in Nat
    BY DEF Nuls
  <2>2. \E k \in Nuls(s) : \A j \in Nuls(s) : k <= j
    <3>1. Nuls(s) \in SUBSET Nat
      BY <2>1
    <3>. QED  BY <1>2, <3>1, LeastNat
  <2>3. m \in Nuls(s) /\ \A j \in Nuls(s) : m <= j
    BY <2>2
  <2>4. readline_sendstr(s) = SubSeq(s, 1, m - 1)
    BY <1>2 DEF readline_sendstr
  <2>. HIDE DEF m
  <2>5. m \in 1 .. Len(s) /\ s[m] = 0
    BY <2>1, <2>3 DEF Nuls
  <2>6. \A k \in 1 .. m - 1 : s[k] # 0
    <3>. SUFFICES ASSUME NEW k \in 1 .. m - 1, s[k] = 0 PROVE FALSE
      OBVIOUS
    <3>1. k \in 1 .. Len(s) /\ k < m
      BY <2>1, <2>5
    <3>2. k \in Nuls(s)
      BY <3>1 DEF Nuls
    <3>. QED  BY <2>3, <2>5, <3>1, <3>2
  <2>7. /\ Len(SubSeq(s, 1, m - 1)) = m - 1
        /\ \A k \in 1 .. m - 1 : SubSeq(s, 1, m - 1)[k] = s[k]
    BY <2>1, <2>5
  <2>. QED  BY <2>1, <2>4, <2>5, <2>6, <2>7
<1>. QED  BY <1>1, <1>2

(* Where the characters go *)
LEMMA CharKept ==
  ASSUME TypedInv, NEW c \in 0 .. 255, handle_stdin_cb(c)
  PROVE  EachOnce' /\ rejected' \in Seq(0 .. 255)
<1>1. /\ Record(c) /\ (Good(c) \/ Bad(c) \/ More(c))
      /\ typed \in Seq(0 .. 255) /\ rejected \in Seq(0 .. 255) /\ rc \in {-1, 0, 1}
      /\ at # "start" => rc = 1
      /\ at = "start" /\ rc = 1 => typed = << >> /\ rejected = << >> /\ ansi_code = << >>
      /\ ansi_code = IF rc = 0 THEN << >> ELSE rejected \o typed
  BY DEF handle_stdin_cb, TypedInv, DecInv, DecTypes, EachOnce
<1>2. /\ rejected' \in Seq(0 .. 255)
      /\ Append(ansi_code, c) = rejected' \o typed'
  <2>0. ASSUME NEW s \in Seq(0 .. 255), NEW u \in Seq(0 .. 255)
        PROVE  /\ s \o u \in Seq(0 .. 255) /\ Append(s, c) = s \o <<c>>
               /\ Append(s \o u, c) = s \o Append(u, c)
               /\ << >> \o <<c>> = <<c>> /\ Append(<< >>, c) = <<c>> /\ << >> \in Seq(0 .. 255)
    <3>1. s \o u \in Seq(0 .. 255) /\ << >> \in Seq(0 .. 255)
      OBVIOUS
    <3>2. Append(s, c) = s \o <<c>> /\ << >> \o <<c>> = <<c>> /\ Append(<< >>, c) = <<c>>
      OBVIOUS
    <3>3. Append(s \o u, c) = s \o Append(u, c)
      <4>1. /\ Append(s \o u, c) = (s \o u) \o <<c>>
            /\ Append(u, c) = u \o <<c>>
        BY <3>1, AppendIsConcat
      <4>2. (s \o u) \o <<c>> = s \o (u \o <<c>>)
        <5>1. <<c>> \in Seq(0 .. 255)
          OBVIOUS
        <5>. QED  BY <5>1, ConcatAssociative
      <4>. QED  BY <4>1, <4>2, Zenon
    <3>. QED  BY <3>1, <3>2, <3>3, Zenon
  <2>1. CASE at # "start"
    <3>1. typed' = Append(typed, c) /\ rejected' = rejected /\ ansi_code = rejected \o typed
      BY <1>1, <2>1 DEF Record
    <3>2. Append(rejected \o typed, c) = rejected \o Append(typed, c)
      BY <1>1, <2>0, Zenon
    <3>. QED  BY <1>1, <3>1, <3>2, Zenon
  <2>2. CASE at = "start" /\ rc = 0
    <3>1. typed' = <<c>> /\ rejected' = << >> /\ ansi_code = << >>
      BY <1>1, <2>2 DEF Record
    <3>. QED  BY <1>1, <2>0, <3>1, Zenon
  <2>3. CASE at = "start" /\ rc = -1
    <3>1. typed' = <<c>> /\ rejected' = rejected \o typed /\ ansi_code = rejected \o typed
      BY <1>1, <2>3 DEF Record
    <3>. QED  BY <1>1, <2>0, <3>1, Zenon
  <2>4. CASE at = "start" /\ rc = 1
    <3>1. typed' = <<c>> /\ rejected' = << >> /\ ansi_code = << >>
      BY <1>1, <2>4 DEF Record
    <3>. QED  BY <1>1, <2>0, <3>1, Zenon
  <2>. QED  BY <1>1, <2>1, <2>2, <2>3, <2>4
<1>3. CASE Good(c)
  <2>1. rc' = 0 /\ ansi_code' = << >>
    BY <1>3 DEF Good, AfterGood
  <2>2. CASE Used(in', c)
    <3>1. did'.what \in {"move", "focus", "scroll", "window"}
      BY <1>3, <2>2 DEF Good, Use, Window, ScrollFocused
    <3>. QED  BY <1>2, <2>1, <3>1 DEF EachOnce
  <2>3. CASE ~ Used(in', c)
    <3>. DEFINE all == rejected' \o typed'
    <3>1. given' = readline_sendstr(all)
      BY <1>2, <1>3, <2>3 DEF Good, PassOn
    <3>2. all \in Seq(0 .. 255)
      <4>1. ansi_code \in Seq(0 .. 255)
        <5>1. << >> \in Seq(0 .. 255) /\ rejected \o typed \in Seq(0 .. 255)
          BY <1>1
        <5>. QED  BY <1>1, <5>1, Zenon
      <4>2. Append(ansi_code, c) \in Seq(0 .. 255)
        BY <4>1
      <4>. QED  BY <1>2, <4>2, Zenon
    <3>. HIDE DEF all
    <3>3. /\ Len(given') <= Len(all) /\ given' = SubSeq(all, 1, Len(given'))
          /\ \A k \in 1 .. Len(given') : given'[k] # 0
          /\ Len(given') < Len(all) => all[Len(given') + 1] = 0
      BY <3>1, <3>2, SentUpToNul
    <3>4. ansi_code' = IF rc' = 0 THEN << >> ELSE all
      BY <2>1
    <3>. QED  BY <1>2, <3>3, <3>4, Zenon DEF EachOnce, all
  <2>. QED  BY <2>2, <2>3
<1>4. CASE Bad(c) \/ More(c)
  <2>1. rc' # 0 /\ ansi_code' = Append(ansi_code, c)
    BY <1>4 DEF Bad, More
  <2>. QED  BY <1>2, <2>1 DEF EachOnce
<1>. QED  BY <1>1, <1>3, <1>4

LEMMA StepTyped == TypedInv /\ [Next]_vars => TypedInv'
<1>. SUFFICES ASSUME TypedInv, [Next]_vars PROVE TypedInv'
  OBVIOUS
<1>1. CASE UNCHANGED <<decoder, ansi_code, did, given, typed, rejected>>
  BY <1>1 DEF TypedInv, DecInv, DecTypes, DecLabels, MeansWhatWasTyped, EachOnce, decoder,
              InUnicode, InCsi, NothingParsed
<1>2. ASSUME NEW w \in Windows, GotLog(w) PROVE TypedInv'
  BY <1>1, <1>2 DEF GotLog
<1>3. ASSUME NEW c \in Chars, handle_stdin_cb(c) PROVE TypedInv'
  <2>1. c \in 0 .. 255
    BY ConsoleAssumption
  <2>2. DecInv' /\ MeansWhatWasTyped'
    BY <1>3, <2>1, CharTaken, TakenKeepsDec DEF TypedInv
  <2>3. EachOnce' /\ rejected' \in Seq(0 .. 255)
    BY <1>3, <2>1, CharKept
  <2>. QED  BY <2>2, <2>3 DEF TypedInv
<1>4. CASE UNCHANGED vars
  BY <1>1, <1>4 DEF vars, console
<1>. QED  BY <1>2, <1>3, <1>4 DEF Next

LEMMA TypedAlways == Spec => []TypedInv
BY InitTyped, StepTyped, PTL DEF Spec

(* textio_getch_cr takes every input for what its own characters say ...   *)
THEOREM TypedIsUnderstood == Spec => []MeansWhatWasTyped
<1>1. TypedInv => MeansWhatWasTyped
  BY DEF TypedInv
<1>. QED  BY TypedAlways, <1>1, PTL

(* ... and handle_stdin_cb gives readline each character it has no use for *)
(* once and in order, but for a NUL and what is kept behind it.            *)
THEOREM CharactersKeptOnce == Spec => []EachOnce
<1>1. TypedInv => EachOnce
  BY DEF TypedInv
<1>. QED  BY TypedAlways, <1>1, PTL
=============================================================================
