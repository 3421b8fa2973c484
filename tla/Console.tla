------------------------------ MODULE Console ------------------------------
(***************************************************************************)
(* What is typed (handle_stdin_cb in src/main.c): the decoder of Getch,    *)
(* the characters kept until it is known whose they are, the keys          *)
(* timonerie uses itself, and the scrolling of the focused window          *)
(* (LineBuf).  Everything not used goes to readline.  Log lines arrive     *)
(* between two characters.  What the window keys do to the tree is module  *)
(* Twm; here such a key may succeed, or fail with a message, and moves the *)
(* focus anywhere.                                                         *)
(***************************************************************************)
EXTENDS Getch, LineBuf, FiniteSets

CONSTANTS Windows,    \* the windows that scroll: "err_log", dbg_guvs
          Chars,      \* the characters the terminal sends
          AnsiSize,   \* bound: characters kept in ansi_code (16 in the code)
          MaxKept,    \* bound: of these, of bad inputs when the next starts
          MaxLines    \* bound: lines appended to a window

ASSUME ConsoleAssumption ==
  /\ "err_log" \in Windows /\ "other" \notin Windows
  /\ Chars \subseteq 0 .. 255
  /\ AnsiSize \in Nat \ {0} /\ {MaxKept, MaxLines} \subseteq Nat

VARIABLES ansi_code,  \* the characters kept, not yet used or passed on
          did,        \* what became of the last input
          given,      \* the characters of it that readline got
          buf,        \* the scrollback of each window, and its offset
          focus,      \* the focused window
          typed,      \* history: the characters of the input being decoded
          rejected,   \* history: those of bad inputs just before it
          running,    \* the event loop goes on
          appended    \* history: lines appended to each window

console == <<ansi_code, did, given, buf, focus, typed, rejected,
             running, appended>>
vars == <<decoder, console>>

Nothing == [what |-> "nothing"]
Failed == [what |-> "error"]

Init ==
  /\ GetchInit
  /\ ansi_code = <<>> /\ given = <<>> /\ typed = <<>> /\ rejected = <<>>
  /\ did = Nothing
  /\ running = TRUE
  /\ buf = [w \in Windows |-> init_linebuf]
  /\ appended = [w \in Windows |-> 0]
  /\ focus = "err_log"

-----------------------------------------------------------------------------
(* msg_win_dynamic_append and append_log: the next line, by its number *)
Appended(w, n) ==
  /\ appended[w] + n <= MaxLines
  /\ appended' = [appended EXCEPT ![w] = @ + n]
  /\ buf' = IF n = 0 THEN buf
            ELSE [buf EXCEPT ![w] = linebuf_append(@, appended[w] + 1)]

Message == Appended("err_log", 1)

(* Another callback appends a line: a log of a dbg_guv that arrives        *)
(* (read_fpga_connection, module RxStream), or a message                   *)
GotLog(w) ==
  /\ running /\ at # "spinning"
  /\ Appended(w, 1)
  /\ UNCHANGED <<decoder, ansi_code, did, given, focus, typed, rejected, running>>

-----------------------------------------------------------------------------
(* An operation on the window tree: a message if it failed *)
Window(op) ==
  /\ did' = op
  /\ focus' \in Windows \cup {"other"}
  /\ \E n \in {0, 1} : Appended("err_log", n)

Amount(dir, mods) ==
  LET lines == IF "shift" \in mods THEN 10 ELSE 1
  IN CASE dir = "UP" -> lines [] dir = "DOWN" -> -lines [] OTHER -> 0

ScrollFocused(dir, mods) ==
  /\ did' = [what |-> "scroll", dir |-> dir, far |-> "shift" \in mods]
  /\ UNCHANGED focus
  /\ IF focus \in Windows
     THEN /\ UNCHANGED appended
          /\ buf' = IF dir \in {"UP", "DOWN"}
                    THEN [buf EXCEPT ![focus] = Scroll(@, Amount(dir, mods))]
                    ELSE buf
     ELSE Message

KeysUsed == {113, 118, 104, 119, 97, 122}      \* q v h w a z after an escape

(* What the switch does with an input, from the struct the decoder left: a *)
(* plain character falls through to the function keys, with whatever key   *)
(* an earlier input put there.                                             *)
Moves(i) == i.mods = {"meta", "shift"}
Focuses(i) == i.mods = {"meta"}
Scrolls(i) == "ctrl" \in i.mods /\ "meta" \notin i.mods
ArrowUsed(i) == /\ i.type \in {"PLAIN", "FN_KEY"}
                /\ i.key \in {"UP", "DOWN", "LEFT", "RIGHT"}
                /\ Moves(i) \/ Focuses(i) \/ Scrolls(i)
LetterUsed(i, c) == i.type = "ESCSEQ" /\ c \in KeysUsed
Used(i, c) == ArrowUsed(i) \/ LetterUsed(i, c)

Use(i, c) ==
  \/ ArrowUsed(i) /\ Moves(i) /\ Window([what |-> "move", dir |-> i.key])
  \/ ArrowUsed(i) /\ Focuses(i) /\ Window([what |-> "focus", dir |-> i.key])
  \/ ArrowUsed(i) /\ Scrolls(i) /\ ScrollFocused(i.key, i.mods)
  \/ LetterUsed(i, c) /\ Window([what |-> "window", key |-> c])

(* readline_sendstr: what readline gets of a C string, which ends at its   *)
(* first NUL (Ctrl-Space), although more characters were put into it.      *)
Nuls(s) == {k \in DOMAIN s : s[k] = 0}
readline_sendstr(s) ==
  IF Nuls(s) = {} THEN s
  ELSE SubSeq(s, 1, (CHOOSE k \in Nuls(s) : \A j \in Nuls(s) : k <= j) - 1)

(* Enter may complete a line, and got_rl_line obey it before readline_     *)
(* sendstr returns: the command may move the focus, and the lines that it  *)
(* appends to windows come here or as in GotLog.                           *)
CompletesLine(s) == \E k \in DOMAIN s : s[k] \in {10, 13}

(* Control-L asks for a redraw, which may fail, and is still passed on *)
PassOn(i, c) ==
  /\ did' = [what |-> "readline", redraw |-> i.type = "PLAIN" /\ c = 12]
  /\ given' = readline_sendstr(Append(ansi_code, c))
  /\ focus' \in IF CompletesLine(given') THEN Windows \cup {"other"} ELSE {focus}
  /\ \E n \in IF did'.redraw \/ CompletesLine(given') THEN {0, 1} ELSE {0} :
       Appended("err_log", n)

(* What is kept once the characters were used or passed on: nothing *)
KeptForNext(c) == Append(ansi_code, c) \* mutant: the position is not reset
AfterGood(c) == <<>>

(* Good input: the kept characters are used, or all passed on *)
Good(c) ==
  /\ rc' = 0
  /\ IF Used(in', c) THEN Use(in', c) /\ given' = <<>> ELSE PassOn(in', c)
  /\ ansi_code' = AfterGood(c)

(* Bad input: reported, and its characters stay in ansi_code *)
Bad(c) ==
  /\ rc' = -1
  /\ did' = Failed
  /\ Message
  /\ ansi_code' = Append(ansi_code, c)
  /\ given' = <<>>
  /\ UNCHANGED focus

(* More to come; or, in state spinning, a call that does not come back *)
More(c) ==
  /\ rc' = 1
  /\ ansi_code' = Append(ansi_code, c)
  /\ did' = Nothing
  /\ given' = <<>>
  /\ UNCHANGED <<buf, focus, appended>>

Record(c) ==
  /\ typed' = IF at = "start" THEN <<c>> ELSE Append(typed, c)
  /\ rejected' = CASE rc = 0 -> <<>> [] rc = -1 -> rejected \o typed
                   [] OTHER -> rejected

(* Control-D (4) ends the event loop once this call is over, and so does   *)
(* the command quit.  Past its last place ansi_code is not modelled: AnsiSize and MaxKept bound what   *)
(* is typed.                                                               *)
handle_stdin_cb(c) ==
  /\ running /\ at # "spinning"
  /\ Len(ansi_code) + 1 < AnsiSize
  /\ at = "start" => Len(ansi_code) <= MaxKept
  /\ Record(c)
  /\ textio_getch_cr(c)
  /\ Good(c) \/ Bad(c) \/ More(c)
  /\ running' \in IF c = 4 THEN {FALSE}
                 ELSE IF CompletesLine(given') THEN BOOLEAN ELSE {TRUE}

Next == (\E w \in Windows : GotLog(w)) \/ \E c \in Chars : handle_stdin_cb(c)

Spec == Init /\ [][Next]_vars

-----------------------------------------------------------------------------
(* What the typed characters mean, read off the whole input at once. *)

(* ^[[ parameters final: the parameters are the fields between semicolons, *)
(* a last field that is empty not being one.                               *)
Semicolons(s) == {k \in 1 .. Len(s) : s[k] = 59}
Rank(s, p) == Cardinality({q \in Semicolons(s) : q <= p})
Nth(s, k) == CHOOSE p \in Semicolons(s) : Rank(s, p) = k
FieldStart(s, k) == IF k = 1 THEN 1 ELSE Nth(s, k - 1) + 1
FieldEnd(s, k) == IF k > Cardinality(Semicolons(s)) THEN Len(s) ELSE Nth(s, k) - 1
Number(s) ==
  LET value[k \in 0 .. Len(s)] == IF k = 0 THEN 0 ELSE value[k - 1] * 10 + (s[k] - 48)
  IN  value[Len(s)]
Field(s, k) == SubSeq(s, FieldStart(s, k), FieldEnd(s, k))
NumFields(s) == Cardinality(Semicolons(s))
                + (IF s # <<>> /\ s[Len(s)] # 59 THEN 1 ELSE 0)
Params(s) == [k \in 1 .. NumFields(s) |-> Number(Field(s, k))]

(* A modifier parameter is one more than a mask: shift 1, meta 2, ctrl 4 *)
MaskOf(p) == {m \in {"shift", "meta", "ctrl"} :
                Bit(p - 1, CASE m = "shift" -> 1 [] m = "meta" -> 2 [] m = "ctrl" -> 4)}

Readline(redraw) == [what |-> "readline", redraw |-> redraw]
ArrowMeans(dir, mods) ==
  CASE mods = {"meta", "shift"} -> [what |-> "move", dir |-> dir]
    [] mods = {"meta"} -> [what |-> "focus", dir |-> dir]
    [] "ctrl" \in mods /\ "meta" \notin mods ->
         [what |-> "scroll", dir |-> dir, far |-> "shift" \in mods]
    [] OTHER -> Readline(FALSE)
LetterMeans(c) == IF c \in KeysUsed THEN [what |-> "window", key |-> c]
                  ELSE Readline(FALSE)

ModifierOk(ps) == Len(ps) = 2 => ps[2] \in 2 .. 8
ControlMeans(ps, final) ==
  LET mods == IF Len(ps) = 2 THEN MaskOf(ps[2]) ELSE {}
  IN CASE final = 59 -> Failed
       [] final = 126 -> IF Len(ps) \in {1, 2}
                            /\ ~(ps[1] \in DOMAIN TildeKeys /\ ModifierOk(ps))
                         THEN Failed ELSE Readline(FALSE)
       [] final \in DOMAIN Arrows ->
            IF ModifierOk(ps) THEN ArrowMeans(Arrows[final], mods) ELSE Failed
       [] final \in DOMAIN F1to4 ->
            IF Len(ps) = 2 /\ ModifierOk(ps) THEN Readline(FALSE) ELSE Failed
       [] OTHER -> LetterMeans(final)

MouseMeans(bytes) ==
  IF Len(bytes) = 3 /\ ~BadButton(bytes[1]) /\ bytes[2] \in 32 .. 127
     /\ bytes[3] \in 32 .. 127
  THEN Readline(FALSE) ELSE Failed

UnicodeMeans(s) ==
  IF /\ Len(s) \in 2 .. 4 /\ Leading(s[1]) = Len(s)
     /\ \A k \in 2 .. Len(s) : s[k] \in 128 .. 191
  THEN Readline(FALSE) ELSE Failed

Meaning(s) ==
  LET n == Len(s)
      body == SubSeq(s, IF n > 3 /\ s[3] = 63 THEN 4 ELSE 3, n - 1)
  IN CASE s[1] > 127 -> UnicodeMeans(s)
       [] s[1] \notin {ESC} \cup 128 .. 255 -> Readline(s[1] = 12)
       [] s[1] = ESC /\ s[2] = 79 ->
            IF s[3] \in DOMAIN F1to4 THEN Readline(FALSE) ELSE Failed
       [] s[1] = ESC /\ s[2] = 91 ->
            IF s[3] = 77 THEN MouseMeans(SubSeq(s, 4, n))
            ELSE ControlMeans(Params(body), s[n])
       [] s[1] = ESC /\ s[2] \notin {79, 91} ->
            IF isprint(s[2]) THEN LetterMeans(s[2]) ELSE Failed

-----------------------------------------------------------------------------
(* What holds.  Every input, good or bad, is taken for exactly what its    *)
(* own characters say, whatever key, modifiers, parameters or number the   *)
(* inputs before it left behind in the struct and the statics.             *)
MeansWhatWasTyped == rc # 1 => did = Meaning(typed)

(* What is kept is the input under way behind the bad ones before it.     *)
(* When timonerie has no use for the input, readline gets these characters *)
(* in order and once each, and all of them unless one is a NUL: the first  *)
(* NUL and what is kept behind it are lost.                                *)
EachOnce ==
  LET all == rejected \o typed
  IN  /\ ansi_code = IF rc = 0 THEN <<>> ELSE all
      /\ rc = 0 /\ did.what = "readline" =>
           /\ Len(given) <= Len(all) /\ given = SubSeq(all, 1, Len(given))
           /\ \A k \in 1 .. Len(given) : given[k] # 0
           /\ Len(given) < Len(all) => all[Len(given) + 1] = 0

(* "If it doesn't use it, we should pass it to readline", NUL or not.      *)
NothingLost == rc = 0 /\ did.what = "readline" => given = rejected \o typed

(* However lines arrive and the user scrolls, a window of any height shows *)
(* the newest lines behind its offset, and never reads outside the buffer. *)
ShowsNewest ==
  \A w \in Windows : \A h \in 1 .. NLines :
    /\ \A i \in 0 .. h - 1 : Operand(buf[w], h, i) >= 0
    /\ draw_linebuf(buf[w], h) = Newest(appended[w], buf[w].offset, h)

(* textio.h says that on an error the decoder answers -1 and resets. *)
NeverSpins == at # "spinning"

=============================================================================
