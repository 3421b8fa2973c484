------------------------------- MODULE Getch --------------------------------
(***************************************************************************)
(* The terminal input decoder (textio_getch_cr in src/textio.c): a         *)
(* coroutine that is given one character at a time.  It answers 0 when the *)
(* character completes an input, 1 when it needs more, -1 on an error; the *)
(* input is left in a struct that keeps what earlier inputs put there.     *)
(* A character is its code, 0 .. 255; char is signed.  The fields c and    *)
(* code of the struct are always written by the call that completes the    *)
(* input, from its own character: its caller is given that character here. *)
(* What only the drawing reads (button, x, y, the bytes wc) is left out.   *)
(***************************************************************************)
EXTENDS Integers, Sequences

CONSTANT MaxParams    \* TEXTIO_MAX_ESC_PARAMS

ASSUME GetchAssumption == MaxParams \in Nat \ {0, 1}

ESC == 27
isprint(c) == c \in 32 .. 126
isdigit(c) == c \in 48 .. 57
Signed(c) == IF c > 127 THEN c - 256 ELSE c
Bit(c, b) == (c \div b) % 2 = 1

VARIABLES at,          \* where the coroutine resumes
          in,          \* textio_input, kept by the caller
          parsed_num, parsed_num_dirty,
          left,        \* continuation bytes a Unicode character still needs
          rc           \* what the last call returned

decoder == <<at, in, parsed_num, parsed_num_dirty, left, rc>>

GetchInit ==
  /\ at = "start"
  /\ in = [type |-> "PLAIN", key |-> "UP", mods |-> {}, params |-> <<>>]
  /\ parsed_num = 0 /\ parsed_num_dirty = FALSE
  /\ left = 0
  /\ rc = 1

(* scrReturn(1) at a label, and the two results of scrResetReturn *)
Continue(where, i) == at' = where /\ in' = i /\ rc' = 1
Finish(result, i) == at' = "start" /\ in' = i /\ rc' = result
Accept(i) == Finish(0, i)
Reject(i) == Finish(-1, i)

NoNumber == UNCHANGED <<parsed_num, parsed_num_dirty>>

-----------------------------------------------------------------------------
(* The first character of an input *)

KeptMods(i) == [i EXCEPT !.params = <<>>]  \* mutant: the modifiers stay
Cleared(i) == [i EXCEPT !.params = <<>>, !.mods = {}]

(* How many bytes a Unicode character says it has: its leading ones *)
FirstWith == <<128, 192, 224, 240, 248, 252, 254, 255>>
Leading(c) == CHOOSE n \in 1 .. 8 : /\ FirstWith[n] <= c
                                    /\ n = 8 \/ c < FirstWith[n + 1]

Start(c) ==
  /\ at = "start"
  /\ parsed_num' = 0
  /\ UNCHANGED parsed_num_dirty
  /\ \/ /\ c < 128 /\ c # ESC
        /\ Accept([Cleared(in) EXCEPT !.type = "PLAIN"])
        /\ UNCHANGED left
     \/ /\ c = ESC
        /\ Continue("escape_seq", [Cleared(in) EXCEPT !.type = "ESCSEQ"])
        /\ UNCHANGED left
     \/ /\ c > 127
        /\ LET unicode == [Cleared(in) EXCEPT !.type = "UNICODE"]
           IN IF Leading(c) > 4
              THEN Reject(unicode) /\ UNCHANGED left
              ELSE Continue("unicode_char", unicode) /\ left' = Leading(c) - 1

(* A character with a single leading one needs no more bytes, but the      *)
(* decoder waits for one and calls it impossible.                          *)
UnicodeChar(c) ==
  /\ at = "unicode_char"
  /\ NoNumber
  /\ IF left = 0 \/ c \div 64 # 2
     THEN Reject(in) /\ UNCHANGED left
     ELSE /\ left' = left - 1
          /\ IF left = 1 THEN Accept(in) ELSE Continue("unicode_char", in)

EscapeSeq(c) ==
  /\ at = "escape_seq"
  /\ NoNumber /\ UNCHANGED left
  /\ CASE c = 79 -> Continue("fn_key", [in EXCEPT !.type = "FN_KEY"])   \* O
       [] c = 91 -> Continue("csi_first", in)                           \* [
       [] OTHER  -> IF isprint(c) THEN Accept(in) ELSE Reject(in)

(* P, Q, R and S after ^[O *)
F1to4 == [c \in 80 .. 83 |-> <<"F1", "F2", "F3", "F4">>[c - 79]]

FnKey(c) ==
  /\ at = "fn_key"
  /\ NoNumber /\ UNCHANGED left
  /\ IF c \in DOMAIN F1to4 THEN Accept([in EXCEPT !.key = F1to4[c]])
                           ELSE Reject(in)

-----------------------------------------------------------------------------
(* Control sequences: ^[[ parameters final *)

CodeMods ==
  [p \in 2 .. 8 |-> <<{"shift"}, {"meta"}, {"shift", "meta"}, {"ctrl"}, {"ctrl", "shift"},
                     {"ctrl", "meta"}, {"ctrl", "shift", "meta"}>>[p - 1]]

(* parse_modifier_code of the second parameter *)
Modified(i) ==
  IF i.params[2] \in DOMAIN CodeMods
  THEN Accept([i EXCEPT !.mods = CodeMods[i.params[2]]])
  ELSE Reject(i)

TildeKeys ==
  [p \in {2, 3, 5, 6, 15} \cup 17 .. 21 |->
     CASE p = 2 -> "INSERT" [] p = 3 -> "DEL" [] p = 5 -> "PGUP" [] p = 6 -> "PGDOWN"
       [] p = 15 -> "F5" [] p = 17 -> "F6" [] p = 18 -> "F7" [] p = 19 -> "F8"
       [] p = 20 -> "F9" [] p = 21 -> "F10"]

(* With no parameter, or three and more, the key of an earlier input stays *)
parse_tilde_sequence(i) ==
  LET n == Len(i.params)
      keyed == [i EXCEPT !.key = TildeKeys[i.params[1]]]
  IN CASE n \notin {1, 2} -> Accept(i)
       [] n \in {1, 2} /\ i.params[1] \notin DOMAIN TildeKeys -> Reject(i)
       [] n = 1 /\ i.params[1] \in DOMAIN TildeKeys -> Accept(keyed)
       [] n = 2 /\ i.params[1] \in DOMAIN TildeKeys -> Modified(keyed)

Arrows == [c \in 65 .. 68 |-> <<"UP", "DOWN", "RIGHT", "LEFT">>[c - 64]]
FnKeys == [c \in DOMAIN Arrows \cup DOMAIN F1to4 |->
             IF c \in DOMAIN Arrows THEN Arrows[c] ELSE F1to4[c]]

(* Arrows may come without a modifier, F1 to F4 may not *)
convert_csi_fn_key(i, code) ==
  LET keyed == [i EXCEPT !.type = "FN_KEY", !.key = FnKeys[code]]
  IN CASE code \notin DOMAIN FnKeys -> Accept(i)
       [] code \in DOMAIN FnKeys /\ Len(i.params) = 2 -> Modified(keyed)
       [] code \in DOMAIN Arrows /\ Len(i.params) # 2 -> Accept(keyed)
       [] code \in DOMAIN F1to4 /\ Len(i.params) # 2 -> Reject(keyed)

Stored(i) == [i EXCEPT !.params = Append(i.params, parsed_num)]
FlushNumber(i) == IF parsed_num_dirty THEN Stored(i) ELSE i
ResetNumber == parsed_num' = 0 /\ parsed_num_dirty' = FALSE
FlushReset == IF parsed_num_dirty THEN ResetNumber ELSE NoNumber

(* The loop.  A character it has no branch for leaves it where it is, and  *)
(* the loop asks for no other: the call never returns.                     *)
CsiLoop(c) ==
  CASE isdigit(c) -> /\ parsed_num' = parsed_num * 10 + (c - 48)
                     /\ parsed_num_dirty' = TRUE
                     /\ Continue("csi_seq", in)
    [] c = 59  -> /\ ResetNumber                                        \* ;
                  /\ IF Len(in.params) + 1 = MaxParams
                     THEN Reject(Stored(in))
                     ELSE Continue("csi_seq", Stored(in))
    [] c = 126 -> /\ FlushReset                                         \* ~
                  /\ parse_tilde_sequence([FlushNumber(in) EXCEPT !.type = "FN_KEY"])
    [] isprint(c) /\ ~isdigit(c) /\ c \notin {59, 126} ->
                  /\ FlushReset
                  /\ convert_csi_fn_key(FlushNumber(in), c)
    [] OTHER   -> NoNumber /\ at' = "spinning" /\ UNCHANGED <<in, rc>>

CsiFirst(c) ==
  /\ at = "csi_first"
  /\ UNCHANGED left
  /\ CASE c = 77 -> NoNumber /\ Continue("mouse_button", [in EXCEPT !.type = "MOUSE"])
       [] c = 63 -> NoNumber /\ Continue("csi_seq", in)                 \* ?
       [] OTHER  -> CsiLoop(c)

CsiSeq(c) == at = "csi_seq" /\ UNCHANGED left /\ CsiLoop(c)

-----------------------------------------------------------------------------
(* ^[[M button x y *)

HeldMods(c) == {m \in {"shift", "meta", "ctrl"} :
                  Bit(c, CASE m = "shift" -> 4 [] m = "meta" -> 8 [] m = "ctrl" -> 16)}

(* Below 92 every code is a button; from there on only the two of the wheel *)
BadButton(c) == Signed(c) < 32 \/ (c >= 92 /\ ~Bit(c, 32))

MouseButton(c) ==
  /\ at = "mouse_button"
  /\ NoNumber /\ UNCHANGED left
  /\ LET held == IF Signed(c) < 32 THEN in ELSE [in EXCEPT !.mods = HeldMods(c)]
     IN IF BadButton(c) THEN Reject(held) ELSE Continue("mouse_x", held)

MouseX(c) ==
  /\ at = "mouse_x"
  /\ NoNumber /\ UNCHANGED left
  /\ IF Signed(c) < 32 THEN Reject(in) ELSE Continue("mouse_y", in)

MouseY(c) ==
  /\ at = "mouse_y"
  /\ NoNumber /\ UNCHANGED left
  /\ IF Signed(c) < 32 THEN Reject(in) ELSE Accept(in)

textio_getch_cr(c) ==
  \/ Start(c) \/ UnicodeChar(c) \/ EscapeSeq(c) \/ FnKey(c)
  \/ CsiFirst(c) \/ CsiSeq(c) \/ MouseButton(c) \/ MouseX(c) \/ MouseY(c)
=============================================================================
