# Timonerie in TLA+

Timonerie is a terminal front end for `dbg_guv`, a hardware debugger for AXI
Stream designs. One process, one libevent loop and no threads of its own: it
holds non-blocking sockets to FPGAs, mirrors the debuggers' registers, tiles
their windows on the screen, sends files into a stream word by word and saves
what the debuggers log. Beside it the repository has `fake_dbg_guv.c`, a threaded
program that stands in for the hardware. This directory models the parts of both
that keep state, checks them with TLC, and proves with TLAPS what matters most of
the two byte rings, the receive parser, the file transfer, the model of the
hardware, the terminal input with its scrollback and the names of a session. The source is under `src/`; every definition is translated from it, and
`PROJECT.json` says from which lines.

## The system

| Component | Source | State | Operations |
|---|---|---|---|
| Transmit ring | `dbg_guv.c` 117-186, 422-474 | `out_buf`, `out_buf_pos`, `out_buf_len`, whether `wr_ev` is pending | send a register write (two words) or a LATCH (one); write callback; cleanup |
| Receive parser | `dbg_guv.c` 188-420 | `in_buf`, `in_buf_pos` | read callback: dispatch receipts and logs, keep a straggler |
| fio, sending | `timonier.c` 135-605, 676-803, 968-984 | state, resume label, retries, pause flag, read buffer, file event, retry timers | file readable, receipt, retry timer; `txfile`, `send`, `pause`, `cont`; cleanup |
| fio, logging | `timonier.c` 290-341, 704-753, 805-851 | a second ring, log state | `rxfile`, `logon`, `logoff`; log and file callbacks |
| Window manager | `twm.c` | a tree of heap nodes and the focus | move, add, delete, wrap, toggle, find, draw |
| Session | `main.c` 106-176, 381-445, 522-566, 805-843 | symbol table, list of connections, names kept in connections and dbg_guvs | `open`, `close`, `name`; connection callback; cleanup, one dbg_guv at a time |
| Symbol table | `symtab.c` | an array of names and values | append, remove, look up |
| Input decoder | `textio.c` 248-787, `coroutine.h` | a coroutine's position, a struct and a number that outlive an input | one character |
| Key dispatch | `main.c` 178-344 | characters kept until it is known whose they are | one character |
| Line buffers | `textio.c` 790-940, `dbg_guv.c` 108-115, 602-607 | a ring of lines, a scroll offset | append, scroll, draw |
| Command parser | `dbg_cmd.c` | none | parse one line |
| FPGA model | `fake_dbg_guv.c` | scratch and live registers, a log packet, a receipt, what each writer thread is to write | main loop: check the writers, take input, obey a command; threads: take, write, report |

How they interact: everything runs in libevent callbacks, so a callback is
atomic with respect to the others and every interleaving is between callbacks.
`got_rl_line` (`main.c`) asks the window manager for the focused dbg_guv and
hands the line to the command switch or to the dbg_guv's manager. A manager
sends with `dbg_guv_send_cmd` into the transmit ring and is called back by the
receive parser with receipts. Windows refer to dbg_guvs by pointer, and
`cleanup_fpga_connection` must remove them before it frees the connection. Two
things do not respect the loop: the SIGWINCH handler, and the timers made with
`event_base_once`, which nobody can cancel. Characters go from `handle_stdin_cb`
to the decoder, and from there to the window manager, the scrollback of the
focused window, or readline. In `fake_dbg_guv.c` the main loop and each writer
thread share one `egress_args` under a mutex that is released during the write,
so there every critical section is a step of its own.

What is hard: partial writes and reads; the one-shot events; receipts, retries
and user commands crossing on the wire; computed gotos that resume a state
machine in the middle; a tree edited in place while other pointers lead into
it; resources released in one component while another still refers to them.

What makes each part correct: the ring is a FIFO of bytes and always has a
wake-up under way; the parser dispatches each packet once, whole and in order;
a file arrives once and in order, and the display is honest about it; the tree
stays a tree, holds every open window once and has a focus in it; nothing
refers to what was freed; a name denotes one live object; an input is taken for
what was typed, whatever was typed before it; a window shows the lines it
should; the model of the hardware writes each word once, and counts what it logs.

## Modules

| Module | Models |
|---|---|
| `ByteFifo` | what the transmit side promises: a bounded FIFO of bytes |
| `TxRing` | the transmit ring, byte by byte |
| `TxRing_proofs` | theorems about `TxRing` and their proofs |
| `RxStream` | the framing of the receive stream |
| `RxStream_proofs` | theorems about `RxStream` |
| `Fio` | the sending half of the file I/O manager and the FPGA it talks to |
| `Fio_proofs` | theorems about `Fio` |
| `Twm` | the window tree, its heap, and the keys and commands that edit it |
| `Twm_proofs` | theorems about `Twm` |
| `LogFile` | the logging half of the file I/O manager |
| `LogFile_proofs` | theorems about `LogFile` |
| `FakeGuv` | the software model of a dbg_guv: its main loop and writer threads |
| `FakeGuv_proofs` | theorems about `FakeGuv` |
| `Getch` | the terminal input decoder, one character a step |
| `LineBuf` | a window's scrollback: append, scroll, draw |
| `Console` | `handle_stdin_cb` over `Getch` and `LineBuf`, with logs arriving in between |
| `Console_proofs` | theorems about the decoder, its characters and the scrollback |
| `Directory` | what the names of a session promise |
| `SymTab` | the symbol table as a sequence of entries |
| `Session` | `open`, `close`, `name`, the connection callback and cleanup, over `SymTab` |
| `Session_proofs` | theorems about `Session` |
| `MC_*` | constants and views for TLC |

**TxRing.** The variables are the fields of `fpga_connection_info`, with
`wr_pending` for whether `wr_ev` has been added and not fired, and `wire` for
what the latest `write()` took. `SendLatch` and `SendReg` are
`dbg_guv_send_cmd`, including the command whose address fits and whose
parameter does not. `WriteSome(n)` is a write callback in which the socket took
n bytes, `WriteFails` one in which `write()` returned -1 or 0. The bytes are
kept because wrap-around and splitting are about bytes. `ImplementsFifo` maps
the ring to `ByteFifo` by reading the stored bytes off modulo the size.

**RxStream.** A word is its packet, its place in it and the packet's kind
(`words`, whether it is a receipt, whether its address has a dbg_guv). `Read(n)`
is `read_fpga_connection` up to its loop when `read()` returns n bytes, any number
up to the words (not bytes) that are free; what is behind the last whole word is
dropped. `Treat` is one turn of the loop: dispatch, skip, or keep a straggler.
Nothing else runs during the loop; it is cut into turns so that what each takes
for a header can be looked at. `in_buf` is what the code keeps from `rd_pos` on.
The history `torn` says that a read began inside a word, `overran` that a log was
skipped whose end had not been read. From there on (`Slipped`) the parser goes on
as the code does, with a data word, or bytes of two, taken for the header of
anything (`ReadsAs`). The bytes in a read that goes beyond the buffer, which the
length makes impossible, are not modelled.

**Fio.** `send_state`, `resume_pos` (a label: `__resume_pos`), `send_retries`,
`send_pause`, `send_bytes`, `in_buf` and `in_buf_pos` are fields of `fio`.
`rd_ev` is the life of the file event, `timers` counts the pending
`event_base_once`. `Fsm` is `sendfile_fsm`, one operator per label. `tdata` is a
local variable of the C function; at the one label where it can be read in a
later call it is a nondeterministic choice. Words of a file are sequences of
byte positions. The FPGA side is the inject registers of `fake_dbg_guv.c`: a
LATCH with a word still waiting fails and says so in its receipt. (That
program's receipt and log words are encoded in an older layout than the one
`read_fpga_connection` decodes; the model takes what they mean and not how they
are laid out.) A NOFILE manager and a freed one are told apart, since a timer
can find the latter; a step that touches freed memory ends the behaviour with
`fault`. The log_latch fields belong to the logging half and are always 0 here,
as they are in the code: nothing ever sets them.

**Twm.** The state is a record `tree`: `head`, `focus`, the outcome `err` of the
last operation (`error_str`, or the way the program crashed), and the heap, a
function from node numbers to nodes. Nodes are edited in place and can be freed,
leaked or pointed at after being freed, as in the code. An operation is an
operator from one tree to the next, because the code composes them
(`twm_move_node` is an insertion and a removal); actions are the keys and
commands of `main.c`, whole. `got_rl_line` asks for the focused window before
every command, which can move the focus (`AfterLine`). `Gone` is the address of
a dbg_guv whose connection was freed. The loops and tail calls that go from node to
node (`Climb`, `Level`, `LastLeaf`, `EdgeParent`, the search of `FindItem` with its
list of nodes to visit) say what one turn does, and `Iterate` takes the turns until
nothing changes: a tree has fewer than `MaxNodes` to take. What a node leads to
(`Below`, `HeldByTree`) is a fixed point that `Iterate` reaches in the same way.

**LogFile.** The variables are fields of `fio`; `wr_ev` is the life of
`file_wr_ev` (none, idle, pending, freed), `wire` what the latest `write()` took.
`written` and `carried` are history: the bytes written to the file that is open,
and those `rxfile` found in the ring. `log_fio` is modelled with the branch that
straddles the end and would corrupt a log; it is never taken. (The source marks
the function BROKEN; what the model shows of that is listed below.)
`ImplementsFifo` maps the ring to the same `ByteFifo` as the transmit ring's: an
error or a change of file leaves what is queued as it is.

**FakeGuv.** `pc` has a place for the main loop and one for each writer thread.
An action is one critical section of a mutex or one system call, so whatever can
happen between a thread's copy of `to_send`, its `write()` and the two critical
sections after it is explored. The threads of the output and the log read
`extra_rc` uninitialised, so `Clear` may end the thread. A word is a tuple that
says what it is: an input, an injected word, a header, an answer. `accepted`,
`injects`, `dropped` and `quota` are history; `injects` marks a word as withdrawn when
a LATCH without an inject comes while it waits. Reads that end inside a word are
left out, since the loop does nothing before the word is whole.

**Getch, LineBuf, Console.** `at` names the `scrReturn` at which the coroutine
resumes, `in` holds the fields of `textio_input` that somebody reads later;
`spinning` is a call that does not return. `Console` keeps `ansi_code` and calls
the decoder with one character; `Use` is the switch on the type of input, with
its fall-through, and `PassOn` what readline gets of the rest (`readline_sendstr`).
Enter may complete a line: `got_rl_line` then runs inside `readline_sendstr` and may
move the focus, append lines or end the loop. Any more lines it appends come as `GotLog`.
A window that reaches past the terminal is clipped when it is drawn
(`textio.c:920-921`); that is left out. `buf` has one linebuf for each window, whose lines are the
numbers of the appends. `Meaning` is a second reading of an input, from the whole
character string at once (parameters are fields between semicolons, modifiers a
mask), that shares no state with the decoder.

**SymTab, Session, Directory.** `ids` is the array, in its order, with removal by
moving the last entry. `pending` are the names that `event_base_once` holds for
`fpga_conn_cb`. The cleanup of a connection is a loop over its dbg_guvs, a step
each (`closing`, `next_guv`), during which nothing else runs. `Directory` knows
no table: a name is free, reserved, or denotes a connection or a dbg_guv, and
closing a connection frees all its names at once. The refinement mapping reads
the table through `symtab_lookup` and counts a connection as closed from the
first step of its cleanup.

## Runs

| Run | Question | Result |
|---|---|---|
| `txring` | Is the transmit ring a FIFO that is always woken up and makes room again? | holds |
| `rx` | Is each packet dispatched once, whole and in order, until the parser slips? | holds |
| `fio` | Does an unattended transfer end, whole, with one wake-up at a time? | holds |
| `fio_all` | What survives any commands at any moment? | holds |
| `fio_lost` | Are the words still in order when the user pauses? | violated |
| `logfile` | Does every logged byte get into the file, once, in order and counted? | holds |
| `fakeguv` | Do the threads and the loop hand over every word once, framed and counted? | holds |
| `twm` | Is the tree a tree, with every window once? | holds, up to two faults |
| `twm_stale` | Are the windows of a closed connection gone? | violated |
| `console` | Is every input taken for what it says, every character used once, every line shown where it belongs? | holds |
| `getch_hang` | Does the decoder always return? | violated |
| `session` | Does a name denote one live thing, whatever is opened, closed and named? | holds |

The three findings are in `PROJECT.json` with the lines and the comments they
contradict:

* `fio_lost`: the next word is taken out of the buffer into a local variable
  before the machine pauses, and injected from that variable in a later call
  (`timonier.c:536`).
* `twm_stale`: `cleanup_fpga_connection` says "Close windows" and ignores that a
  wrapped window alone in the tree cannot be removed (`main.c:820`).
* `getch_hang`: a control character inside a control sequence makes
  `textio_getch_cr` loop for ever (`textio.c:675`).

### Other disagreements seen while modelling

The first seven are modelled, and each has a definition in its module that is
violated when it is checked as said; they are not among the runs.

* A write that would block closes the connection (`dbg_guv.c:439` compares `rc`,
  not `errno`, with EAGAIN; line 449 says "not an error"): `EagainIsNotAnError`
  with the constants of `MC_TxRing.cfg`. `fio_file_wr_ev` has the same test
  (`timonier.c:304`).
* A log for an address without a dbg_guv is skipped before the check that it is all
  there (`dbg_guv.c:296`), so a partial one is not saved, as lines 195-197 say it must
  be, and the rest of it is taken for new packets: `PartialSaved` with the constants
  of `MC_RxStream.cfg`.
* `cont` does not resume a transfer paused after a failed inject
  (`timonier.c:428`; 175-177 says it does): `Unpauses` with `Line <- Paused`.
* The retry timer may find its manager freed (`timonier.c:447`): `NoFault` with
  `Line <- Managers`.
* Deleting the only window below a wrapped stack may move the focus to the node
  that the deletion merges away (`twm.c:1139`): `FocusNotFreed` without the
  constraint of `MC_Twm.cfg`.
* `handle_stdin_cb` passes on what it does not use (`main.c:184`) as a C string, and
  `readline_sendstr` stops at its first NUL (`textio.c:175`): Ctrl-Space never reaches
  readline, and typed after an escape it is kept with it and hides the characters of
  the next input too. `NothingLost` with the constants of `MC_Console.cfg`.
* `fake_dbg_guv.c:574` says that a LATCH keeps the values of an inject that waits
  "unless new inj_TVALID is 0", but line 576 tests the old one, so they are always
  kept: `GivesWay` with the constants of `MC_FakeGuv.cfg`. `InjectOnce` leaves open
  what becomes of such a word; it holds of the code and of what the comment says.
* Moving the only window of the tree when it is wrapped in a stack, or closing it,
  takes it out of the root stack before the error is noticed (`twm.c:744`, then the
  error at 783), and the next draw divides by the number of the children that are left
  (`twm.c:73`). The model does this (`DrawCrash`); no line promises otherwise.
* A read behind a straggler may end inside a word (`dbg_guv.c:198` mixes words
  and bytes); the rest of the word is dropped and the stream is out of step from
  there. No line promises otherwise; `torn` in `RxStream` is this.
* In `fake_dbg_guv.c`, a receipt not sent yet is overwritten by that of the next
  LATCH; `drop_cnt` is counted down but never makes the input dropped; input not
  read yet when the pipe is hung up is lost (line 400).
* Characters of a rejected input stay in `ansi_code` and are given to readline in
  front of the next input; nothing compares `ansi_code_pos` with the sixteen
  places of the array (`main.c:203`).
* A control sequence that ends in a letter counts as that letter after an escape
  (`csi_seen` is not looked at): `^[[q` deletes the focused window. A lone
  continuation byte swallows the character after it (`textio.c:764`). A tilde
  sequence with no parameter, or three, is a function key with the key of an
  input before it (`textio.c:360`).
* A name of 64 characters is accepted (`dbg_cmd.c:304`) but stored as 63, so it is
  never found again and its connection is dropped when it completes. An address
  that does not resolve leaves its name taken for ever (`main.c:409`).
* `rxfile` does not empty the log ring: what an earlier file left is the beginning
  of the next one, and waits for that file's first log to be written.

### Bounds, and why they are enough

* `txring`: a ring of three words of four bytes, one LATCH, one other register,
  two parameters. Each byte carries the word it belongs to and its place in it,
  so a swap, a loss or an overwrite shows. Three words are enough to be empty,
  to wrap, to be full, and to be full by one half of a command. The theorems
  remove the bound.
* `rx`: words of two bytes (four in the code), a buffer of six words (512), three
  packets of five kinds: receipts and logs for a dbg_guv that exists and for one
  that does not, and a log of five words, the longest that leaves room for a word
  to be read (`RxAssumption`; the longest log of the code is 19 words). So reads
  are cut short by the socket and by the room left, a straggler of every length is
  kept, and both ways of getting out of step happen. The theorems remove the bound.
* `fio`: words of two bytes, a buffer of three words, a file of four words. It
  is longer than the buffer, so the buffer fills, empties and holds a part of a
  word, and every inject may fail up to the last retry. Three commands on the
  wire (`Queue`) is the longest burst the machine sends; unattended, it never
  sends into a full queue.
* `fio_all`: a file of two words and a half and a buffer of two words, all
  commands, at most one user LATCH and two timers. `VIEW Control` leaves out
  what was injected and the byte count, which no guard reads. Here the queue
  does fill up, and the error branches are taken.
* `twm`: one FPGA with two dbg_guvs, the message window, one dummy: four windows
  at most, stacks of up to three (`MAX_CHILDREN` is 8) so that a stack can be
  full, eight nodes. Four windows make trees with stacks inside stacks on both
  sides. `VIEW` renumbers the nodes in the order a walk from the head and the
  focus meets them, since addresses do not matter, and takes all outcomes that
  are not crashes as one. `CONSTRAINT Intact` stops exploring at a state whose
  focus has left the tree or whose tree shows a freed dbg_guv: from there on,
  everything may break. The theorems, about `UntilLost`, remove the other bounds and
  stop only where the focus has left the tree. `twm_stale` has no constraint. The focus leaves the tree
  when a window that is not focused is closed and its wrapping stack is
  (`RemoveFound`).
* `logfile`: logs of three bytes (`W`; the code saves eight), three of them in the
  ring, five logged in a file, two files: enough to wrap, to fill, to be full in
  the middle of a log already partly written, and to leave something for the
  second file. The theorems remove the bound.
* `fakeguv`: two input words, two LATCHes, counts up to one, and the registers
  `log_cnt`, `inj_TVALID` and `inj_TDATA`: enough for a log, a receipt and
  the next log to be under way together, for a LATCH in the middle of each, and
  for an inject to find another, different one waiting. Without `keep_dropping` no
  input is dropped in the run. The theorems remove the bound.
* `console`: twenty characters, one or more of each class the decoder and the
  passing on tell apart; up to seven characters kept, at most two of them of rejected inputs;
  three parameters (16 in the code); three lines of scrollback and four appends,
  so that it wraps; one window that scrolls and one that does not. The theorems
  remove the bound.
* `session`: four names, two connections with two dbg_guvs each (1024 in the
  code): enough for the table to hold a connection, its two dbg_guvs and a name
  of another connection behind or between them. The theorems remove the bound.

`CHECK_DEADLOCK FALSE` is in every configuration whose system may really stop:
a closed connection, a finished file with the bound on `txfile` reached, a
crash.

### Fairness

libevent runs a callback whose event is pending and whose descriptor is ready,
so `WriteCb`, `ReadCb`, `FileReadCb`, `ReceiptCb` and `RetryCb` are weakly fair
where liveness is checked; the peer is taken to go on reading, and the FPGA to go
on executing commands (`DevCommand`). The user is never fair. Neither is
`DevTaken`, the stream taking an injected word: `TransferEnds` holds with a
stream that never takes one because the retries run out. `RoomAgain` and
`AllDispatched` allow the connection to close instead. `FileWriteCb` of `LogFile`
is fair in the same way; `Drains` allows an error, another file or the end of the
manager instead. `FakeGuv`, `Console` and `Session` state no liveness: the
threads and the loop of `fake_dbg_guv.c` may end at any time, and the others wait
for the user.

## Proofs

`TxRing_proofs` proves, for every word size `W`, every ring size that is a
multiple of it and every set of bytes and words (`SizeAssumption`,
`WordsAssumption`; the code has 4 and 512):

* `TypeCorrect`, `NoLostWakeup`, `SplitBranchDead`: `TypeOK`, `ArmedIffPending`
  and `NeverSplits` are invariants;
* `RingIsFifo`: `Spec => ImplementsFifo`.

The inductive invariant is `IInv == TypeOK /\ WriteAligned /\ ArmedIffPending`.
`NeverSplits` is not inductive on its own: a partial write leaves the read
position anywhere, and what saves the code is that the *write* position
(`out_buf_pos + out_buf_len`) stays at a multiple of the word size. It does
because a write moves the two by opposite amounts, because the size is a
multiple too, and because the reset to 0 happens only when the ring is empty.
From that, a word that fits lies inside the buffer (`RoomForWord`), the branch
that splits one is dead, and so is its off-by-one.

The refinement goes over the same invariant: `Stored` lists the stored bytes.
`StoreAppends` shows that storing a word at the write position appends it
(the free part is disjoint from the stored part, `WordApart`), `WriteTakes` that
a write of n bytes leaves the rest, and `StepRefines` maps each action to one of
`ByteFifo` or a stutter.

`LogFile_proofs` proves the same of the log buffer, for every log size `W`, every
buffer of a whole number of logs (`LogFileAssumption`, `LogsAssumption`; the code
has 8 and 512) and any number of logs and files:

* `LogTypeCorrect`, `SavedCountHolds`, `AlwaysAwake`, `LogNeverSplits`: `TypeOK`,
  `SavedCount`, `Awake` and `NeverSplits` are invariants;
* `LogIsFifo`: `Spec => ImplementsFifo`.

Here the inductive invariant is `TypeOK /\ LogAligned /\ SavedCount /\ Awake /\
NoFileYet`. `LogAligned` plays the part of `WriteAligned`; it survives a change of
file because `rxfile` leaves the ring alone. `NoFileYet` (no event before the first
`rxfile`) is there for `SavedCount`: without it a callback could fail before there
is a file and bring the manager into a state where the count is asked about.

`Fio_proofs` is in two parts. For every use of the manager, every command at any
moment, and all sizes (`FioAssumption`), `FioTypeCorrect`, `EventIsArmed` and
`ErrorStays`: `TypeOK` and `ReadEvArmed` are invariants, and `ErrorSticks` holds.
An error sticks because of `ReadEvArmed`: the only callback that would leave
FIO_ERROR is that of a file event nobody asked for. For a transfer that is left to
itself (`Undisturbed`: one file, no `pause`, `cont` or LATCH by the user; a file
that does not open and a change of manager are allowed), `WordsInOrder`,
`DoneMeansAll`, `OneThingUnderway` and `AlwaysRoom`: `InOrder`, `DoneIsAll`,
`OneWaker` and `RoomToRead` are invariants for every length of file, size of
buffer and of words, every way the reads cut the file up and every number of
failed injects. `InOrder`, `DoneIsAll` and `OneWaker` need every part of
`Undisturbed`: TLC finds each violated with a pause, with a LATCH and with a second
file.

The invariant (`IInv`) says that some number k of words has left the buffer: the
buffer holds the bytes that follow (`Buffered`), and the machine, the wire and the
FPGA agree about word k (`Stage`). While the machine waits for a receipt, word k is
in one of four situations (`Underway`): its commands are on the way, it was
refused, it is due to be tried again, it was taken; each has just one event that
can come next, which is `OneWaker`, and in each the FPGA has either k or k - 1
words, which the receipt tells apart. When the transfer is over, no command still
on its way can make the FPGA take a word (`Harmless`): the last word is behind a
TVALID that the end of the file turns off. `AlwaysRoom` needs that the read
position is a whole number of words from the start of the buffer.

`RxStream_proofs` proves, for words and a buffer of any size and any set of
packets that leave room in the buffer for the next word (`RxAssumption`):

* `DispatchedInOrder`, `OneLogKept`: `DispatchInOrder` and `KeepsOneLog` are
  invariants;
* `HeadersOnly`: no word is taken for a header that is not one (`InStep`), before
  the parser slips;
* `RoomIsLeft`: so is `RoomForWord`, also when the parser is out of step.

The inductive invariant (`RInv`) gives each packet its place in the stream (`Laid`:
`off[p]` words are those of the first p packets) and says that the loop has come to
the end of some packet m (`Upto`): what was dispatched is what the first m packets
call for, and, until the parser slips, the buffer holds exactly the words that
follow `off[m]` up to the last one that was read (`Kept`). So the next word is the
header of packet m + 1, and what is kept between two reads is shorter than that
packet (`Short`). A step of the loop is then a case on that header; a read uses
that the bytes read so far are a whole number of words, which is what `torn`
denies. `RoomForWord` is part of the invariant on its own: whatever a word is taken
for, a straggler is shorter than some packet of `Kinds`. `Expected` is a recursive
function; `ExpectedNext` gets its recursion equation from the existence and
uniqueness of such a function, by well-founded induction on sets of numbers.

`FakeGuv_proofs` proves, for any number of inputs and LATCHes, any counts and any
registers written to (`FakeGuvAssumption`), `GuvTypeCorrect`, `HandedOverOnce`,
`LogsAreFramed` and `LogCountHolds`. None of the four is inductive. What they need
besides: a thread that writes still has a true copy of what the loop left
(`Copies`), because the loop overwrites nothing while `vld` is up; what the loop
read under the mutex still holds when it acts on it one or two critical sections
later (`Fresh`), because the threads only ever clear `vld`, and set `val_sent`
only with it; what was handed to the log together with the word still owed is a
sequence of whole pairs (`Framed`), of which the log on the wire is a prefix; and
the counts a LATCH may bring (`Registers`). A log is counted against `log_cnt` when
its second word has been written, so `quota`, which counts it when its input is
taken, differs from `log_cnt` by one exactly while a log is on its way:
`LogCountExact` says that, and the proof of `CheckLogKeeps` goes through the cases.

`InputCopiedOnce` and `InjectedOnce` are about `InputOnce` and `InjectOnce`. What the
code does is stronger than `InjectOnce`: `InjectAll` says that every latched word is
handed on or waits, withdrawn or not. With `Valid` (the registers of an inject hold a
word and a bit) `InputOnce` and `InjectAll` are inductive on top of the invariant above; the selection `Of` of the words of a kind
is taken apart word by word (`OfAppend`), and the numbers of the inputs
that reached the output or the log are increasing because each is the newest when
it gets there (`TakeInputOnce`).

`Console_proofs` proves `TypedIsUnderstood` and `CharactersKeptOnce`:
`MeansWhatWasTyped` and `EachOnce` are invariants for any characters (NUL among
them, which `EachOnce` says cuts off what is kept behind it), any number of them and of
parameters. The decoder goes by one character, the meaning by the whole
input, so the invariant (`TypedInv`) says for each label of the coroutine what the
characters so far look like and how much of their meaning the struct and the
statics already hold (`DecLabels`): after n parameters, `in.params` are the first n
fields of the body and `parsed_num` is the number in the last one (`Parsed`). What a
further digit or semicolon does to the fields is `ParsedDigit` and
`ParsedSemicolon`, over lemmas about the values of a numeral and the places of
semicolons (`NumberAppend`, `SemisAppend`, `FieldsAppend`). There is one lemma per
label (`StartTaken` ... `MouseTaken`): a character either ends the input with its
meaning (`EndTaken`) or keeps the invariant (`MoreTaken`). What an earlier input left
in the struct appears in none of them, which is the point of the theorem.

It also proves `WindowsShowNewest`: `ShowsNewest` is an invariant for every
length of scrollback and every height of a window up to it, any number of lines and
anything that is typed. The inductive invariant says of each window which append
every slot holds (`Holds`: the line `Back` places before the newest);
`AppendHolds` and `ScrollHolds` keep it, `DrawsNewest` reads the picture off it.

`Session_proofs` proves, for any names, connections and dbg_guvs:

* `NothingDangles`: `NoDangling` is an invariant, no entry denotes a freed
  connection or a dbg_guv of one;
* `CallbackFindsItsEntry`: `FindsItsEntry`, a connection that completes finds its
  name as `open` left it;
* `NamesAreUnique`: `symtab_append` never makes a second entry of a name, though it
  does not look;
* `SessionIsDirectory`: `Spec => ImplementsDirectory`.

The table is looked at as the set of its entries: as long as no name is in it twice
(`NoDuplicates`), the search from the front and the removal that moves the last
entry are the operations of a set. The other parts of the inductive invariant say
who owns an entry (`EntriesOwned`) and that the three places that remember a name
agree with the table in the other direction (`PendingListed`, `ConnsListed`,
`GuvsListed`): without these, the cleanup of a connection, which goes by the names
in its dbg_guvs, could miss an entry or take one of somebody else. `FreedAreNew`
says that a connection is not used again.

`Twm_proofs` proves the four invariants and the two action properties of the window
tree, for any dbg_guvs and dummies, stacks of any size and any number of nodes:

* `ShapeKept`, `OnlyChildrenAreLeaves`, `FocusWhileWindows` and `OneWindowPerItem`:
  `TreeShape`, `OnlyChildIsLeaf`, `FocusIffWindows` and `NoTwins` are invariants;
* `MovesLoseNothing` and `ClosingIsExact`: `MovesKeepWindows` and `CloseIsExact`.

They are about `UntilLost`, the program up to the first state whose focus is not in
the tree. That state can be reached (see the bounds of `twm` above), and an operation
that starts from a freed focus may do anything to the tree, so `FocusShown` is a
condition of a step and not something the proof could do without. A window of a freed dbg_guv (`NoStaleWindow`), where the
run's constraint stops too, does no harm to the tree: the theorems go on.

The inductive invariant (`TreeInvariant`, `Safe`) says that there is a set `S` of
nodes and a depth `d` such that the links stay in `S`, point both ways and go
deeper (`Tree`), that no stack of it but the head is empty and no only child is a
stack (`Full`), and that no two windows of it show one item (`Distinct`). The depth
rules out cycles; `S` is then what `Below` finds (`ShownIs`). While an operation is
under way one node may be short of children, or hang from two places, so the lemmas
follow the code: `Detached` cuts a subtree off, `Merged` and `Climbed` are the two
repairs of `twm_remove_node` and `Settles` their combination, `Removes` the whole of
it; `Grafted` and `Inserts` link a subtree in, `MovesAcross` links before it removes,
as `twm_move_node` does, and `Crowned` puts a new root above both halves. Each says
which windows are left (`Showing`), from which the action properties follow.
`LevelIs` says where the climb of the two move operations ends, `Finds` that a search
that finds nothing saw everything. `IterateEnds` shows that `MaxNodes` turns are
enough, as each one sees a node that those before did not. Between the
windows that the cleanup of a connection closes, the focus may be on a node just
merged away (`FocusOK`), which is weaker than what the other operations need and
enough for this one (`ClosesWindows`).

The theorems are about `Spec`, but for those of `Twm`; the runs of `fio`, `logfile`
and `txring` use `FairSpec`, which implies it.

Where a recursive function computes over a sequence (`Of`, `Expected`, the value of
a numeral), the proofs do not use the induction theorems of the library, whose
parameter is an operator, but a set of numbers with a least member (`LeastNat`,
`SetInduction`, from `WFMin`).

The constants are assumed to be what the code makes them: sizes are positive, the
rings whole numbers of words or logs, the packets at most as long as leaves room for
a word. No assumption bounds the counters of the runs (`MaxPackets`, `MaxLines` and
the like are any numbers).

Only model-checked: liveness (`RoomAgain`, `TransferEnds`, `AllDispatched`, `Drains`),
which under fairness is out of the prover's reach.

## Not modelled

* Drawing, formatting, colours and help text: no state that the rest depends on,
  but for the division by the number of children, which `Twm` has.
* The register mirror, except `inj_failed`: it is written from receipts and drawn.
* Memory exhaustion, and what `getaddrinfo` or the terminal do.
* The interactive manager (`got_line_inter`): one register write, which is
  `SendReg` of `TxRing`, and drawing.
* The command parser: a function of one line. What it yields is a nondeterministic
  choice in the other modules.
* The daisy chain of `fake_dbg_guv.c`: the loop overwrites what its thread is to
  send, so nothing a reader would expect of it holds; and the second word of a
  command, as the thread is written, is sent for ever (`fake_dbg_guv.c:157`).
* The resize callback, which runs in the SIGWINCH handler (`textio.c:85`) between
  any two instructions of a tree operation: `Twm` has its operations whole.
* What the events of a manager do after its connection was freed
  (`cleanup_fpga_connection` does not call `cleanup_mgr`): they use freed memory.
