------------------------------ MODULE Session -------------------------------
(***************************************************************************)
(* Connections and their names (src/main.c): the lines open, close and     *)
(* name, the callback of a connection that completes or fails, and the     *)
(* cleanup of a connection that the user closes or the FPGA hangs up.      *)
(* What these do to the windows is module Twm, to what is being sent       *)
(* TxRing; sel only reads the table.                                       *)
(***************************************************************************)
EXTENDS SymTab

CONSTANTS Ids,        \* the names a user types, shorter than MAX_SYM_SIZE
          Conns,      \* addresses new_fpga_connection may return
          NumGuvs,    \* MAX_GUVS_PER_FPGA
          NoName,     \* the name no user types: that of a dbg_guv at first
          NoConn

ASSUME SessionAssumption ==
  /\ NumGuvs \in Nat \ {0}
  /\ NoName \notin Ids /\ NoConn \notin Conns

Guvs == 0 .. NumGuvs - 1

VARIABLES ids,        \* the symbol table
          pending,    \* fpga_conn_cb is to be called with these names
          conns,      \* fci_head: the connections that are open
          f_name,     \* name of a connection
          g_name,     \* name of a dbg_guv
          closing,    \* the connection cleanup_fpga_connection is at
          next_guv    \* its loop counter

vars == <<ids, pending, conns, f_name, g_name, closing, next_guv>>


(* sem_val: what an entry denotes *)
Uninitialized == [is |-> "reserved"]
Fci(f) == [is |-> "fci", conn |-> f]
Dg(f, a) == [is |-> "guv", conn |-> f, addr |-> a]

Init ==
  /\ ids = <<>>
  /\ pending = {} /\ conns = {}
  /\ f_name = [f \in Conns |-> NoName]
  /\ g_name = [f \in Conns |-> [a \in Guvs |-> NoName]]
  /\ closing = NoConn /\ next_guv = 0

Idle == closing = NoConn
Known(n) == symtab_lookup(ids, n) # 0
Denoted(n) == ids[symtab_lookup(ids, n)].dat

-----------------------------------------------------------------------------
(* open: the name is taken first, and stays taken if the address cannot be *)
(* resolved, no socket is to be had or the connection fails at once.       *)
InUse(n) == Known(n)
NeverInUse(n) == FALSE                  \* mutant: the name is not looked up
Taken(n) == InUse(n)

Open(n) ==
  /\ Idle /\ ~Taken(n)
  /\ ids' = symtab_append(ids, n, Uninitialized)
  /\ pending' \in {pending, pending \cup {n}}
  /\ UNCHANGED <<conns, f_name, g_name, closing, next_guv>>

(* fpga_conn_cb looks the name up again, and closes the socket if it is    *)
(* not there.  Otherwise the entry is given the connection, whatever it    *)
(* was before.                                                             *)
ConnFailed(n) ==
  /\ ids' = RemoveSym(ids, n)
  /\ UNCHANGED <<conns, f_name, g_name>>

Connected(n, f) ==
  /\ f \notin conns
  /\ conns' = conns \cup {f}
  /\ ids' = [ids EXCEPT ![symtab_lookup(ids, n)].dat = Fci(f)]
  /\ f_name' = [f_name EXCEPT ![f] = n]
  /\ UNCHANGED g_name

fpga_conn_cb(n) ==
  /\ Idle /\ n \in pending
  /\ pending' = pending \ {n}
  /\ IF Known(n) THEN ConnFailed(n) \/ \E f \in Conns : Connected(n, f)
                 ELSE UNCHANGED <<ids, conns, f_name, g_name>>
  /\ UNCHANGED <<closing, next_guv>>

-----------------------------------------------------------------------------
(* cleanup_fpga_connection, one turn of its loop at a time: nothing else   *)
(* runs until it is done.  What is freed is as good as new.                *)
BeginCleanup(f) ==
  /\ closing' = f /\ next_guv' = 0
  /\ UNCHANGED <<ids, pending, conns, f_name, g_name>>

ReleaseGuv ==
  /\ ~Idle /\ next_guv < NumGuvs
  /\ ids' = RemoveSym(ids, g_name[closing][next_guv])
  /\ next_guv' = next_guv + 1
  /\ UNCHANGED <<pending, conns, f_name, g_name, closing>>

ReleaseConn ==
  /\ ~Idle /\ next_guv = NumGuvs
  /\ ids' = RemoveSym(ids, f_name[closing])
  /\ conns' = conns \ {closing}
  /\ f_name' = [f_name EXCEPT ![closing] = NoName]
  /\ g_name' = [g_name EXCEPT ![closing] = [a \in Guvs |-> NoName]]
  /\ closing' = NoConn /\ next_guv' = 0
  /\ UNCHANGED pending

(* close of a connection's name; of a dbg_guv's, or of one that is not     *)
(* open yet, it only looks for a window to remove, and the name stays      *)
CloseLine(n) ==
  /\ Idle /\ Known(n)
  /\ IF Denoted(n).is = "fci" THEN BeginCleanup(Denoted(n).conn)
                              ELSE UNCHANGED vars

(* Reading or writing fails: the read and write callbacks clean up.  So    *)
(* does main for every connection once the event loop has ended.           *)
HangUp(f) == Idle /\ f \in conns /\ BeginCleanup(f)

-----------------------------------------------------------------------------
(* name: for the dbg_guv in the focused window *)
WithoutOldName(f, a) == RemoveSym(ids, g_name[f][a])
WithOldName(f, a) == ids                \* mutant: the old name is kept
OldNameFreed(f, a) == WithoutOldName(f, a)

NameLine(n, f, a) ==
  /\ Idle /\ f \in conns
  /\ ~Known(n)
  /\ ids' = symtab_append(OldNameFreed(f, a), n, Dg(f, a))
  /\ g_name' = [g_name EXCEPT ![f][a] = n]
  /\ UNCHANGED <<pending, conns, f_name, closing, next_guv>>

Next ==
  \/ \E n \in Ids : Open(n) \/ fpga_conn_cb(n) \/ CloseLine(n)
  \/ \E n \in Ids, f \in Conns, a \in Guvs : NameLine(n, f, a)
  \/ \E f \in Conns : HangUp(f)
  \/ ReleaseGuv \/ ReleaseConn

Spec == Init /\ [][Next]_vars

-----------------------------------------------------------------------------
(* What holds *)
Dats == {Uninitialized} \cup {Fci(f) : f \in Conns}
        \cup {Dg(f, a) : f \in Conns, a \in Guvs}

TypeOK ==
  /\ ids \in Seq([sym : Ids, dat : Dats])
  /\ pending \in SUBSET Ids
  /\ conns \in SUBSET Conns
  /\ f_name \in [Conns -> Ids \cup {NoName}]
  /\ g_name \in [Conns -> [Guvs -> Ids \cup {NoName}]]
  /\ closing \in conns \cup {NoConn}
  /\ next_guv \in 0 .. NumGuvs

(* The table does not refuse a name twice, and yet never has one twice.    *)
NoDuplicates ==
  \A i, j \in DOMAIN ids : ids[i].sym = ids[j].sym => i = j

(* No name denotes a connection that was freed, or a dbg_guv of one: sel,  *)
(* close and name follow the pointer of the entry without a check.         *)
NoDangling ==
  \A i \in DOMAIN ids : ids[i].dat.is # "reserved" => ids[i].dat.conn \in conns

(* When a connection completes, its name is in the table and still as open *)
(* left it: whatever was named or closed meanwhile, the callback does not  *)
(* overwrite another's entry, nor drop its connection.                     *)
FindsItsEntry ==
  \A n \in pending : Known(n) /\ Denoted(n) = Uninitialized

(* The names are the directory of the abstract module; a connection being  *)
(* cleaned up counts as closed.                                            *)
Gone(d) == d.is # "reserved" /\ d.conn = closing
DirOf(n) == IF ~Known(n) \/ Gone(Denoted(n)) THEN [is |-> "free"]
            ELSE Denoted(n)
Dir == INSTANCE Directory WITH dir <- [n \in Ids |-> DirOf(n)],
                               live <- conns \ {closing}
ImplementsDirectory == Dir!Spec
=============================================================================
