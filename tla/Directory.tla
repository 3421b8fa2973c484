----------------------------- MODULE Directory ------------------------------
(***************************************************************************)
(* What the names of a session promise (the symbol table ids of            *)
(* src/main.c, as its users open, name and close): a name denotes one      *)
(* thing, from when it is taken until that thing is gone, and a thing is   *)
(* never denoted once the connection it belongs to is closed.              *)
(***************************************************************************)
CONSTANTS Ids,        \* the names a user types
          Conns,      \* FPGA connections
          Guvs        \* the addresses of the dbg_guvs of each

VARIABLES dir,        \* what each name denotes
          live        \* the connections that are open

Free == [is |-> "free"]
Reserved == [is |-> "reserved"]
Conn(f) == [is |-> "fci", conn |-> f]
Guv(f, a) == [is |-> "guv", conn |-> f, addr |-> a]
Things == {Conn(f) : f \in Conns} \cup {Guv(f, a) : f \in Conns, a \in Guvs}
Meanings == {Free, Reserved} \cup Things

Init == dir = [n \in Ids |-> Free] /\ live = {}

(* A name is taken for a connection that is being opened... *)
Reserve(n) ==
  /\ dir[n] = Free
  /\ dir' = [dir EXCEPT ![n] = Reserved]
  /\ UNCHANGED live

(* ...and denotes it once it is open, or is free again if it does not open *)
Bind(n, f) ==
  /\ dir[n] = Reserved /\ f \notin live
  /\ dir' = [dir EXCEPT ![n] = Conn(f)]
  /\ live' = live \cup {f}

Cancel(n) ==
  /\ dir[n] = Reserved
  /\ dir' = [dir EXCEPT ![n] = Free]
  /\ UNCHANGED live

(* A dbg_guv has one name: a new one frees the old *)
Name(n, f, a) ==
  /\ dir[n] = Free /\ f \in live
  /\ dir' = [m \in Ids |-> IF m = n THEN Guv(f, a)
                           ELSE IF dir[m] = Guv(f, a) THEN Free ELSE dir[m]]
  /\ UNCHANGED live

(* A connection is closed with every name of it and of its dbg_guvs *)
Of(f) == {Conn(f)} \cup {Guv(f, a) : a \in Guvs}
Close(f) ==
  /\ f \in live
  /\ dir' = [m \in Ids |-> IF dir[m] \in Of(f) THEN Free ELSE dir[m]]
  /\ live' = live \ {f}

Next ==
  \/ \E n \in Ids : Reserve(n) \/ Cancel(n)
  \/ \E n \in Ids, f \in Conns : Bind(n, f) \/ \E a \in Guvs : Name(n, f, a)
  \/ \E f \in Conns : Close(f)

Spec == Init /\ [][Next]_<<dir, live>>
=============================================================================
