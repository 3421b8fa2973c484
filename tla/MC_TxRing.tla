------------------------------ MODULE MC_TxRing -----------------------------
(* A ring of three words of four bytes.  Each byte tells its word and its  *)
(* place in it, so that any reordering, loss or overwrite shows.           *)
EXTENDS TxRing

Word(name) == [i \in 1 .. 4 |-> <<name, i>>]
MCZero == <<"zero", 0>>
MCByte == ({"latch", "reg", "p1", "p2"} \X (1 .. 4)) \cup {MCZero}
MCLatches == {Word("latch")}
MCCmds == {Word("reg")}
MCParams == {Word("p1"), Word("p2")}
=============================================================================
