------------------------------- MODULE MC_Twm -------------------------------
(* One FPGA with two dbg_guvs, the message window and perhaps a dummy.     *)
EXTENDS Twm

MCGuvs == <<"g1", "g2">>
OneDummy == {"d"}

(* Addresses do not matter: states that differ only in the numbers of the  *)
(* nodes are one.  Nodes are renumbered in the order a walk from the head  *)
(* and the focus meets them.                                               *)
Around(n) == Kids(tree, n) \o <<Parent(tree, n)>>

RECURSIVE Walk(_, _)
Walk(todo, done) ==
  IF todo = << >> THEN done
  ELSE IF todo[1] = Null \/ todo[1] \in ToSet(done) THEN Walk(Tail(todo), done)
  ELSE Walk(Around(todo[1]) \o Tail(todo), Append(done, todo[1]))

View ==
  LET order == Walk(<<tree.head, tree.focus>>, << >>)
      At(n) == IF n = Null THEN 0 ELSE CHOOSE i \in DOMAIN order : order[i] = n
      Renamed(n) == <<Type(tree, n), tree.heap[n].item, At(Parent(tree, n)),
                      [i \in DOMAIN Kids(tree, n) |-> At(Kids(tree, n)[i])]>>
  IN  <<[i \in DOMAIN order |-> Renamed(order[i])], At(tree.head), At(tree.focus),
        IF Running THEN "SUCC" ELSE tree.err>>
=============================================================================
