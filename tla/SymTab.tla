------------------------------- MODULE SymTab -------------------------------
(***************************************************************************)
(* The symbol table (src/symtab.c): an array searched from the front, to   *)
(* which entries are appended and out of which an entry is taken by        *)
(* putting the last one in its place.  It does not refuse a name it has.   *)
(* The array grows as needed; an index counts from 1, 0 is NULL.           *)
(***************************************************************************)
EXTENDS Integers, Sequences

symtab_append(tab, sym, dat) == Append(tab, [sym |-> sym, dat |-> dat])

(* The first entry under sym *)
Under(tab, sym) == {i \in DOMAIN tab : tab[i].sym = sym}
symtab_lookup(tab, sym) ==
  IF Under(tab, sym) = {} THEN 0
  ELSE CHOOSE i \in Under(tab, sym) : \A j \in Under(tab, sym) : i <= j

RemoveForgetsLast(tab, ind) ==               \* mutant: the last is not moved
  [i \in 1 .. Len(tab) - 1 |-> tab[i]]
symtab_remove_at_index(tab, ind) ==
  [i \in 1 .. Len(tab) - 1 |-> IF i = ind THEN tab[Len(tab)] ELSE tab[i]]

(* The lookup and symtab_array_remove of its callers *)
RemoveSym(tab, sym) ==
  LET e == symtab_lookup(tab, sym)
  IN IF e = 0 THEN tab ELSE symtab_remove_at_index(tab, e)
=============================================================================
