--------------------------- MODULE Session_proofs ---------------------------
(***************************************************************************)
(* Proofs about the symbol table and the session.  The table is looked at  *)
(* as the set of its entries; that no name is in it twice makes the search *)
(* from the front, and the removal that moves the last entry, the          *)
(* operations of a set.                                                    *)
(***************************************************************************)
EXTENDS Session, TLAPS

Entry == [sym : Ids, dat : Dats]
Entries(tab) == {tab[i] : i \in DOMAIN tab}
Distinct(tab) == \A i, j \in DOMAIN tab : tab[i].sym = tab[j].sym => i = j

(***************************************************************************)
(* The table                                                               *)
(***************************************************************************)

(* Lookup finds the entry of a name, and nothing exactly if there is none. *)
LEMMA LookupIndex ==
  ASSUME NEW tab \in Seq(Entry), Distinct(tab), NEW s
  PROVE  LET e == symtab_lookup(tab, s)
         IN /\ e = 0 <=> \A x \in Entries(tab) : x.sym # s
            /\ e # 0 => e \in DOMAIN tab /\ tab[e].sym = s
<1>1. CASE Under(tab, s) = {}
  BY <1>1 DEF symtab_lookup, Under, Entries
<1>2. CASE Under(tab, s) # {}
  <2>1. PICK i \in DOMAIN tab : tab[i].sym = s
    BY <1>2 DEF Under
  <2>2. \A j \in Under(tab, s) : j = i
    BY <2>1 DEF Under, Distinct
  <2>3. i \in 1 .. Len(tab)
    BY <2>1
  <2>4. i \in Under(tab, s) /\ \A j \in Under(tab, s) : i <= j
    BY <2>1, <2>2, <2>3 DEF Under
  <2>5. symtab_lookup(tab, s) = i
    BY <1>2, <2>2, <2>4 DEF symtab_lookup
  <2>. QED  BY <2>1, <2>3, <2>5 DEF Entries
<1>. QED  BY <1>1, <1>2

(* An entry is what the lookup of its name finds. *)
LEMMA LookupFinds ==
  ASSUME NEW tab \in Seq(Entry), Distinct(tab), NEW x \in Entries(tab)
  PROVE  /\ symtab_lookup(tab, x.sym) \in DOMAIN tab
         /\ symtab_lookup(tab, x.sym) # 0
         /\ tab[symtab_lookup(tab, x.sym)] = x
<1>1. symtab_lookup(tab, x.sym) # 0
  BY LookupIndex
<1>2. /\ symtab_lookup(tab, x.sym) \in DOMAIN tab
      /\ tab[symtab_lookup(tab, x.sym)].sym = x.sym
  BY <1>1, LookupIndex
<1>3. PICK i \in DOMAIN tab : tab[i] = x
  BY DEF Entries
<1>. QED  BY <1>1, <1>2, <1>3 DEF Distinct

LEMMA AppendEntries ==
  ASSUME NEW tab \in Seq(Entry), Distinct(tab), NEW s \in Ids, NEW d \in Dats,
         \A x \in Entries(tab) : x.sym # s
  PROVE  LET new == symtab_append(tab, s, d)
         IN /\ new \in Seq(Entry)
            /\ Distinct(new)
            /\ Entries(new) = Entries(tab) \cup {[sym |-> s, dat |-> d]}
<1>. DEFINE e == [sym |-> s, dat |-> d]
            new == symtab_append(tab, s, d)
<1>1. e \in Entry
  BY DEF Entry
<1>2. /\ new \in Seq(Entry) /\ DOMAIN new = 1 .. Len(tab) + 1
      /\ \A i \in DOMAIN tab : new[i] = tab[i]
      /\ new[Len(tab) + 1] = e
      /\ DOMAIN tab = 1 .. Len(tab)
  BY <1>1 DEF symtab_append
<1>3. Entries(new) = Entries(tab) \cup {e}
  BY <1>2 DEF Entries
<1>4. Distinct(new)
  BY <1>2 DEF Distinct, Entries
<1>. QED  BY <1>2, <1>3, <1>4

(* Taking an entry out and moving the last one removes that entry only. *)
LEMMA RemoveEntries ==
  ASSUME NEW tab \in Seq(Entry), Distinct(tab), NEW k \in DOMAIN tab
  PROVE  LET new == symtab_remove_at_index(tab, k)
         IN /\ new \in Seq(Entry)
            /\ Distinct(new)
            /\ Entries(new) = Entries(tab) \ {tab[k]}
<1>. DEFINE n == Len(tab)
            new == symtab_remove_at_index(tab, k)
<1>1. /\ n \in Nat /\ DOMAIN tab = 1 .. n /\ k \in 1 .. n
      /\ \A i \in 1 .. n : tab[i] \in Entry
  OBVIOUS
<1>2. /\ new = [i \in 1 .. n - 1 |-> IF i = k THEN tab[n] ELSE tab[i]]
      /\ n - 1 \in Nat
  BY <1>1 DEF symtab_remove_at_index
<1>3. new \in Seq(Entry) /\ DOMAIN new = 1 .. n - 1
  BY <1>1, <1>2
<1>4. \A i \in 1 .. n - 1 : new[i] = IF i = k THEN tab[n] ELSE tab[i]
  BY <1>2
<1>5. Distinct(new)
  BY <1>1, <1>3, <1>4 DEF Distinct
<1>6. ASSUME NEW x \in Entries(new)  PROVE x \in Entries(tab) \ {tab[k]}
  BY <1>1, <1>3, <1>4 DEF Distinct, Entries
<1>7. ASSUME NEW x \in Entries(tab), x # tab[k]  PROVE x \in Entries(new)
  <2>1. PICK i \in 1 .. n : x = tab[i]
    BY <1>1 DEF Entries
  <2>2. CASE i = n
    <3>1. k \in 1 .. n - 1 /\ new[k] = x
      BY <1>1, <1>4, <1>7, <2>1, <2>2
    <3>. QED  BY <3>1, <1>3 DEF Entries
  <2>3. CASE i # n
    <3>0. i # k
      BY <1>7, <2>1
    <3>1. i # k /\ i \in 1 .. n - 1
      <4>. HIDE DEF n
      <4>. QED  BY <1>1, <2>3, <3>0
    <3>2. new[i] = x
      BY <1>4, <2>1, <3>1
    <3>. QED  BY <1>3, <3>1, <3>2 DEF Entries
  <2>. QED  BY <2>2, <2>3
<1>. QED  BY <1>3, <1>5, <1>6, <1>7

(* What its callers do: the entry of a name, if there is one, is gone. *)
LEMMA RemoveSymEntries ==
  ASSUME NEW tab \in Seq(Entry), Distinct(tab), NEW s
  PROVE  /\ RemoveSym(tab, s) \in Seq(Entry)
         /\ Distinct(RemoveSym(tab, s))
         /\ Entries(RemoveSym(tab, s)) = {x \in Entries(tab) : x.sym # s}
<1>. DEFINE e == symtab_lookup(tab, s)
<1>1. CASE e = 0
  BY <1>1, LookupIndex DEF RemoveSym
<1>2. CASE e # 0
  <2>1. e \in DOMAIN tab /\ tab[e].sym = s
    BY <1>2, LookupIndex
  <2>2. RemoveSym(tab, s) = symtab_remove_at_index(tab, e)
    BY <1>2 DEF RemoveSym
  <2>3. \A x \in Entries(tab) : x.sym = s => x = tab[e]
    BY <2>1 DEF Distinct, Entries
  <2>. HIDE DEF e
  <2>. QED  BY <2>1, <2>2, <2>3, RemoveEntries
<1>. QED  BY <1>1, <1>2

(***************************************************************************)
(* The session                                                             *)
(***************************************************************************)

(* Names and things point at each other: the connection or dbg_guv of an   *)
(* entry has the entry's name, the name of a connection or dbg_guv, if it  *)
(* has one, is in the table with it, and a name waiting for its connection *)
(* is there as open left it.  Of a connection being cleaned up, the        *)
(* dbg_guvs the loop has passed are no longer there.                       *)
Passed(f, a) == f = closing /\ a < next_guv
EntriesOwned ==
  \A x \in Entries(ids) :
    /\ x.dat.is = "fci" => /\ x.dat.conn \in conns
                           /\ f_name[x.dat.conn] = x.sym
    /\ x.dat.is = "guv" => /\ x.dat.conn \in conns
                           /\ g_name[x.dat.conn][x.dat.addr] = x.sym
                           /\ ~Passed(x.dat.conn, x.dat.addr)
PendingListed ==
  \A n \in pending : [sym |-> n, dat |-> Uninitialized] \in Entries(ids)
ConnsListed ==
  \A f \in conns : [sym |-> f_name[f], dat |-> Fci(f)] \in Entries(ids)
GuvsListed ==
  \A f \in conns, a \in Guvs : g_name[f][a] # NoName /\ ~Passed(f, a)
    => [sym |-> g_name[f][a], dat |-> Dg(f, a)] \in Entries(ids)
FreedAreNew ==
  \A f \in Conns \ conns : g_name[f] = [a \in Guvs |-> NoName]

IInv == /\ TypeOK /\ NoDuplicates
        /\ EntriesOwned /\ PendingListed /\ ConnsListed /\ GuvsListed
        /\ FreedAreNew

(* What the values of an entry are told apart by *)
LEMMA DatKinds ==
  /\ Uninitialized \in Dats /\ Uninitialized.is = "reserved"
  /\ \A f \in Conns : /\ Fci(f) \in Dats /\ Fci(f).is = "fci"
                      /\ Fci(f).conn = f
  /\ \A f \in Conns, a \in Guvs : /\ Dg(f, a) \in Dats /\ Dg(f, a).is = "guv"
                                  /\ Dg(f, a).conn = f /\ Dg(f, a).addr = a
  /\ \A d \in Dats : \/ d = Uninitialized
                     \/ \E f \in Conns : d = Fci(f)
                     \/ \E f \in Conns, a \in Guvs : d = Dg(f, a)
<1>1. Uninitialized.is = "reserved"
  BY DEF Uninitialized
<1>2. \A f : Fci(f).is = "fci" /\ Fci(f).conn = f
  BY DEF Fci
<1>3. \A f, a : Dg(f, a).is = "guv" /\ Dg(f, a).conn = f /\ Dg(f, a).addr = a
  BY DEF Dg
<1>4. \A d : d \in Dats <=> \/ d = Uninitialized
                            \/ \E f \in Conns : d = Fci(f)
                            \/ \E f \in Conns, a \in Guvs : d = Dg(f, a)
  BY DEF Dats
<1>. QED  BY <1>1, <1>2, <1>3, <1>4

LEMMA EntriesInEntry ==
  ASSUME TypeOK  PROVE  /\ ids \in Seq(Entry)
                        /\ \A x \in Entries(ids) : x.sym \in Ids /\ x.dat \in Dats
                                    /\ x = [sym |-> x.sym, dat |-> x.dat]
<1>1. ids \in Seq(Entry)
  BY DEF TypeOK, Entry
<1>2. \A x \in Entries(ids) : x \in Entry
  BY <1>1 DEF Entries
<1>. QED  BY <1>1, <1>2 DEF Entry

LEMMA NotKnown ==
  ASSUME TypeOK, NoDuplicates, NEW n, ~Known(n)
  PROVE  \A x \in Entries(ids) : x.sym # n
BY EntriesInEntry, LookupIndex DEF Known, NoDuplicates, Distinct

LEMMA InitInv == ASSUME Init PROVE IInv
<1>1. TypeOK
  BY SessionAssumption DEF Init, TypeOK, Guvs
<1>2. Entries(ids) = {} /\ NoDuplicates
  BY DEF Init, Entries, NoDuplicates
<1>. QED
  BY <1>1, <1>2 DEF Init, IInv, EntriesOwned, PendingListed, ConnsListed,
                    GuvsListed, FreedAreNew

LEMMA OpenInv ==
  ASSUME IInv, NEW n \in Ids, Open(n)  PROVE IInv'
<1>. DEFINE e == [sym |-> n, dat |-> Uninitialized]
<1>1. TypeOK /\ NoDuplicates /\ ids \in Seq(Entry) /\ Distinct(ids)
  BY EntriesInEntry DEF IInv, NoDuplicates, Distinct
<1>2. \A x \in Entries(ids) : x.sym # n
  BY <1>1, NotKnown DEF Open, Taken, InUse
<1>3. /\ ids' \in Seq(Entry) /\ Distinct(ids')
      /\ Entries(ids') = Entries(ids) \cup {e}
  BY <1>1, <1>2, AppendEntries, DatKinds DEF Open
<1>4. TypeOK' /\ NoDuplicates'
  BY <1>1, <1>3 DEF Open, TypeOK, NoDuplicates, Distinct, Entry
<1>5. e.dat.is = "reserved"
  BY DatKinds
<1>6. EntriesOwned'
  BY <1>3, <1>5 DEF IInv, EntriesOwned, Open, Passed
<1>7. PendingListed'
  BY <1>3 DEF IInv, PendingListed, Open
<1>8. ConnsListed' /\ GuvsListed' /\ FreedAreNew'
  BY <1>3 DEF IInv, ConnsListed, GuvsListed, FreedAreNew, Open, Passed
<1>. QED  BY <1>4, <1>6, <1>7, <1>8 DEF IInv

LEMMA ConnFailedInv ==
  ASSUME IInv, NEW n \in Ids, fpga_conn_cb(n), ConnFailed(n)  PROVE IInv'
<1>1. TypeOK /\ NoDuplicates /\ ids \in Seq(Entry) /\ Distinct(ids)
  BY EntriesInEntry DEF IInv, NoDuplicates, Distinct
<1>2. /\ ids' \in Seq(Entry) /\ Distinct(ids')
      /\ Entries(ids') = {x \in Entries(ids) : x.sym # n}
  BY <1>1, RemoveSymEntries DEF ConnFailed
<1>3. UNCHANGED <<conns, f_name, g_name, closing, next_guv>> /\ n \in pending
      /\ pending' = pending \ {n}
  BY DEF fpga_conn_cb, ConnFailed
<1>4. TypeOK' /\ NoDuplicates'
  BY <1>1, <1>2, <1>3 DEF TypeOK, NoDuplicates, Distinct, Entry
<1>5. EntriesOwned' /\ FreedAreNew'
  BY <1>2, <1>3 DEF IInv, EntriesOwned, Passed, FreedAreNew
<1>6. PendingListed'
  BY <1>2, <1>3 DEF IInv, PendingListed
<1>7. \A x \in Entries(ids) : x.dat # Uninitialized => x \in Entries(ids')
  <2>1. [sym |-> n, dat |-> Uninitialized] \in Entries(ids)
    BY <1>3 DEF IInv, PendingListed
  <2>2. \A x, y \in Entries(ids) : x.sym = y.sym => x = y
    BY <1>1 DEF Distinct, Entries
  <2>. QED  BY <1>2, <2>1, <2>2
<1>8. ConnsListed' /\ GuvsListed'
  <2>1. \A f \in Conns : Fci(f) # Uninitialized
                         /\ \A a \in Guvs : Dg(f, a) # Uninitialized
    BY DatKinds
  <2>2. conns \subseteq Conns
    BY <1>1 DEF TypeOK
  <2>. QED
    BY <1>3, <1>7, <2>1, <2>2 DEF IInv, ConnsListed, GuvsListed, Passed
<1>. QED  BY <1>4, <1>5, <1>6, <1>8 DEF IInv

LEMMA ConnectedInv ==
  ASSUME IInv, NEW n \in Ids, fpga_conn_cb(n), Known(n),
         NEW f \in Conns, Connected(n, f)
  PROVE  IInv'
<1>. DEFINE old == [sym |-> n, dat |-> Uninitialized]
            new == [sym |-> n, dat |-> Fci(f)]
            e == symtab_lookup(ids, n)
<1>1. TypeOK /\ NoDuplicates /\ ids \in Seq(Entry) /\ Distinct(ids)
  BY EntriesInEntry DEF IInv, NoDuplicates, Distinct
<1>2. /\ UNCHANGED <<g_name, closing, next_guv>> /\ n \in pending
      /\ pending' = pending \ {n} /\ closing = NoConn
      /\ f \notin conns /\ conns' = conns \cup {f}
      /\ f_name' = [f_name EXCEPT ![f] = n]
  BY DEF fpga_conn_cb, Connected, Idle
<1>3. old \in Entries(ids)
  BY <1>2 DEF IInv, PendingListed
<1>4. e \in DOMAIN ids /\ ids[e] = old
  BY <1>1, <1>3, LookupFinds
<1>5. ids' = [ids EXCEPT ![e].dat = Fci(f)]
  BY DEF Connected
<1>. HIDE DEF e
<1>6. DOMAIN ids' = DOMAIN ids /\ ids'[e] = new
      /\ \A i \in DOMAIN ids : i # e => ids'[i] = ids[i]
  BY <1>1, <1>4, <1>5
<1>7. new \in Entry
  BY DatKinds DEF Entry
<1>8. ids' \in Seq(Entry)
  BY <1>1, <1>4, <1>5, <1>6, <1>7
<1>9. Distinct(ids')
  BY <1>1, <1>4, <1>6 DEF Distinct
<1>10. \A x \in Entries(ids) : x.sym = n => x = old
  BY <1>1, <1>4 DEF Distinct, Entries
<1>11. \A x : x \in Entries(ids') <=> x = new \/ (x \in Entries(ids) /\ x # old)
  <2>1. ASSUME NEW i \in DOMAIN ids, i # e  PROVE ids[i] # old
    BY <1>1, <1>4, <2>1 DEF Distinct
  <2>. QED  BY <1>4, <1>6, <2>1 DEF Entries
<1>12. conns \subseteq Conns /\ f_name \in [Conns -> Ids \cup {NoName}]
  BY <1>1 DEF TypeOK
<1>13. TypeOK' /\ NoDuplicates'
  <2>1. conns' \in SUBSET Conns /\ pending' \in SUBSET Ids /\ closing' \in conns' \cup {NoConn}
    BY <1>1, <1>2 DEF TypeOK
  <2>. QED
    BY <1>1, <1>2, <1>8, <1>9, <2>1 DEF TypeOK, NoDuplicates, Distinct, Entry
<1>14. /\ new.dat.is = "fci" /\ new.dat.conn = f /\ new.sym = n
       /\ \A g \in Conns, a \in Guvs : Dg(g, a) # Uninitialized
       /\ \A g \in Conns : Fci(g) # Uninitialized
  BY DatKinds
<1>15. f_name'[f] = n /\ \A g \in conns : f_name'[g] = f_name[g] /\ g # f
  BY <1>2, <1>12
<1>. HIDE DEF new
<1>16. EntriesOwned'
  BY <1>2, <1>11, <1>14, <1>15 DEF IInv, EntriesOwned, Passed
<1>17. PendingListed'
  BY <1>2, <1>11 DEF IInv, PendingListed
<1>18. ConnsListed'
  BY <1>2, <1>11, <1>12, <1>14, <1>15 DEF IInv, ConnsListed, new
<1>19. FreedAreNew' /\ \A a \in Guvs : g_name[f][a] = NoName
  BY <1>2 DEF IInv, FreedAreNew
<1>20. GuvsListed'
  BY <1>2, <1>11, <1>12, <1>14, <1>19 DEF IInv, GuvsListed, Passed
<1>. QED  BY <1>13, <1>16, <1>17, <1>18, <1>19, <1>20 DEF IInv

LEMMA ReleaseGuvInv ==
  ASSUME IInv, ReleaseGuv  PROVE IInv'
<1>. DEFINE s == g_name[closing][next_guv]
<1>1. TypeOK /\ NoDuplicates /\ ids \in Seq(Entry) /\ Distinct(ids)
  BY EntriesInEntry DEF IInv, NoDuplicates, Distinct
<1>2. /\ ids' \in Seq(Entry) /\ Distinct(ids')
      /\ Entries(ids') = {x \in Entries(ids) : x.sym # s}
  BY <1>1, RemoveSymEntries DEF ReleaseGuv
<1>3. /\ UNCHANGED <<pending, conns, f_name, g_name, closing>>
      /\ next_guv' = next_guv + 1 /\ next_guv \in Guvs /\ NumGuvs \in Nat
      /\ closing \in conns /\ conns \subseteq Conns
  BY <1>1, SessionAssumption DEF ReleaseGuv, TypeOK, Guvs, Idle
<1>4. TypeOK' /\ NoDuplicates'
  <2>1. next_guv' \in 0 .. NumGuvs
    BY <1>3 DEF Guvs
  <2>. QED  BY <1>1, <1>2, <1>3, <2>1 DEF TypeOK, NoDuplicates, Distinct, Entry
<1>5. \A x, y \in Entries(ids) : x.sym = y.sym => x = y
  BY <1>1 DEF Distinct, Entries
<1>6. s # NoName => [sym |-> s, dat |-> Dg(closing, next_guv)] \in Entries(ids)
  BY <1>3 DEF IInv, GuvsListed, Passed, Guvs
<1>7. \A x \in Entries(ids) : x.sym # NoName
  BY <1>1, EntriesInEntry, SessionAssumption
<1>8. \A x \in Entries(ids) : x.dat # Dg(closing, next_guv) => x \in Entries(ids')
  BY <1>2, <1>5, <1>6, <1>7
<1>9. /\ \A f \in Conns : Fci(f) # Dg(closing, next_guv)
      /\ Uninitialized # Dg(closing, next_guv)
      /\ \A f \in Conns, a \in Guvs : Dg(f, a) = Dg(closing, next_guv)
           => f = closing /\ a = next_guv
  BY <1>3, DatKinds
<1>. HIDE DEF s
<1>10. \A f, a : a \in Guvs => (Passed(f, a)' <=> Passed(f, a) \/ (f = closing /\ a = next_guv))
  BY <1>3 DEF Passed, Guvs
<1>11. EntriesOwned'
  <2>1. ASSUME NEW x \in Entries(ids'), x.dat.is = "guv"
        PROVE  ~(x.dat.conn = closing /\ x.dat.addr = next_guv) /\ x.dat.addr \in Guvs
    <3>1. x \in Entries(ids) /\ x.sym # s
      BY <1>2
    <3>2. x.dat \in Dats /\ g_name[x.dat.conn][x.dat.addr] = x.sym
      BY <1>1, <2>1, <3>1, EntriesInEntry DEF IInv, EntriesOwned
    <3>. QED  BY <2>1, <3>1, <3>2, DatKinds DEF s
  <2>. QED  BY <1>2, <1>3, <1>10, <2>1 DEF IInv, EntriesOwned
<1>12. PendingListed'
  BY <1>3, <1>8, <1>9 DEF IInv, PendingListed
<1>13. ConnsListed'
  BY <1>3, <1>8, <1>9 DEF IInv, ConnsListed
<1>14. GuvsListed'
  BY <1>3, <1>8, <1>9, <1>10 DEF IInv, GuvsListed
<1>15. FreedAreNew'
  BY <1>3 DEF IInv, FreedAreNew
<1>. QED  BY <1>4, <1>11, <1>12, <1>13, <1>14, <1>15 DEF IInv

LEMMA ReleaseConnInv ==
  ASSUME IInv, ReleaseConn  PROVE IInv'
<1>. DEFINE s == f_name[closing]
<1>1. TypeOK /\ NoDuplicates /\ ids \in Seq(Entry) /\ Distinct(ids)
  BY EntriesInEntry DEF IInv, NoDuplicates, Distinct
<1>2. /\ ids' \in Seq(Entry) /\ Distinct(ids')
      /\ Entries(ids') = {x \in Entries(ids) : x.sym # s}
  BY <1>1, RemoveSymEntries DEF ReleaseConn
<1>3. /\ pending' = pending /\ conns' = conns \ {closing}
      /\ closing' = NoConn /\ next_guv' = 0 /\ next_guv = NumGuvs
      /\ f_name' = [f_name EXCEPT ![closing] = NoName]
      /\ g_name' = [g_name EXCEPT ![closing] = [a \in Guvs |-> NoName]]
      /\ closing \in conns /\ conns \subseteq Conns /\ NumGuvs \in Nat
      /\ f_name \in [Conns -> Ids \cup {NoName}]
      /\ g_name \in [Conns -> [Guvs -> Ids \cup {NoName}]]
  BY <1>1, SessionAssumption DEF ReleaseConn, TypeOK, Idle
<1>4. TypeOK' /\ NoDuplicates'
  BY <1>1, <1>2, <1>3 DEF TypeOK, NoDuplicates, Distinct, Entry
<1>5. \A x, y \in Entries(ids) : x.sym = y.sym => x = y
  BY <1>1 DEF Distinct, Entries
<1>6. [sym |-> s, dat |-> Fci(closing)] \in Entries(ids)
  BY <1>3 DEF IInv, ConnsListed
<1>7. \A x \in Entries(ids) : x.dat # Fci(closing) => x \in Entries(ids')
  BY <1>2, <1>5, <1>6
<1>8. /\ \A f \in Conns : Fci(f) = Fci(closing) => f = closing
      /\ Uninitialized # Fci(closing)
      /\ \A f \in Conns, a \in Guvs : Dg(f, a) # Fci(closing)
  BY <1>3, DatKinds
<1>. HIDE DEF s
<1>9. \A f \in conns' : /\ f # closing /\ f \in conns /\ f \in Conns
                        /\ f_name'[f] = f_name[f] /\ g_name'[f] = g_name[f]
  BY <1>3
<1>10. EntriesOwned'
  <2>1. ASSUME NEW x \in Entries(ids'), x.dat.is \in {"fci", "guv"}
        PROVE  x.dat.conn \in conns'
    <3>1. x \in Entries(ids) /\ x.sym # s /\ x.dat \in Dats
      BY <1>1, <1>2, EntriesInEntry
    <3>2. CASE x.dat.is = "fci"
      BY <1>3, <3>1, <3>2 DEF IInv, EntriesOwned, s
    <3>3. CASE x.dat.is = "guv"
      <4>1. x.dat.addr \in Guvs
        BY <3>1, <3>3, DatKinds
      <4>2. x.dat.conn # closing
        BY <1>3, <3>1, <3>3, <4>1 DEF IInv, EntriesOwned, Passed, Guvs
      <4>. QED  BY <1>3, <3>1, <3>3, <4>2 DEF IInv, EntriesOwned
    <3>. QED  BY <2>1, <3>2, <3>3
  <2>2. NoConn \notin conns'
    BY <1>3, SessionAssumption
  <2>. QED  BY <1>2, <1>3, <1>9, <2>1, <2>2 DEF IInv, EntriesOwned, Passed
<1>11. PendingListed'
  BY <1>3, <1>7, <1>8 DEF IInv, PendingListed
<1>12. ConnsListed'
  BY <1>7, <1>8, <1>9 DEF IInv, ConnsListed
<1>13. GuvsListed'
  BY <1>7, <1>8, <1>9 DEF IInv, GuvsListed, Passed
<1>14. FreedAreNew'
  BY <1>3 DEF IInv, FreedAreNew
<1>. QED  BY <1>4, <1>10, <1>11, <1>12, <1>13, <1>14 DEF IInv

LEMMA BeginCleanupInv ==
  ASSUME IInv, NEW f \in conns, Idle, BeginCleanup(f)  PROVE IInv'
<1>1. /\ UNCHANGED <<ids, pending, conns, f_name, g_name>>
      /\ closing' = f /\ next_guv' = 0
  BY DEF BeginCleanup
<1>2. TypeOK' /\ NoDuplicates'
  BY <1>1, SessionAssumption DEF IInv, TypeOK, NoDuplicates
<1>3. \A x \in Entries(ids) : x.dat.is = "guv" => x.dat.addr \in Guvs
  BY EntriesInEntry, DatKinds DEF IInv
<1>4. \A g \in Conns, a \in Guvs : ~Passed(g, a)' /\ ~Passed(g, a)
  BY <1>1, SessionAssumption DEF Passed, Guvs, Idle
<1>5. EntriesOwned'
  BY <1>1, <1>3, <1>4 DEF IInv, EntriesOwned, TypeOK
<1>6. PendingListed' /\ ConnsListed' /\ FreedAreNew'
  BY <1>1 DEF IInv, PendingListed, ConnsListed, FreedAreNew
<1>7. GuvsListed'
  BY <1>1, <1>4 DEF IInv, GuvsListed, TypeOK
<1>. QED  BY <1>2, <1>5, <1>6, <1>7 DEF IInv

(* close follows the pointer of an entry: it points at an open connection. *)
LEMMA CloseLineInv ==
  ASSUME IInv, NEW n \in Ids, CloseLine(n)  PROVE IInv'
<1>1. TypeOK /\ NoDuplicates /\ ids \in Seq(Entry) /\ Distinct(ids)
  BY EntriesInEntry DEF IInv, NoDuplicates, Distinct
<1>2. CASE Denoted(n).is = "fci" /\ BeginCleanup(Denoted(n).conn)
  <2>1. symtab_lookup(ids, n) \in DOMAIN ids
    BY <1>1, LookupIndex DEF CloseLine, Known
  <2>2. Denoted(n).conn \in conns
    BY <1>2, <2>1 DEF IInv, EntriesOwned, Entries, Denoted
  <2>. QED  BY <1>2, <2>2, BeginCleanupInv DEF CloseLine
<1>3. CASE UNCHANGED vars
  BY <1>3 DEF vars, IInv, TypeOK, NoDuplicates, EntriesOwned, PendingListed,
              ConnsListed, GuvsListed, FreedAreNew, Passed
<1>. QED  BY <1>2, <1>3 DEF CloseLine

LEMMA NameLineInv ==
  ASSUME IInv, NEW n \in Ids, NEW f \in Conns, NEW a \in Guvs, NameLine(n, f, a)
  PROVE  IInv'
<1>. DEFINE old == g_name[f][a]
            mid == RemoveSym(ids, old)
            new == [sym |-> n, dat |-> Dg(f, a)]
<1>1. TypeOK /\ NoDuplicates /\ ids \in Seq(Entry) /\ Distinct(ids)
  BY EntriesInEntry DEF IInv, NoDuplicates, Distinct
<1>2. /\ UNCHANGED <<pending, conns, f_name, closing, next_guv>>
      /\ closing = NoConn /\ f \in conns /\ ~Known(n)
      /\ g_name' = [g_name EXCEPT ![f][a] = n]
      /\ ids' = symtab_append(mid, n, Dg(f, a))
  BY DEF NameLine, Idle, OldNameFreed, WithoutOldName
<1>3. /\ mid \in Seq(Entry) /\ Distinct(mid)
      /\ Entries(mid) = {x \in Entries(ids) : x.sym # old}
  BY <1>1, RemoveSymEntries
<1>4. \A x \in Entries(ids) : x.sym # n
  BY <1>1, <1>2, NotKnown
<1>5. Dg(f, a) \in Dats
  BY DatKinds
<1>. HIDE DEF mid
<1>6. /\ ids' \in Seq(Entry) /\ Distinct(ids')
      /\ Entries(ids') = Entries(mid) \cup {new}
  BY <1>2, <1>3, <1>4, <1>5, AppendEntries
<1>7. \A x : x \in Entries(ids') <=> x = new \/ (x \in Entries(ids) /\ x.sym # old)
  BY <1>3, <1>6
<1>8. /\ g_name \in [Conns -> [Guvs -> Ids \cup {NoName}]]
      /\ conns \subseteq Conns
  BY <1>1 DEF TypeOK
<1>9. /\ g_name' \in [Conns -> [Guvs -> Ids \cup {NoName}]]
      /\ g_name'[f][a] = n
      /\ \A g \in Conns, b \in Guvs : ~(g = f /\ b = a) => g_name'[g][b] = g_name[g][b]
  BY <1>2, <1>8
<1>10. TypeOK' /\ NoDuplicates'
  BY <1>1, <1>2, <1>6, <1>9 DEF TypeOK, NoDuplicates, Distinct, Entry
<1>11. old # NoName => [sym |-> old, dat |-> Dg(f, a)] \in Entries(ids)
  BY <1>2, <1>8, SessionAssumption DEF IInv, GuvsListed, Passed
<1>12. \A x, y \in Entries(ids) : x.sym = y.sym => x = y
  BY <1>1 DEF Distinct, Entries
<1>13. \A x \in Entries(ids) : x.sym \in Ids /\ x.dat \in Dats
  BY <1>1, EntriesInEntry
<1>14. \A x \in Entries(ids) : x.dat # Dg(f, a) => x \in Entries(ids')
  <2>1. ASSUME NEW x \in Entries(ids), x.dat # Dg(f, a)  PROVE x.sym # old
    <3>1. x.sym # NoName
      BY <1>13, SessionAssumption
    <3>2. CASE old = NoName
      BY <3>1, <3>2
    <3>3. CASE old # NoName
      BY <1>11, <1>12, <2>1, <3>3
    <3>. QED  BY <3>2, <3>3
  <2>. QED  BY <1>7, <2>1
<1>15. /\ new.sym = n /\ new.dat = Dg(f, a)
       /\ new.dat.is = "guv" /\ new.dat.conn = f /\ new.dat.addr = a
       /\ \A g \in Conns : Fci(g) # Dg(f, a)
       /\ Uninitialized # Dg(f, a)
       /\ \A g \in Conns, b \in Guvs : Dg(g, b) = Dg(f, a) => g = f /\ b = a
  BY DatKinds
<1>. HIDE DEF new, old
<1>16. \A g, b : g \in Conns => ~Passed(g, b) /\ ~Passed(g, b)'
  BY <1>2, SessionAssumption DEF Passed
<1>17. EntriesOwned'
  <2>1. ASSUME NEW x \in Entries(ids), x.sym # old, x.dat.is = "guv"
        PROVE  g_name'[x.dat.conn][x.dat.addr] = x.sym
    <3>1. /\ x.dat.conn \in conns /\ x.dat.addr \in Guvs
          /\ g_name[x.dat.conn][x.dat.addr] = x.sym
      BY <1>13, <2>1, DatKinds DEF IInv, EntriesOwned
    <3>2. ~(x.dat.conn = f /\ x.dat.addr = a)
      BY <2>1, <3>1 DEF old
    <3>. QED  BY <1>8, <1>9, <3>1, <3>2
  <2>2. ASSUME NEW x \in Entries(ids'), x # new
        PROVE  x \in Entries(ids) /\ x.sym # old
    BY <1>7, <2>2
  <2>3. ASSUME NEW x \in Entries(ids'), x.dat.is \in {"fci", "guv"}
        PROVE  x.dat.conn \in conns
    BY <1>2, <1>15, <2>2, <2>3 DEF IInv, EntriesOwned
  <2>4. ASSUME NEW x \in Entries(ids'), x.dat.is = "fci"
        PROVE  f_name[x.dat.conn] = x.sym
    BY <1>15, <2>2, <2>4 DEF IInv, EntriesOwned
  <2>5. ASSUME NEW x \in Entries(ids'), x.dat.is = "guv"
        PROVE  g_name'[x.dat.conn][x.dat.addr] = x.sym
    BY <1>9, <1>15, <2>1, <2>2, <2>5
  <2>. QED  BY <1>2, <1>8, <1>16, <2>3, <2>4, <2>5 DEF EntriesOwned
<1>18. PendingListed'
  BY <1>2, <1>14, <1>15 DEF IInv, PendingListed
<1>19. ConnsListed'
  BY <1>2, <1>8, <1>14, <1>15 DEF IInv, ConnsListed
<1>20. GuvsListed'
  <2>1. ASSUME NEW g \in conns, NEW b \in Guvs, g_name'[g][b] # NoName
        PROVE  [sym |-> g_name'[g][b], dat |-> Dg(g, b)] \in Entries(ids')
    <3>1. CASE g = f /\ b = a
      BY <1>7, <1>9, <3>1 DEF new
    <3>2. CASE ~(g = f /\ b = a)
      <4>1. [sym |-> g_name[g][b], dat |-> Dg(g, b)] \in Entries(ids)
        BY <1>8, <1>9, <1>16, <2>1, <3>2 DEF IInv, GuvsListed
      <4>. QED  BY <1>8, <1>9, <1>14, <1>15, <3>2, <4>1
    <3>. QED  BY <3>1, <3>2
  <2>. QED  BY <1>2, <2>1 DEF GuvsListed
<1>21. FreedAreNew'
  BY <1>2, <1>8 DEF IInv, FreedAreNew
<1>. QED  BY <1>10, <1>17, <1>18, <1>19, <1>20, <1>21 DEF IInv

LEMMA NextInv == ASSUME IInv, [Next]_vars PROVE IInv'
<1>1. ASSUME NEW n \in Ids, Open(n)  PROVE IInv'
  BY <1>1, OpenInv
<1>2. ASSUME NEW n \in Ids, fpga_conn_cb(n)  PROVE IInv'
  <2>1. Known(n)
    <3>1. [sym |-> n, dat |-> Uninitialized] \in Entries(ids)
      BY <1>2 DEF IInv, PendingListed, fpga_conn_cb
    <3>. QED  BY <3>1, NotKnown DEF IInv
  <2>. QED  BY <1>2, <2>1, ConnFailedInv, ConnectedInv DEF fpga_conn_cb
<1>3. ASSUME NEW n \in Ids, CloseLine(n)  PROVE IInv'
  BY <1>3, CloseLineInv
<1>4. ASSUME NEW n \in Ids, NEW f \in Conns, NEW a \in Guvs, NameLine(n, f, a)
      PROVE  IInv'
  BY <1>4, NameLineInv
<1>5. ASSUME NEW f \in Conns, HangUp(f)  PROVE IInv'
  BY <1>5, BeginCleanupInv DEF HangUp
<1>6. CASE ReleaseGuv
  BY <1>6, ReleaseGuvInv
<1>7. CASE ReleaseConn
  BY <1>7, ReleaseConnInv
<1>8. CASE UNCHANGED vars
  BY <1>8 DEF vars, IInv, TypeOK, NoDuplicates, EntriesOwned, PendingListed,
              ConnsListed, GuvsListed, FreedAreNew, Passed
<1>. QED  BY <1>1, <1>2, <1>3, <1>4, <1>5, <1>6, <1>7, <1>8 DEF Next

LEMMA SpecInv == Spec => []IInv
<1>. QED  BY InitInv, NextInv, PTL DEF Spec

(***************************************************************************)
(* Safety.  Whatever is opened, named and closed in which order, and       *)
(* whenever connections complete, fail and hang up:                        *)
(***************************************************************************)

(* No name denotes a freed connection, so sel, close and name never follow *)
(* a stale pointer of the table.                                           *)
THEOREM NothingDangles == Spec => []NoDangling
<1>1. IInv => NoDangling
  <2>. SUFFICES ASSUME IInv, NEW i \in DOMAIN ids, ids[i].dat.is # "reserved"
                PROVE  ids[i].dat.conn \in conns
    BY DEF NoDangling
  <2>1. ids[i] \in Entries(ids)
    BY DEF Entries
  <2>2. ids[i].dat.is \in {"fci", "guv"}
    BY <2>1, EntriesInEntry, DatKinds DEF IInv
  <2>. QED  BY <2>1, <2>2 DEF IInv, EntriesOwned
<1>. QED  BY <1>1, SpecInv, PTL

(* A connection that completes finds the entry that open made for it: the  *)
(* second lookup of fpga_conn_cb cannot meet another's entry, or none.     *)
THEOREM CallbackFindsItsEntry == Spec => []FindsItsEntry
<1>1. IInv => FindsItsEntry
  <2>. SUFFICES ASSUME IInv, NEW n \in pending
                PROVE  Known(n) /\ Denoted(n) = Uninitialized
    BY DEF FindsItsEntry
  <2>1. [sym |-> n, dat |-> Uninitialized] \in Entries(ids)
    BY DEF IInv, PendingListed
  <2>. QED  BY <2>1, LookupFinds, EntriesInEntry
            DEF IInv, NoDuplicates, Distinct, Known, Denoted
<1>. QED  BY <1>1, SpecInv, PTL

(* Though the table itself does not refuse a name it has, no name is twice *)
(* in it.                                                                  *)
THEOREM NamesAreUnique == Spec => []NoDuplicates
BY SpecInv, PTL DEF IInv

(***************************************************************************)
(* The session implements the directory.                                   *)
(***************************************************************************)

GoneAt(d, f) == d.is # "reserved" /\ d.conn = f
DirAt(tab, f, n) ==
  LET e == symtab_lookup(tab, n)
  IN IF e = 0 \/ GoneAt(tab[e].dat, f) THEN [is |-> "free"] ELSE tab[e].dat

(* What a name denotes, from the entries of the table *)
LEMMA DirAtValue ==
  ASSUME NEW tab \in Seq(Entry), Distinct(tab), NEW f
  PROVE  /\ \A x \in Entries(tab) :
              DirAt(tab, f, x.sym) = IF GoneAt(x.dat, f) THEN [is |-> "free"] ELSE x.dat
         /\ \A n : (\A x \in Entries(tab) : x.sym # n) => DirAt(tab, f, n) = [is |-> "free"]
<1>1. ASSUME NEW x \in Entries(tab)
      PROVE  DirAt(tab, f, x.sym) = IF GoneAt(x.dat, f) THEN [is |-> "free"] ELSE x.dat
  BY LookupFinds DEF DirAt
<1>2. ASSUME NEW n, \A x \in Entries(tab) : x.sym # n
      PROVE  DirAt(tab, f, n) = [is |-> "free"]
  BY <1>2, LookupIndex DEF DirAt
<1>. QED  BY <1>1, <1>2

(* The directory of a table whose entries are kept, but for those of name  *)
(* n, is the same everywhere else.                                         *)
LEMMA DirAtKept ==
  ASSUME NEW tab \in Seq(Entry), Distinct(tab),
         NEW new \in Seq(Entry), Distinct(new),
         NEW f, NEW m,
         \A x : x.sym = m => (x \in Entries(tab) <=> x \in Entries(new))
  PROVE  DirAt(new, f, m) = DirAt(tab, f, m)
<1>1. CASE \A x \in Entries(tab) : x.sym # m
  BY <1>1, DirAtValue
<1>2. CASE \E x \in Entries(tab) : x.sym = m
  <2>1. PICK x \in Entries(tab) : x.sym = m
    BY <1>2
  <2>. QED  BY <2>1, DirAtValue
<1>. QED  BY <1>1, <1>2

LEMMA DirDefs ==
  /\ [n \in Ids |-> DirOf(n)] = [n \in Ids |-> DirAt(ids, closing, n)]
  /\ [n \in Ids |-> DirOf(n)]' = [n \in Ids |-> DirAt(ids', closing', n)]
BY DEF DirOf, DirAt, Known, Denoted, Gone, GoneAt

TheDir == [n \in Ids |-> DirOf(n)]
TheLive == conns \ {closing}

(* What the steps have in common: the table before and after, looked at as *)
(* a set of entries, and what both sides call free, reserved and a thing   *)
LEMMA DirFacts ==
  ASSUME IInv, IInv'
  PROVE  /\ ids \in Seq(Entry) /\ Distinct(ids)
         /\ ids' \in Seq(Entry) /\ Distinct(ids')
         /\ TheDir = [n \in Ids |-> DirAt(ids, closing, n)]
         /\ TheDir' = [n \in Ids |-> DirAt(ids', closing', n)]
         /\ \A x \in Entries(ids) : x.sym \in Ids /\ x.dat \in Dats
         /\ \A x \in Entries(ids) : x.dat.is # "reserved" => x.dat.conn \in conns
         /\ \A x, y \in Entries(ids) : x.sym = y.sym => x = y
<1>1. /\ ids \in Seq(Entry) /\ Distinct(ids)
      /\ \A x \in Entries(ids) : x.sym \in Ids /\ x.dat \in Dats
  BY EntriesInEntry DEF IInv, NoDuplicates, Distinct
<1>2. ids' \in Seq(Entry) /\ Distinct(ids')
  BY DEF IInv, TypeOK, NoDuplicates, Distinct, Entry
<1>3. \A x \in Entries(ids) : x.dat.is # "reserved" => x.dat.conn \in conns
  <2>1. \A x \in Entries(ids) : x.dat.is \in {"fci", "guv", "reserved"}
    BY <1>1, DatKinds
  <2>. QED  BY <2>1 DEF IInv, EntriesOwned
<1>4. \A x, y \in Entries(ids) : x.sym = y.sym => x = y
  BY <1>1 DEF Distinct, Entries
<1>. QED  BY <1>1, <1>2, <1>3, <1>4, DirDefs DEF TheDir

LEMMA OpenRefines ==
  ASSUME IInv, IInv', NEW n \in Ids, Open(n)  PROVE Dir!Reserve(n)
<1>. DEFINE e == [sym |-> n, dat |-> Uninitialized]
<1>1. UNCHANGED <<conns, closing>> /\ ids' = symtab_append(ids, n, Uninitialized)
  BY DEF Open
<1>2. \A x \in Entries(ids) : x.sym # n
  BY NotKnown DEF Open, Taken, InUse, IInv
<1>3. Entries(ids') = Entries(ids) \cup {e}
  BY <1>1, <1>2, DirFacts, AppendEntries, DatKinds
<1>4. ~GoneAt(Uninitialized, closing')
  BY DatKinds DEF GoneAt
<1>5. DirAt(ids, closing, n) = [is |-> "free"]
  BY <1>2, DirFacts, DirAtValue
<1>6. DirAt(ids', closing', n) = Uninitialized
  <2>1. e \in Entries(ids') /\ e.sym = n /\ e.dat = Uninitialized
    BY <1>3
  <2>. HIDE DEF e
  <2>. QED  BY <1>4, <2>1, DirFacts, DirAtValue
<1>7. ASSUME NEW m \in Ids, m # n
      PROVE  DirAt(ids', closing', m) = DirAt(ids, closing, m)
  BY <1>1, <1>3, <1>7, DirFacts, DirAtKept
<1>8. TheDir[n] = Dir!Free /\ TheDir' = [TheDir EXCEPT ![n] = Dir!Reserved]
  BY <1>5, <1>6, <1>7, DirFacts DEF Dir!Free, Dir!Reserved, Uninitialized
<1>. QED  BY <1>1, <1>8 DEF Dir!Reserve, TheDir

LEMMA ConnFailedRefines ==
  ASSUME IInv, IInv', NEW n \in Ids, fpga_conn_cb(n), ConnFailed(n)
  PROVE  Dir!Cancel(n)
<1>. DEFINE e == [sym |-> n, dat |-> Uninitialized]
<1>1. /\ UNCHANGED <<conns, closing>> /\ n \in pending
      /\ ids' = RemoveSym(ids, n)
  BY DEF fpga_conn_cb, ConnFailed
<1>2. e \in Entries(ids)
  BY <1>1 DEF IInv, PendingListed
<1>3. Entries(ids') = {x \in Entries(ids) : x.sym # n}
  BY <1>1, DirFacts, RemoveSymEntries
<1>4. ~GoneAt(Uninitialized, closing)
  BY DatKinds DEF GoneAt
<1>5. DirAt(ids, closing, n) = Uninitialized
  BY <1>2, <1>4, DirFacts, DirAtValue
<1>6. DirAt(ids', closing', n) = [is |-> "free"]
  BY <1>3, DirFacts, DirAtValue
<1>7. ASSUME NEW m \in Ids, m # n
      PROVE  DirAt(ids', closing', m) = DirAt(ids, closing, m)
  BY <1>1, <1>3, <1>7, DirFacts, DirAtKept
<1>8. TheDir[n] = Dir!Reserved /\ TheDir' = [TheDir EXCEPT ![n] = Dir!Free]
  BY <1>5, <1>6, <1>7, DirFacts DEF Dir!Free, Dir!Reserved, Uninitialized
<1>. QED  BY <1>1, <1>8 DEF Dir!Cancel, TheDir

LEMMA ConnectedRefines ==
  ASSUME IInv, IInv', NEW n \in Ids, fpga_conn_cb(n), Known(n),
         NEW f \in Conns, Connected(n, f)
  PROVE  Dir!Bind(n, f)
<1>. DEFINE old == [sym |-> n, dat |-> Uninitialized]
            new == [sym |-> n, dat |-> Fci(f)]
            e == symtab_lookup(ids, n)
<1>1. /\ closing' = closing /\ closing = NoConn /\ n \in pending
      /\ f \notin conns /\ conns' = conns \cup {f}
      /\ ids' = [ids EXCEPT ![e].dat = Fci(f)]
  BY DEF fpga_conn_cb, Connected, Idle
<1>2. old \in Entries(ids)
  BY <1>1 DEF IInv, PendingListed
<1>3. e \in DOMAIN ids /\ ids[e] = old
  BY <1>2, DirFacts, LookupFinds
<1>. HIDE DEF e
<1>4. DOMAIN ids' = DOMAIN ids /\ ids'[e] = new
      /\ \A i \in DOMAIN ids : i # e => ids'[i] = ids[i]
  BY <1>1, <1>3, DirFacts
<1>5. new \in Entries(ids')
  BY <1>3, <1>4 DEF Entries
<1>6. \A x : x.sym # n => (x \in Entries(ids) <=> x \in Entries(ids'))
  BY <1>3, <1>4 DEF Entries
<1>7. ~GoneAt(Uninitialized, closing) /\ ~GoneAt(Fci(f), closing')
  BY <1>1, DatKinds, SessionAssumption DEF GoneAt
<1>8. DirAt(ids, closing, n) = Uninitialized
  BY <1>2, <1>7, DirFacts, DirAtValue
<1>9. DirAt(ids', closing', n) = Fci(f)
  BY <1>5, <1>7, DirFacts, DirAtValue
<1>10. ASSUME NEW m \in Ids, m # n
       PROVE  DirAt(ids', closing', m) = DirAt(ids, closing, m)
  <2>1. \A x : x.sym = m => (x \in Entries(ids) <=> x \in Entries(ids'))
    BY <1>6, <1>10
  <2>2. DirAt(ids', closing, m) = DirAt(ids, closing, m)
    BY <2>1, DirFacts, DirAtKept
  <2>. QED  BY <1>1, <2>2
<1>11. TheDir[n] = Dir!Reserved /\ TheDir' = [TheDir EXCEPT ![n] = Dir!Conn(f)]
  BY <1>8, <1>9, <1>10, DirFacts DEF Dir!Conn, Dir!Reserved, Uninitialized, Fci
<1>12. f \notin TheLive /\ TheLive' = TheLive \cup {f}
  BY <1>1, SessionAssumption DEF TheLive
<1>. QED  BY <1>11, <1>12 DEF Dir!Bind, TheDir, TheLive

LEMMA BeginCleanupRefines ==
  ASSUME IInv, IInv', NEW f \in conns, Idle, BeginCleanup(f)
  PROVE  Dir!Close(f)
<1>1. UNCHANGED <<ids, conns>> /\ closing' = f /\ closing = NoConn
  BY DEF BeginCleanup, Idle
<1>2. NoConn \notin conns /\ conns \subseteq Conns
  BY SessionAssumption DEF IInv, TypeOK
<1>3. \A x \in Entries(ids) : ~GoneAt(x.dat, closing)
  BY <1>1, <1>2, DirFacts DEF GoneAt
<1>4. \A x \in Entries(ids) : GoneAt(x.dat, f) <=> x.dat \in Dir!Of(f)
  <2>1. \A d \in Dats : GoneAt(d, f) <=> d \in {Fci(f)} \cup {Dg(f, a) : a \in Guvs}
    BY <1>2, DatKinds DEF GoneAt
  <2>2. Dir!Of(f) = {Fci(f)} \cup {Dg(f, a) : a \in Guvs}
    BY DEF Dir!Of, Dir!Conn, Dir!Guv, Fci, Dg
  <2>. QED  BY <2>1, <2>2, DirFacts
<1>5. [is |-> "free"] \notin Dir!Of(f)
  BY DEF Dir!Of, Dir!Conn, Dir!Guv
<1>6. ASSUME NEW m \in Ids
      PROVE  TheDir'[m] = IF TheDir[m] \in Dir!Of(f) THEN Dir!Free ELSE TheDir[m]
  <2>1. CASE \E x \in Entries(ids) : x.sym = m
    <3>1. PICK x \in Entries(ids) : x.sym = m
      BY <2>1
    <3>2. DirAt(ids, closing, m) = x.dat
      BY <1>3, <3>1, DirFacts, DirAtValue
    <3>3. DirAt(ids', closing', m) = IF GoneAt(x.dat, f) THEN [is |-> "free"] ELSE x.dat
      BY <1>1, <3>1, DirFacts, DirAtValue
    <3>. QED  BY <1>4, <3>1, <3>2, <3>3, DirFacts DEF Dir!Free
  <2>2. CASE \A x \in Entries(ids) : x.sym # m
    <3>1. DirAt(ids, closing, m) = [is |-> "free"]
      BY <2>2, DirFacts, DirAtValue
    <3>2. DirAt(ids', closing', m) = [is |-> "free"]
      BY <1>1, <2>2, DirFacts, DirAtValue
    <3>. QED  BY <1>5, <3>1, <3>2, DirFacts DEF Dir!Free
  <2>. QED  BY <2>1, <2>2
<1>7. TheDir' = [m \in Ids |-> IF TheDir[m] \in Dir!Of(f) THEN Dir!Free ELSE TheDir[m]]
  BY <1>6, DirFacts
<1>8. f \in TheLive /\ TheLive' = TheLive \ {f}
  BY <1>1, <1>2 DEF TheLive
<1>. QED  BY <1>7, <1>8 DEF Dir!Close, TheDir, TheLive

(* The names a cleanup releases were free to the directory from its start. *)
LEMMA ReleaseGuvRefines ==
  ASSUME IInv, IInv', ReleaseGuv  PROVE UNCHANGED <<TheDir, TheLive>>
<1>. DEFINE s == g_name[closing][next_guv]
<1>1. /\ UNCHANGED <<conns, closing>> /\ ids' = RemoveSym(ids, s)
      /\ closing \in conns /\ next_guv \in Guvs /\ conns \subseteq Conns
  BY SessionAssumption DEF ReleaseGuv, IInv, TypeOK, Idle, Guvs
<1>2. s # NoName => [sym |-> s, dat |-> Dg(closing, next_guv)] \in Entries(ids)
  BY <1>1 DEF IInv, GuvsListed, Passed, Guvs
<1>3. \A x \in Entries(ids) : x.sym = s => x.dat = Dg(closing, next_guv)
  BY <1>2, DirFacts, SessionAssumption
<1>4. GoneAt(Dg(closing, next_guv), closing)
  BY <1>1, DatKinds DEF GoneAt
<1>. HIDE DEF s
<1>5. Entries(ids') = {x \in Entries(ids) : x.sym # s}
  BY <1>1, DirFacts, RemoveSymEntries
<1>6. ASSUME NEW m \in Ids
      PROVE  DirAt(ids', closing, m) = DirAt(ids, closing, m)
  <2>1. CASE m # s
    <3>1. \A x : x.sym = m => (x \in Entries(ids) <=> x \in Entries(ids'))
      BY <1>5, <2>1
    <3>. QED  BY <3>1, DirFacts, DirAtKept
  <2>2. CASE m = s
    <3>1. DirAt(ids', closing, m) = [is |-> "free"]
      BY <1>5, <2>2, DirFacts, DirAtValue
    <3>2. CASE \A x \in Entries(ids) : x.sym # m
      BY <3>1, <3>2, DirFacts, DirAtValue
    <3>3. CASE \E x \in Entries(ids) : x.sym = m
      <4>1. PICK x \in Entries(ids) : x.sym = m
        BY <3>3
      <4>2. GoneAt(x.dat, closing)
        BY <1>3, <1>4, <2>2, <4>1
      <4>. QED  BY <3>1, <4>1, <4>2, DirFacts, DirAtValue
    <3>. QED  BY <3>2, <3>3
  <2>. QED  BY <2>1, <2>2
<1>. QED  BY <1>1, <1>6, DirFacts DEF TheLive

LEMMA ReleaseConnRefines ==
  ASSUME IInv, IInv', ReleaseConn  PROVE UNCHANGED <<TheDir, TheLive>>
<1>. DEFINE s == f_name[closing]
<1>1. /\ ids' = RemoveSym(ids, s) /\ conns' = conns \ {closing}
      /\ closing' = NoConn /\ closing \in conns /\ conns \subseteq Conns
  BY SessionAssumption DEF ReleaseConn, IInv, TypeOK, Idle
<1>2. [sym |-> s, dat |-> Fci(closing)] \in Entries(ids)
  BY <1>1 DEF IInv, ConnsListed
<1>3. \A x \in Entries(ids) : x.sym = s => x.dat = Fci(closing)
  BY <1>2, DirFacts
<1>4. GoneAt(Fci(closing), closing)
  BY <1>1, DatKinds DEF GoneAt
<1>. HIDE DEF s
<1>5. Entries(ids') = {x \in Entries(ids) : x.sym # s}
  BY <1>1, DirFacts, RemoveSymEntries
<1>6. \A x \in Entries(ids') : ~GoneAt(x.dat, closing) /\ ~GoneAt(x.dat, closing')
  <2>1. \A x \in Entries(ids') : x.dat.is # "reserved" => x.dat.conn \in conns'
    <3>1. \A x \in Entries(ids') : x.dat.is \in {"fci", "guv", "reserved"}
      BY <1>5, DirFacts, DatKinds
    <3>. QED  BY <3>1 DEF IInv, EntriesOwned
  <2>. QED  BY <1>1, <2>1, SessionAssumption DEF GoneAt
<1>7. ASSUME NEW m \in Ids
      PROVE  DirAt(ids', closing', m) = DirAt(ids, closing, m)
  <2>1. CASE \E x \in Entries(ids') : x.sym = m
    <3>1. PICK x \in Entries(ids') : x.sym = m
      BY <2>1
    <3>2. x \in Entries(ids)
      BY <1>5, <3>1
    <3>3. DirAt(ids', closing', m) = x.dat
      BY <1>6, <3>1, DirFacts, DirAtValue
    <3>4. DirAt(ids, closing, m) = x.dat
      BY <1>6, <3>1, <3>2, DirFacts, DirAtValue
    <3>. QED  BY <3>3, <3>4
  <2>2. CASE \A x \in Entries(ids') : x.sym # m
    <3>1. DirAt(ids', closing', m) = [is |-> "free"]
      BY <2>2, DirFacts, DirAtValue
    <3>2. CASE \A x \in Entries(ids) : x.sym # m
      BY <3>1, <3>2, DirFacts, DirAtValue
    <3>3. CASE \E x \in Entries(ids) : x.sym = m
      <4>1. PICK x \in Entries(ids) : x.sym = m
        BY <3>3
      <4>2. GoneAt(x.dat, closing)
        BY <1>3, <1>4, <1>5, <2>2, <4>1
      <4>. QED  BY <3>1, <4>1, <4>2, DirFacts, DirAtValue
    <3>. QED  BY <3>2, <3>3
  <2>. QED  BY <2>1, <2>2
<1>8. TheLive' = TheLive
  BY <1>1, SessionAssumption DEF TheLive
<1>. QED  BY <1>7, <1>8, DirFacts

LEMMA NameLineRefines ==
  ASSUME IInv, IInv', NEW n \in Ids, NEW f \in Conns, NEW a \in Guvs,
         NameLine(n, f, a)
  PROVE  Dir!Name(n, f, a)
<1>. DEFINE old == g_name[f][a]
            mid == RemoveSym(ids, old)
            new == [sym |-> n, dat |-> Dg(f, a)]
<1>1. /\ UNCHANGED <<conns, closing>> /\ closing = NoConn
      /\ f \in conns /\ ~Known(n) /\ conns \subseteq Conns
      /\ ids' = symtab_append(mid, n, Dg(f, a))
  BY DEF NameLine, Idle, OldNameFreed, WithoutOldName, IInv, TypeOK
<1>2. \A x \in Entries(ids) : x.sym # n
  BY <1>1, NotKnown DEF IInv
<1>3. /\ mid \in Seq(Entry) /\ Distinct(mid)
      /\ Entries(mid) = {x \in Entries(ids) : x.sym # old}
  BY DirFacts, RemoveSymEntries
<1>4. Dg(f, a) \in Dats
  BY DatKinds
<1>. HIDE DEF mid
<1>5. Entries(ids') = Entries(mid) \cup {new}
  BY <1>1, <1>2, <1>3, <1>4, AppendEntries
<1>6. old # NoName => [sym |-> old, dat |-> Dg(f, a)] \in Entries(ids)
  BY <1>1, SessionAssumption DEF IInv, GuvsListed, Passed
<1>7. ASSUME NEW x \in Entries(ids)
      PROVE  x.sym = old <=> x.dat = Dg(f, a)
  <2>1. ASSUME x.sym = old  PROVE x.dat = Dg(f, a)
    BY <1>6, <2>1, DirFacts, SessionAssumption
  <2>2. ASSUME x.dat = Dg(f, a)  PROVE x.sym = old
    <3>1. x.dat.is = "guv" /\ x.dat.conn = f /\ x.dat.addr = a
      BY <2>2, DatKinds
    <3>. QED  BY <3>1 DEF IInv, EntriesOwned
  <2>. QED  BY <2>1, <2>2
<1>. HIDE DEF old
<1>8. \A d : d \in Dats => ~GoneAt(d, NoConn)
  BY DatKinds, SessionAssumption DEF GoneAt
<1>9. DirAt(ids, closing, n) = [is |-> "free"]
  BY <1>2, DirFacts, DirAtValue
<1>10. DirAt(ids', closing', n) = Dg(f, a)
  <2>1. new \in Entries(ids') /\ new.sym = n /\ new.dat = Dg(f, a)
    BY <1>5
  <2>. HIDE DEF new
  <2>. QED  BY <1>1, <1>4, <1>8, <2>1, DirFacts, DirAtValue
<1>11. Dg(f, a) # [is |-> "free"]
  BY DEF Dg
<1>12. ASSUME NEW m \in Ids, m # n
       PROVE  DirAt(ids', closing', m) =
                IF DirAt(ids, closing, m) = Dg(f, a) THEN [is |-> "free"]
                ELSE DirAt(ids, closing, m)
  <2>1. \A x : x.sym = m => (x \in Entries(ids') <=> x \in Entries(ids) /\ x.dat # Dg(f, a))
    BY <1>3, <1>5, <1>7, <1>12
  <2>2. CASE \E x \in Entries(ids) : x.sym = m
    <3>1. PICK x \in Entries(ids) : x.sym = m
      BY <2>2
    <3>2. DirAt(ids, closing, m) = x.dat
      BY <1>1, <1>8, <3>1, DirFacts, DirAtValue
    <3>3. CASE x.dat = Dg(f, a)
      <4>1. \A y \in Entries(ids') : y.sym # m
        BY <2>1, <3>1, <3>3, DirFacts
      <4>. QED  BY <3>2, <3>3, <4>1, DirFacts, DirAtValue
    <3>4. CASE x.dat # Dg(f, a)
      <4>1. x \in Entries(ids') /\ ~GoneAt(x.dat, closing')
        BY <1>1, <1>8, <2>1, <3>1, <3>4, DirFacts
      <4>. QED  BY <3>1, <3>2, <3>4, <4>1, DirFacts, DirAtValue
    <3>. QED  BY <3>3, <3>4
  <2>3. CASE \A x \in Entries(ids) : x.sym # m
    <3>1. \A x \in Entries(ids') : x.sym # m
      BY <2>1, <2>3
    <3>. QED  BY <1>11, <2>3, <3>1, DirFacts, DirAtValue
  <2>. QED  BY <2>2, <2>3
<1>13. Dir!Guv(f, a) = Dg(f, a) /\ Dir!Free = [is |-> "free"]
  BY DEF Dir!Guv, Dir!Free, Dg
<1>14. /\ TheDir[n] = Dir!Free
       /\ TheDir' = [m \in Ids |-> IF m = n THEN Dir!Guv(f, a)
                       ELSE IF TheDir[m] = Dir!Guv(f, a) THEN Dir!Free ELSE TheDir[m]]
  BY <1>9, <1>10, <1>12, <1>13, DirFacts
<1>15. f \in TheLive /\ TheLive' = TheLive
  BY <1>1, SessionAssumption DEF TheLive
<1>. QED  BY <1>14, <1>15 DEF Dir!Name, TheDir, TheLive

LEMMA StepRefines ==
  ASSUME IInv, IInv', [Next]_vars
  PROVE  Dir!Next \/ UNCHANGED <<TheDir, TheLive>>
<1>1. ASSUME NEW n \in Ids, Open(n)  PROVE Dir!Next
  BY <1>1, OpenRefines DEF Dir!Next
<1>2. ASSUME NEW n \in Ids, fpga_conn_cb(n)  PROVE Dir!Next
  <2>1. [sym |-> n, dat |-> Uninitialized] \in Entries(ids)
    BY <1>2 DEF IInv, PendingListed, fpga_conn_cb
  <2>2. Known(n)
    BY <2>1, NotKnown DEF IInv
  <2>3. CASE ConnFailed(n)
    BY <1>2, <2>3, ConnFailedRefines DEF Dir!Next
  <2>4. ASSUME NEW f \in Conns, Connected(n, f)  PROVE Dir!Next
    BY <1>2, <2>2, <2>4, ConnectedRefines DEF Dir!Next
  <2>. QED  BY <1>2, <2>2, <2>3, <2>4 DEF fpga_conn_cb
<1>3. ASSUME NEW n \in Ids, CloseLine(n)
      PROVE  Dir!Next \/ UNCHANGED <<TheDir, TheLive>>
  <2>1. CASE Denoted(n).is = "fci" /\ BeginCleanup(Denoted(n).conn)
    <3>1. symtab_lookup(ids, n) \in DOMAIN ids
      BY <1>3, DirFacts, LookupIndex DEF CloseLine, Known
    <3>2. Denoted(n).conn \in conns /\ conns \subseteq Conns
      BY <2>1, <3>1 DEF IInv, EntriesOwned, Entries, Denoted, TypeOK
    <3>. QED  BY <1>3, <2>1, <3>2, BeginCleanupRefines DEF CloseLine, Dir!Next
  <2>2. CASE UNCHANGED vars
    BY <2>2 DEF vars, TheDir, TheLive, DirOf, Known, Denoted, Gone
  <2>. QED  BY <1>3, <2>1, <2>2 DEF CloseLine
<1>4. ASSUME NEW n \in Ids, NEW f \in Conns, NEW a \in Guvs, NameLine(n, f, a)
      PROVE  Dir!Next
  BY <1>4, NameLineRefines DEF Dir!Next
<1>5. ASSUME NEW f \in Conns, HangUp(f)  PROVE Dir!Next
  BY <1>5, BeginCleanupRefines DEF HangUp, Dir!Next
<1>6. CASE ReleaseGuv
  BY <1>6, ReleaseGuvRefines
<1>7. CASE ReleaseConn
  BY <1>7, ReleaseConnRefines
<1>8. CASE UNCHANGED vars
  BY <1>8 DEF vars, TheDir, TheLive, DirOf, Known, Denoted, Gone
<1>. QED  BY <1>1, <1>2, <1>3, <1>4, <1>5, <1>6, <1>7, <1>8 DEF Next

(* The names of a session behave as the directory: a name denotes one      *)
(* thing from when it is taken until that thing is gone, and closing a     *)
(* connection frees its names and those of its dbg_guvs, and no other.     *)
THEOREM SessionIsDirectory == Spec => ImplementsDirectory
<1>1. Init => Dir!Init
  <2>. SUFFICES ASSUME Init PROVE Dir!Init
    OBVIOUS
  <2>1. \A n \in Ids : DirOf(n) = Dir!Free
    BY DEF Init, DirOf, Known, symtab_lookup, Under, Dir!Free
  <2>. QED  BY <2>1 DEF Init, Dir!Init
<1>2. IInv /\ IInv' /\ [Next]_vars
        => [Dir!Next]_<<[n \in Ids |-> DirOf(n)], conns \ {closing}>>
  BY StepRefines DEF TheDir, TheLive
<1>. QED  BY <1>1, <1>2, SpecInv, PTL DEF Spec, Dir!Spec, ImplementsDirectory
=============================================================================
