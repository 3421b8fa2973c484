-------------------------------- MODULE Twm ---------------------------------
(***************************************************************************)
(* The tiling window manager (src/twm.c) and the key bindings and commands *)
(* of src/main.c that drive it.  Windows are the leaves of a tree of       *)
(* malloc'ed nodes; every operation edits the nodes in place, so the heap  *)
(* is explicit: a freed node can still be pointed at, and a node can be    *)
(* allocated and not be in the tree.  Indices count from 1.                *)
(***************************************************************************)
EXTENDS Naturals, Sequences, SequencesExt, FiniteSets, Functions

CONSTANTS Guvs,         \* the dbg_guvs of one FPGA, in address order
          MsgWin,       \* the message window
          Dummies,      \* dummy drawables
          MaxChildren,  \* MAX_CHILDREN
          MaxNodes      \* bound: nodes allocated or still pointed at

VARIABLE tree   \* a twm_tree with the nodes it is made of

Null == 0
Node == 1 .. MaxNodes
Item == ToSet(Guvs) \cup Dummies \cup {MsgWin}
Gone == "gone"      \* the address of a dbg_guv whose connection was freed
NoItem == "none"    \* what a stacked node shows

ASSUME TwmAssumption ==
  /\ MaxChildren \in Nat \ {0, 1}
  /\ MaxNodes \in Nat \ {0}
  /\ Guvs \in Seq(ToSet(Guvs))
  /\ ToSet(Guvs) \cap Dummies = {}
  /\ MsgWin \notin ToSet(Guvs) \cup Dummies
  /\ Item \cap {Gone, NoItem} = {}

Stack == {"HORZ", "VERT"}
Dir == {"UP", "DOWN", "LEFT", "RIGHT"}
FocusDir == Dir \cup {"PARENT", "CHILD"}

Freed == [type |-> "FREE", parent |-> Null, item |-> NoItem, kids |-> << >>]

(* The outcomes, and those of a step that misuses memory or divides by 0.  *)
Crashes == {"USE_AFTER_FREE", "DIVIDE_BY_ZERO", "NULL_POINTER", "OUT_OF_BOUNDS"}
Errors == {"NOT_FOUND", "INVALID_TREE", "ILLEGAL_DELETE", "BAD_DEVELOPER",
           "FULL_PARENT", "NULL_ARG", "NO_WINDOWS", "NO_FOCUS", "NOT_LEAF"}

Outcomes == {"SUCC"} \cup Errors \cup Crashes

Record == [type : Stack \cup {"LEAF", "FREE"}, parent : Node \cup {Null},
           item : Item \cup {NoItem, Gone}, kids : Seq(Node)]
Trees == [heap : [Node -> Record], head : Node \cup {Null}, focus : Node \cup {Null},
          err : Outcomes]

Type(t, n) == t.heap[n].type
Kids(t, n) == t.heap[n].kids
Parent(t, n) == t.heap[n].parent
IsFreed(t, n) == Type(t, n) = "FREE"

Ok(t) == [t EXCEPT !.err = "SUCC"]
Fail(t, code) == [t EXCEPT !.err = code]
Failed(t) == t.err # "SUCC"
UseAfterFree(t) == Fail(t, "USE_AFTER_FREE")

-----------------------------------------------------------------------------
(* Reachability *)

(* f[f[...f[x]]].  The loops and tail calls of the code go from node to    *)
(* node: MaxNodes turns are as many as a tree lets them take.              *)
Iterate(f, x) ==
  LET turns[i \in 0 .. MaxNodes] ==
        [y \in DOMAIN f |-> IF i = 0 \/ f[y] = y THEN y ELSE turns[i - 1][f[y]]]
  IN  turns[MaxNodes][x]

(* What next leads to from some nodes. *)
Reach(next, from) ==
  Iterate([known \in SUBSET Node |-> known \cup UNION {next[n] : n \in known}], from)

(* The nodes of the subtree at n. *)
Below(t, n) == Reach([m \in Node |-> ToSet(Kids(t, m))], {n})

Shown(t) == IF t.head = Null THEN {} ELSE Below(t, t.head)

(* redraw_twm_node_tree fails at a stacked node with no children. *)
Redrawable(t, n) ==
  \A m \in Below(t, n) : Type(t, m) \in Stack => Kids(t, m) # << >>

(* The outcome of a redraw whose error the caller passes on. *)
Redrawn(t, n) == IF Redrawable(t, n) THEN Ok(t) ELSE Fail(t, "INVALID_TREE")

(* The nodes a pointer the program holds still leads to. *)
HeldByTree(t) ==
  Reach([n \in Node |-> (ToSet(Kids(t, n)) \cup {Parent(t, n)}) \ {Null}],
        {t.head, t.focus} \ {Null})

(* A leaked node can have no further effect: its number is used again. *)
Collect(t) ==
  LET held == HeldByTree(t)
  IN  [t EXCEPT !.heap = [n \in Node |-> IF n \in held THEN t.heap[n] ELSE Freed]]

(* calloc: a node nobody points at. *)
Unused(t) == {n \in Node : IsFreed(t, n)} \ HeldByTree(t)
Fresh(t) == CHOOSE n \in Unused(t) : \A m \in Unused(t) : n <= m

-----------------------------------------------------------------------------
(* Nodes *)

(* twm_node_indexof: the place of n among the children of p, or 0. *)
IndexOf(t, n, p) ==
  IF \E i \in DOMAIN Kids(t, p) : Kids(t, p)[i] = n
  THEN CHOOSE i \in DOMAIN Kids(t, p) : Kids(t, p)[i] = n
  ELSE 0
IndexError(t, p) ==
  Fail(t, IF Kids(t, p) = << >> THEN "INVALID_TREE" ELSE "NOT_FOUND")

(* construct_leaf_twm_node *)
Leaf(item, parent) == [type |-> "LEAF", parent |-> parent, item |-> item, kids |-> << >>]
NewLeaf(t, n, item) == [t EXCEPT !.heap = [t.heap EXCEPT ![n] = Leaf(item, Null)]]

(* wrap_leaf: the leaf n becomes a stacked node with the window below it. *)
WrapLeaf(t, n, type) ==
  LET c == Fresh(t)
  IN  [t EXCEPT !.heap = [t.heap EXCEPT ![c] = Leaf(t.heap[n].item, n),
                                        ![n].type = type, ![n].item = NoItem, ![n].kids = <<c>>]]

SetFocus(t, n) == [t EXCEPT !.focus = n]

(* Merges that forget part of the work. *)
NoMerge(t, p) == t
MergeForgetsItem(t, p) ==
  LET c == Kids(t, p)[1]
  IN  [t EXCEPT !.focus = IF t.focus = c THEN p ELSE @,
         !.heap = [n \in Node |->
           CASE n = p -> [t.heap[c] EXCEPT !.parent = t.heap[p].parent, !.item = NoItem]
             [] n = c -> Freed
             [] n \in ToSet(Kids(t, c)) -> [t.heap[n] EXCEPT !.parent = p]
             [] OTHER -> t.heap[n]]]
MergeForgetsParents(t, p) ==
  LET c == Kids(t, p)[1]
  IN  [t EXCEPT !.heap[p] = [t.heap[c] EXCEPT !.parent = t.heap[p].parent],
                !.heap[c] = Freed,
                !.focus = IF t.focus = c THEN p ELSE @]

(* The only child of p is copied into p and freed; the focus follows it.   *)
Merge(t, p) ==
  LET c == Kids(t, p)[1]
  IN  [t EXCEPT !.focus = IF t.focus = c THEN p ELSE @,
         !.heap = [n \in Node |->
           CASE n = p -> [t.heap[c] EXCEPT !.parent = t.heap[p].parent]
             [] n = c -> Freed
             [] n \in ToSet(Kids(t, c)) -> [t.heap[n] EXCEPT !.parent = p]
             [] OTHER -> t.heap[n]]]

(* The k-th child of p leaves p, and is not freed. *)
Cut(t, p, k) == [t EXCEPT !.heap[p].kids = RemoveAt(@, k)]

(* A parent left empty is itself removed (and leaks), if it has a place.   *)
Climbs(t, p) ==
  LET g == Parent(t, p)
  IN  Kids(t, p) = << >> /\ g # Null /\ ~ IsFreed(t, g) /\ IndexOf(t, p, g) # 0

CutParent(t, p) == Cut(t, Parent(t, p), IndexOf(t, p, Parent(t, p)))

Climb(t, p) ==
  Iterate([a \in [tree : Trees, node : Node] |->
             IF Climbs(a.tree, a.node)
             THEN [tree |-> CutParent(a.tree, a.node), node |-> Parent(a.tree, a.node)]
             ELSE a],
          [tree |-> t, node |-> p])

(* A parent left with one child becomes that child. *)
Tidied(t, p) ==
  LET g == Parent(t, p)
  IN  CASE Len(Kids(t, p)) = 1 -> Ok(Merge(t, p))
        [] Len(Kids(t, p)) > 1 -> Redrawn(t, p)
        [] OTHER ->
             IF g = Null THEN Fail(t, "ILLEGAL_DELETE")
             ELSE IF IsFreed(t, g) THEN UseAfterFree(t)
             ELSE IndexError(t, g)

(* twm_remove_node: the k-th child of p leaves the tree. *)
RemoveNode(t, p, k) ==
  LET top == Climb(Cut(t, p, k), p)
  IN  Tidied(top.tree, top.node)

(* twm_insert_node: n becomes the k-th child of p.  A lone window is first *)
(* wrapped, and n follows it.                                              *)
Link(t, n, p, k) ==
  [t EXCEPT !.heap = [t.heap EXCEPT ![p].kids = InsertAt(@, k, n), ![n].parent = p]]
InsertAny(t, n, p, k) == Redrawn(Link(t, n, p, k), p)

InsertNode(t, n, p, k) ==
  IF Type(t, p) = "LEAF"
  THEN IF t.head # p THEN Fail(t, "INVALID_TREE")
       ELSE InsertAny(WrapLeaf(t, p, "HORZ"), n, p, 2)
  ELSE IF Len(Kids(t, p)) = MaxChildren THEN Fail(t, "FULL_PARENT")
  ELSE InsertAny(t, n, p, k)

(* A move that takes the node out of its old place first. *)
MoveRemovesFirst(t, n, p, k) ==
  LET q == Parent(t, n)
      i == IndexOf(t, n, q)
      r == RemoveNode(t, q, i)
  IN  IF i = 0 THEN IndexError(t, q)
      ELSE IF q = p
      THEN Ok([t EXCEPT !.heap[p].kids = InsertAt(RemoveAt(@, i), k, n)])
      ELSE IF Failed(r) THEN r
      ELSE InsertNode(r, n, p, k)

(* twm_move_node: insert at the new place, then remove from the old one.   *)
MoveNode(t, n, p, k) ==
  LET q == Parent(t, n)
      i == IndexOf(t, n, q)
      r == InsertNode(t, n, p, k)
  IN  IF i = 0 THEN IndexError(t, q)
      ELSE IF q = p
      THEN Ok([t EXCEPT !.heap[p].kids = InsertAt(RemoveAt(@, i), k, n)])
      ELSE IF Failed(r) THEN r
      ELSE RemoveNode(r, q, i)

-----------------------------------------------------------------------------
(* Where a direction leads *)

Across(type, dir) ==
  \/ dir \in {"UP", "DOWN"} /\ type = "HORZ"
  \/ dir \in {"LEFT", "RIGHT"} /\ type = "VERT"

Step(i, dir) == IF dir \in {"UP", "LEFT"} THEN i - 1 ELSE i + 1

(* The climb shared by twm_tree_move_focus and twm_tree_move_focused_node: *)
(* the first ancestor cur that stacks its children along dir and has one   *)
(* beside prev, and that neighbour's index.                                *)
Higher(t, a, dir) ==
  LET i == IndexOf(t, a.prev, a.cur)
  IN  /\ a.cur # Null /\ ~ IsFreed(t, a.cur)
      /\ \/ Across(Type(t, a.cur), dir)
         \/ i # 0 /\ Step(i, dir) \notin DOMAIN Kids(t, a.cur)

Level(t, dir) ==
  LET climb == [a \in [prev : Node, cur : Node \cup {Null}] |->
                  IF Higher(t, a, dir) THEN [prev |-> a.cur, cur |-> Parent(t, a.cur)] ELSE a]
      top == Iterate(climb, [prev |-> t.focus, cur |-> Parent(t, t.focus)])
      i == IndexOf(t, top.prev, top.cur)
  IN  CASE top.cur = Null -> [at |-> Null, ind |-> 0, err |-> "SUCC"]
        [] top.cur # Null /\ IsFreed(t, top.cur) -> [at |-> top.cur, ind |-> 0, err |-> "USE_AFTER_FREE"]
        [] OTHER ->
             IF i = 0 THEN [at |-> top.cur, ind |-> 0, err |-> IndexError(t, top.cur).err]
             ELSE [at |-> top.cur, ind |-> Step(i, dir), err |-> "SUCC"]

(* Down the last children to a window; Null where children[-1] is read.    *)
LastLeaf(t, n) ==
  LET last == [m \in Node |-> IF Type(t, m) # "LEAF" /\ Kids(t, m) # << >>
                              THEN Last(Kids(t, m)) ELSE m]
      end == Iterate(last, n)
  IN  IF Type(t, end) = "LEAF" THEN end ELSE Null

(* The node above the window at the near edge of subtree n; Null if a      *)
(* stacked node without children is met first.                             *)
Nearest(t, n, dir) == IF Step(1, dir) > 1 THEN Kids(t, n)[1] ELSE Last(Kids(t, n))
EdgeParent(t, n, dir) ==
  LET edge == [m \in Node |->
                 IF Kids(t, m) # << >> /\ Type(t, Nearest(t, m, dir)) # "LEAF"
                 THEN Nearest(t, m, dir) ELSE m]
      end == Iterate(edge, n)
  IN  IF Kids(t, end) = << >> THEN Null ELSE end

-----------------------------------------------------------------------------
(* The operations *)

(* twm_tree_move_focus *)
MoveFocusAlong(t, dir) ==
  LET lv   == Level(t, dir)
      next == LastLeaf(t, Kids(t, lv.at)[lv.ind])
  IN  IF lv.err # "SUCC" THEN Fail(t, lv.err)
      ELSE IF lv.at = Null THEN Ok(t)
      ELSE IF next = Null THEN Fail(t, "OUT_OF_BOUNDS")
      ELSE IF ~ Redrawable(t, t.focus)
      THEN Fail(t, "INVALID_TREE")
      ELSE Ok(SetFocus(t, next))

MoveFocusToParent(t) ==
  LET p == Parent(t, t.focus)
  IN  IF IsFreed(t, p) THEN UseAfterFree(t) ELSE Redrawn(SetFocus(t, p), p)

MoveFocusToChild(t) ==
  IF Type(t, t.focus) = "LEAF" THEN Ok(t)
  ELSE IF Kids(t, t.focus) = << >> THEN Fail(t, "INVALID_TREE")
  ELSE IF ~ Redrawable(t, t.focus)
  THEN Fail(SetFocus(t, Null), "INVALID_TREE")
  ELSE Ok(SetFocus(t, Kids(t, t.focus)[1]))

MoveFocus(t, dir) ==
  CASE t.focus = Null ->
         IF t.head = Null THEN Fail(t, "NO_WINDOWS")
         ELSE IF Type(t, t.head) = "LEAF" THEN Ok(SetFocus(t, t.head))
         ELSE Fail(t, "NULL_POINTER")
    [] t.focus # Null /\ dir = "CHILD" -> MoveFocusToChild(t)
    [] t.focus # Null /\ dir # "CHILD" ->
         IF Parent(t, t.focus) = Null THEN Ok(t)
         ELSE IF dir = "PARENT" THEN MoveFocusToParent(t)
         ELSE MoveFocusAlong(t, dir)

(* The focused node and the whole tree become the two children of a new    *)
(* root.                                                                   *)
NewRoot(t, dir) ==
  LET p == Parent(t, t.focus)
      i == IndexOf(t, t.focus, p)
      r == RemoveNode(t, p, i)
      h == Fresh(r)
      pair == IF dir \in {"UP", "LEFT"} THEN <<r.focus, r.head>> ELSE <<r.head, r.focus>>
      root == [type |-> IF dir \in {"UP", "DOWN"} THEN "VERT" ELSE "HORZ",
               parent |-> Null, item |-> NoItem, kids |-> pair]
  IN  IF i = 0 THEN IndexError(t, p)
      ELSE IF Failed(r) THEN r
      ELSE [r EXCEPT !.heap = [r.heap EXCEPT ![h] = root, ![r.head].parent = h,
                                             ![r.focus].parent = h],
                     !.head = h]

(* twm_tree_move_focused_node *)
MoveFocusedNode(t, dir) ==
  LET lv   == Level(t, dir)
      adj  == Kids(t, lv.at)[lv.ind]
      edge == EdgeParent(t, adj, dir)
  IN  IF t.focus = Null \/ Parent(t, t.focus) = Null THEN Ok(t)
      ELSE IF lv.err # "SUCC" THEN Fail(t, lv.err)
      ELSE IF lv.at = Null THEN NewRoot(t, dir)
      ELSE IF Type(t, adj) = "LEAF" THEN MoveNode(t, t.focus, lv.at, lv.ind)
      ELSE IF edge = Null THEN Fail(t, "INVALID_TREE")
      ELSE MoveNode(t, t.focus, edge, 1)

(* twm_tree_add_window: after the focused window, or last below a focused  *)
(* stack.  A window that cannot be inserted is leaked.                     *)
AddWindow(t, item) ==
  LET n == Fresh(t)
      new == NewLeaf(t, n, item)
      f == IF t.focus = Null THEN [new EXCEPT !.focus = t.head] ELSE new
      p == Parent(f, f.focus)
      r == IF Type(f, f.focus) # "LEAF"
           THEN InsertNode(f, n, f.focus, Len(Kids(f, f.focus)) + 1)
           ELSE IF p = Null THEN InsertNode(f, n, f.focus, 1)
           ELSE IF IsFreed(f, p) THEN UseAfterFree(f)
           ELSE InsertNode(f, n, p, IndexOf(f, f.focus, p) + 1)
  IN  IF t.head = Null THEN Ok(SetFocus([new EXCEPT !.head = n], n))
      ELSE IF Failed(r) THEN r
      ELSE Ok(SetFocus(r, n))

(* The last window goes, and the focus is or is not forgotten. *)
HeadGone(t) == [t EXCEPT !.head = Null]
AllGone(t) == [t EXCEPT !.head = Null, !.focus = Null]

FreeSubtree(t, n) ==
  LET gone == Below(t, n)
  IN  [t EXCEPT !.heap = [m \in Node |-> IF m \in gone THEN Freed ELSE t.heap[m]]]

(* The node remove_focused chooses to focus on next: the parent that will  *)
(* absorb the other of two children, else the next sibling.                *)
NextFocus(t, p) ==
  LET i == IndexOf(t, t.focus, p)
      g == Parent(t, p)
      j == IndexOf(t, p, g)
  IN  CASE Len(Kids(t, p)) = 1 -> Kids(t, g)[(j % Len(Kids(t, g))) + 1]
        [] Len(Kids(t, p)) = 2 -> p
        [] OTHER -> Kids(t, p)[(i % Len(Kids(t, p))) + 1]

(* twm_tree_remove_focused, when the focus has a parent. *)
RemoveBelow(t, p) ==
  LET i == IndexOf(t, t.focus, p)
      g == Parent(t, p)
      r == RemoveNode(t, p, i)
      next == NextFocus(t, p)
      freed == FreeSubtree(r, t.focus)
      only == Len(Kids(t, p)) = 1
  IN  CASE IsFreed(t, p) -> UseAfterFree(t)
        [] i = 0 -> IndexError(t, p)
        [] only /\ g = Null -> Fail(t, "BAD_DEVELOPER")
        [] OTHER ->
             IF only /\ IsFreed(t, g) THEN UseAfterFree(t)
             ELSE IF only /\ IndexOf(t, p, g) = 0 THEN IndexError(t, g)
             ELSE IF Failed(r) THEN r
             ELSE IF IsFreed(freed, next) THEN UseAfterFree(freed)
             ELSE Redrawn(SetFocus(freed, next), p)

RemoveFocused(t) ==
  IF t.focus = Null THEN Ok(t)
  ELSE IF Parent(t, t.focus) # Null THEN RemoveBelow(t, Parent(t, t.focus))
  ELSE IF t.head # t.focus THEN Fail(t, "INVALID_TREE")
  ELSE Ok(AllGone(FreeSubtree(t, t.head)))

(* twm_set_stack_dir_focused.  A lone or accompanied window is wrapped; an *)
(* only child passes the order, and the focus, to its parent.              *)
SetStackDir(t, type) ==
  LET f == t.focus
      p == Parent(t, f)
      wraps == p = Null \/ Len(Kids(t, p)) > 1
      retyped == [t EXCEPT !.heap[p].type = type, !.heap[p].item = NoItem]
  IN  CASE f = Null -> Ok(t)
        [] f # Null /\ Type(t, f) = "LEAF" ->
             IF p # Null /\ IsFreed(t, p) THEN UseAfterFree(t)
             ELSE IF wraps THEN Redrawn(WrapLeaf(t, f, type), f)
             ELSE Redrawn(SetFocus(retyped, p), p)
        [] f # Null /\ Type(t, f) = type -> Ok(t)
        [] OTHER -> Redrawn([t EXCEPT !.heap[f].type = type], f)

(* twm_toggle_stack_dir_focused *)
ToggleStackDir(t) ==
  SetStackDir(t, IF t.focus # Null /\ Type(t, t.focus) = "HORZ" THEN "VERT" ELSE "HORZ")

(* twm_tree_get_focused_as, but for the comparison of the draw function:   *)
(* asking for the focused window moves the focus off a stack with an only  *)
(* child.                                                                  *)
FocusedAs(t) ==
  LET f == t.focus
      down == SetFocus(t, Kids(t, f)[1])
  IN  CASE f = Null -> Fail(t, "NO_FOCUS")
        [] f # Null /\ Type(t, f) = "LEAF" -> Ok(t)
        [] f # Null /\ Type(t, f) # "LEAF" ->
             IF Len(Kids(t, f)) # 1 THEN Fail(t, "NOT_LEAF")
             ELSE IF Type(t, Kids(t, f)[1]) = "LEAF" THEN Ok(down)
             ELSE Fail(down, "INVALID_TREE")

(* The first window that shows item, depth first: todo are the nodes not   *)
(* visited.  The search ends at once at a stacked node without children.   *)
Ends(t, n, item) ==
  IF Type(t, n) = "LEAF" THEN t.heap[n].item = item ELSE Kids(t, n) = << >>

(* A search that gives up after the first child. *)
VisitFirst(t, todo, item) ==
  IF todo = << >> \/ Ends(t, todo[1], item) THEN todo
  ELSE (IF Type(t, todo[1]) = "LEAF" THEN << >> ELSE <<Kids(t, todo[1])[1]>>) \o Tail(todo)

Visit(t, todo, item) ==
  IF todo = << >> \/ Ends(t, todo[1], item) THEN todo ELSE Kids(t, todo[1]) \o Tail(todo)

FindItem(t, n, item) ==
  LET rest == Iterate([todo \in Seq(Node) |-> Visit(t, todo, item)], <<n>>)
  IN  CASE rest = << >> -> [node |-> n, err |-> "NOT_FOUND"]
        [] rest # << >> /\ Type(t, rest[1]) = "LEAF" /\ t.heap[rest[1]].item = item ->
             [node |-> rest[1], err |-> "SUCC"]
        [] OTHER -> [node |-> n, err |-> "INVALID_TREE"]

(* twm_tree_focus_item *)
FocusItem(t, item) ==
  LET found == FindItem(t, t.head, item)
  IN  IF t.head = Null THEN Fail(t, "NOT_FOUND")
      ELSE IF found.err # "SUCC" THEN Fail(t, found.err)
      ELSE Ok(SetFocus(t, found.node))

(* twm_tree_remove_item and twm_tree_node_remove_item, which searches as   *)
(* find_item does.                                                         *)
RemoveFound(t, n) ==
  LET p == Parent(t, n)
      r == RemoveNode(t, p, IndexOf(t, n, p))
  IN  IF p = Null THEN Ok(AllGone(FreeSubtree(t, n)))
      ELSE IF Failed(r) THEN r
      ELSE Ok(FreeSubtree(r, n))

RemoveItem(t, item) ==
  LET f == t.focus
      found == FindItem(t, t.head, item)
  IN  IF f # Null /\ Type(t, f) = "LEAF" /\ t.heap[f].item = item THEN RemoveFocused(t)
      ELSE IF t.head = Null THEN Fail(t, "NULL_ARG")
      ELSE CASE found.err = "SUCC" -> RemoveFound(t, found.node)
             [] found.err = "NOT_FOUND" -> Ok(t)
             [] OTHER -> Fail(t, found.err)

-----------------------------------------------------------------------------
(* main.c: one libevent callback per step *)

Running == tree.err \notin Crashes
Finish(t) == Running /\ tree' = Collect(t)

(* What the windows of the tree show. *)
Items(t) == {t.heap[n].item : n \in {m \in Shown(t) : Type(t, m) = "LEAF"}}

(* Bound: the nodes an operation may have to allocate. *)
RoomForNodes == Cardinality(Unused(tree)) >= 2

KeyMoveWindow(dir) == RoomForNodes /\ Finish(MoveFocusedNode(tree, dir))
KeyMoveFocus(dir) == Finish(MoveFocus(tree, dir))
KeyRemove == Finish(RemoveFocused(tree))
KeySetStackDir(type) == RoomForNodes /\ Finish(SetStackDir(tree, type))
KeyToggle == RoomForNodes /\ Finish(ToggleStackDir(tree))

(* got_rl_line asks for the focused dbg_guv before it runs any command. *)
AfterLine == FocusedAs(tree)

(* A scroll key, a manager command or a register write uses that dbg_guv.  *)
UseFocused ==
  LET r == AfterLine
  IN  Finish(IF ~ Failed(r) /\ r.heap[r.focus].item = Gone THEN UseAfterFree(r) ELSE r)

(* CMD_SEL and CMD_MSG focus the window of an item or open one.  An item   *)
(* of Guvs is a dbg_guv of the connection open now.                        *)
CmdSelect(item) ==
  LET r == FocusItem(AfterLine, item)
  IN  /\ RoomForNodes
      /\ Finish(IF r.err = "NOT_FOUND" THEN AddWindow(r, item) ELSE r)

(* CMD_DUMMY always opens a new window. *)
CmdDummy(item) ==
  /\ RoomForNodes
  /\ item \notin {tree.heap[n].item : n \in Node}
  /\ Finish(AddWindow(AfterLine, item))

(* CMD_CLOSE with the name of a dbg_guv. *)
CmdCloseGuv(g) == Finish(RemoveItem(AfterLine, g))

(* cleanup_fpga_connection removes the windows of its dbg_guvs and frees   *)
(* them with the connection.  A node still showing one is left dangling.   *)
Forget(t) ==
  [t EXCEPT !.heap = [n \in Node |->
     IF t.heap[n].item \in ToSet(Guvs) THEN [t.heap[n] EXCEPT !.item = Gone] ELSE t.heap[n]]]

CloseWindows(t) ==
  LET closed[i \in 0 .. Len(Guvs)] ==
        IF i = 0 THEN t
        ELSE IF closed[i - 1].err \in Crashes THEN closed[i - 1]
        ELSE RemoveItem(closed[i - 1], Guvs[i])
      r == closed[Len(Guvs)]
  IN  IF r.err \in Crashes THEN r ELSE Forget(r)

CmdCloseFpga == Finish(CloseWindows(AfterLine))
FpgaHangsUp == Finish(CloseWindows(tree))

(* draw_cb every 50 ms, where it does not just paint: the size of a stack  *)
(* is divided by its number of children, and a window draws its item.      *)
EmptyStacks == {n \in Shown(tree) : Type(tree, n) \in Stack /\ Kids(tree, n) = << >>}
StaleWindows == {n \in Shown(tree) : tree.heap[n].item = Gone}
DrawCrash ==
  /\ EmptyStacks \cup StaleWindows # {}
  /\ Finish(Fail(tree, IF EmptyStacks # {} THEN "DIVIDE_BY_ZERO" ELSE "USE_AFTER_FREE"))

(* main opens the message window. *)
Empty == [heap |-> [n \in Node |-> Freed], head |-> Null, focus |-> Null, err |-> "SUCC"]
Init == tree = AddWindow(Empty, MsgWin)

Next ==
  \/ \E dir \in Dir : KeyMoveWindow(dir)
  \/ \E dir \in FocusDir : KeyMoveFocus(dir)
  \/ UseFocused
  \/ KeyRemove
  \/ \E type \in Stack : KeySetStackDir(type)
  \/ KeyToggle
  \/ \E item \in ToSet(Guvs) \cup {MsgWin} : CmdSelect(item)
  \/ \E item \in Dummies : CmdDummy(item)
  \/ \E g \in ToSet(Guvs) : CmdCloseGuv(g)
  \/ CmdCloseFpga
  \/ FpgaHangsUp
  \/ DrawCrash

Spec == Init /\ [][Next]_tree

-----------------------------------------------------------------------------
(* The state holds together: nodes and outcomes are what they should be.   *)
TypeOK ==
  /\ tree \in Trees
  /\ \A n \in Node : tree.heap[n].item # NoItem <=> Type(tree, n) = "LEAF"

(* Every node of the tree is allocated, is below the node it names as its  *)
(* parent and nowhere else, no stack has more than MAX_CHILDREN, or none   *)
(* but at the root, and every field is of its type: the moves that leave a *)
(* node in two places at once, or merge one node into another, always      *)
(* repair it.                                                              *)
TreeShape ==
  Running =>
    /\ TypeOK
    /\ tree.head # Null => Parent(tree, tree.head) = Null
    /\ \A n \in Shown(tree) :
         /\ ~ IsFreed(tree, n)
         /\ Type(tree, n) = "LEAF" => Kids(tree, n) = << >>
         /\ Type(tree, n) # "LEAF" /\ n # tree.head => Kids(tree, n) # << >>
         /\ Len(Kids(tree, n)) <= MaxChildren
         /\ IsInjective(Kids(tree, n))
         /\ \A c \in ToSet(Kids(tree, n)) : Parent(tree, c) = n

(* twm.h: "if a node has a single child, then that single child is a       *)
(* leaf".                                                                  *)
OnlyChildIsLeaf ==
  Running =>
    \A n \in Shown(tree) :
      Len(Kids(tree, n)) = 1 => Type(tree, Kids(tree, n)[1]) = "LEAF"

(* There is a focus as long as there are windows: twm_tree_move_focus and  *)
(* twm_tree_add_window use it on the strength of that, and the former      *)
(* would follow a null pointer.                                            *)
FocusIffWindows == Running => (tree.head = Null <=> tree.focus = Null)

(* No item has two windows, however deep in the tree the first one went:   *)
(* selecting it finds that one.  A dbg_guv that was freed is no item.      *)
NoTwins ==
  Running =>
    \A m, n \in Shown(tree) :
      /\ Type(tree, m) = "LEAF" /\ Type(tree, n) = "LEAF"
      /\ tree.heap[m].item = tree.heap[n].item /\ tree.heap[m].item # Gone
      => m = n

(* A window moved across the tree, or not moved because the stack it would *)
(* go to is full, leaves every window in the tree.                         *)
MovesKeepWindows ==
  [][Items(tree) # Items(tree') /\ tree'.err \in {"SUCC", "FULL_PARENT"}
       => ~ \E dir \in Dir : KeyMoveWindow(dir)]_tree

(* Closing a window, wherever it is and whatever collapses around it,      *)
(* takes no other window away, and takes that one if it reports success.   *)
CloseIsExact ==
  [][\A g \in ToSet(Guvs) : CmdCloseGuv(g) =>
       /\ Items(tree) \ {g} \subseteq Items(tree')
       /\ tree'.err = "SUCC" => g \notin Items(tree')]_tree

-----------------------------------------------------------------------------
(* What the code says of itself and does not keep *)

(* twm.h: the focus "Points to the window that the user is focused on", so *)
(* it is in the tree.                                                      *)
FocusShown == Running => tree.focus \in Shown(tree) \cup {Null}

(* cleanup_fpga_connection: "Close windows".  No window is left showing a  *)
(* dbg_guv that was freed with its connection.                             *)
NoStaleWindow == Running => \A n \in HeldByTree(tree) : tree.heap[n].item # Gone

(* twm_tree_remove_focused: "We have found a suitable node to focus on".   *)
FocusNotFreed == tree.err # "USE_AFTER_FREE"

(* The states before either of the first two goes wrong. *)
Intact == FocusShown /\ NoStaleWindow

(* The program up to the first state where the focus is on no node of the  *)
(* tree.  A run with the constraint Intact stops there, or earlier.        *)
UntilLost == Init /\ [][FocusShown /\ Next]_tree
=============================================================================
