------------------------------- MODULE RBTree -------------------------------
(***************************************************************************)
(* The red-black run queue of src/src/sched_cfs.c.  The TCB fields         *)
(* rb_parent, rb_left, rb_right and rb_color and the globals rb_root,      *)
(* rb_leftmost and count of g_cfs_state are one record                     *)
(*                                                                         *)
(*   T = [p, ch, c, root, lm, n]                                           *)
(*                                                                         *)
(* with ch["L"] = rb_left and ch["R"] = rb_right, and the key of a node is *)
(* its vruntime.  Every pointer routine of the file is an operator from T  *)
(* to T; the mirrored halves of the code (rotate left / right, the two     *)
(* arms of each fix-up loop) are one operator with a direction argument d, *)
(* the side the code names first.                                          *)
(***************************************************************************)
EXTENDS Integers, Sequences, SequencesExt, FiniteSets

CONSTANTS
  Nodes,   \* TCBs that can be linked into the tree
  None,    \* NULL
  Keys     \* the vruntime values a node may carry

ASSUME None \notin Nodes /\ Keys \subseteq Nat

Ptr == Nodes \cup {None}
Dirs == {"L", "R"}
Other(d) == IF d = "L" THEN "R" ELSE "L"

\* g_cfs_state after cfs_init(): every link NULL, count 0
EmptyTree ==
  [p |-> [x \in Nodes |-> None],
   ch |-> [d \in Dirs |-> [x \in Nodes |-> None]],
   c |-> [x \in Nodes |-> "BLACK"],
   root |-> None, lm |-> None, n |-> 0]

IsBlack(T, x) == x = None \/ T.c[x] = "BLACK"

\* the root made black, as each fix-up ends
BlackenRoot(T) == [T EXCEPT !.c[T.root] = "BLACK"]

-----------------------------------------------------------------------------
(***************************************************************************)
(* Relink(T, up, u, v): make v take u's place below up (the root when up   *)
(* is NULL) -- the parent fix shared by the rotations and rb_transplant.   *)
(***************************************************************************)
Relink(T, up, u, v) ==
  IF up = None THEN [T EXCEPT !.root = v]
  ELSE IF u = T.ch["L"][up] THEN [T EXCEPT !.ch["L"][up] = v]
  ELSE [T EXCEPT !.ch["R"][up] = v]

\* mutant: the subtree b moves to x without its rb_parent being updated
RotateNoChildParent(T, d, x) ==
  LET e  == Other(d)
      y  == T.ch[e][x]
      T1 == [T EXCEPT !.ch[e][x] = T.ch[d][y]]
      T2 == Relink([T1 EXCEPT !.p[y] = T.p[x]], T.p[x], x, y)
  IN  [T2 EXCEPT !.ch[d][y] = x, !.p[x] = y]

\* rb_rotate_left is Rotate(T, "L", x), rb_rotate_right Rotate(T, "R", x):
\* the child y on the other side rises and x becomes its d-child.
Rotate(T, d, x) ==
  LET e  == Other(d)
      y  == T.ch[e][x]
      b  == T.ch[d][y]
      T1 == [T EXCEPT !.ch[e][x] = b,
                      !.p = IF b # None THEN [@ EXCEPT ![b] = x] ELSE @]
      T2 == Relink([T1 EXCEPT !.p[y] = T.p[x]], T.p[x], x, y)
  IN  [T2 EXCEPT !.ch[d][y] = x, !.p[x] = y]

\* rb_transplant
Transplant(T, u, v) ==
  LET T1 == Relink(T, T.p[u], u, v)
  IN  IF v # None THEN [T1 EXCEPT !.p[v] = T.p[u]] ELSE T1

\* rb_minimum
RECURSIVE Minimum(_, _)
Minimum(T, x) == IF T.ch["L"][x] = None THEN x ELSE Minimum(T, T.ch["L"][x])

-----------------------------------------------------------------------------
(***************************************************************************)
(* rb_insert_fixup: while z's parent is red, recolour when the uncle is    *)
(* red and climb to the grandparent, else rotate an inner z outwards and   *)
(* rotate the grandparent the other way; finally blacken the root.  d is   *)
(* the side of the grandparent the parent hangs on.                        *)
(***************************************************************************)
RECURSIVE InsertFixup(_, _), InsertOuter(_, _, _)
\* the outer-child case: z1 (after the inner rotation) hangs on side d of
\* its parent, which is on side d of the grandparent.  A record computed
\* by a rotation is handed on as an argument, not named by LET, so that
\* TLC's profiler expands the rotation once.
InsertOuter(T1, z1, d) ==
  LET p1 == T1.p[z1]
      g1 == T1.p[p1]
  IN  InsertFixup(Rotate([T1 EXCEPT !.c[p1] = "BLACK", !.c[g1] = "RED"],
                         Other(d), g1), z1)

InsertFixup(T, z) ==
  IF T.p[z] = None \/ T.c[T.p[z]] = "BLACK"
  THEN BlackenRoot(T)
  ELSE LET zp == T.p[z]
           g  == T.p[zp]
           d  == IF zp = T.ch["L"][g] THEN "L" ELSE "R"
           y  == T.ch[Other(d)][g]
       IN  IF y # None /\ T.c[y] = "RED"
           THEN InsertFixup([T EXCEPT !.c[zp] = "BLACK", !.c[y] = "BLACK",
                                      !.c[g] = "RED"], g)
           ELSE IF z = T.ch[Other(d)][zp]
                THEN InsertOuter(Rotate(T, d, zp), zp, d)
                ELSE InsertOuter(T, z, d)

\* mutant: the descent goes left on equal keys too
RECURSIVE InsertionPointLeq(_, _, _, _, _)
InsertionPointLeq(T, vr, t, x, y) ==
  IF x = None THEN y
  ELSE InsertionPointLeq(T, vr, t,
                         IF vr[t] <= vr[x] THEN T.ch["L"][x] ELSE T.ch["R"][x], x)

\* the descent of rb_insert: the last node passed, going left only when
\* the key is strictly smaller, so equal keys go right
RECURSIVE InsertionPoint(_, _, _, _, _)
InsertionPoint(T, vr, t, x, y) ==
  IF x = None THEN y
  ELSE InsertionPoint(T, vr, t,
                      IF vr[t] < vr[x] THEN T.ch["L"][x] ELSE T.ch["R"][x], x)

\* mutant: the leftmost cache also moves to an equal key
RbInsertLeq(T, vr, t) ==
  LET y  == InsertionPoint(T, vr, t, T.root, None)
      T1 == [T EXCEPT !.p[t] = y, !.ch["L"][t] = None, !.ch["R"][t] = None,
                      !.c[t] = "RED"]
      T2 == IF y = None THEN [T1 EXCEPT !.root = t]
            ELSE IF vr[t] < vr[y] THEN [T1 EXCEPT !.ch["L"][y] = t]
            ELSE [T1 EXCEPT !.ch["R"][y] = t]
      T3 == IF T2.lm = None \/ vr[t] <= vr[T2.lm] THEN [T2 EXCEPT !.lm = t]
            ELSE T2
  IN  [InsertFixup(T3, t) EXCEPT !.n = @ + 1]

\* rb_insert: link t as a red leaf below the insertion point, take it as
\* the leftmost when its key is strictly below the cached one, fix up,
\* count it
RbInsert(T, vr, t) ==
  LET y  == InsertionPoint(T, vr, t, T.root, None)
      T1 == [T EXCEPT !.p[t] = y, !.ch["L"][t] = None, !.ch["R"][t] = None,
                      !.c[t] = "RED"]
      T2 == IF y = None THEN [T1 EXCEPT !.root = t]
            ELSE IF vr[t] < vr[y] THEN [T1 EXCEPT !.ch["L"][y] = t]
            ELSE [T1 EXCEPT !.ch["R"][y] = t]
      T3 == IF T2.lm = None \/ vr[t] < vr[T2.lm] THEN [T2 EXCEPT !.lm = t]
            ELSE T2
  IN  [InsertFixup(T3, t) EXCEPT !.n = @ + 1]

-----------------------------------------------------------------------------
(***************************************************************************)
(* rb_remove_fixup(x, x_parent): x carries an extra black.  d is the side  *)
(* of x_parent that x (possibly NULL) is on, w its sibling.  A red w is    *)
(* rotated above x_parent first; then a w with two black children is made  *)
(* red and the extra black climbs, else w's near child is rotated out when *)
(* its far child is black, and the final rotation at x_parent ends the     *)
(* loop with x at the root.  After the loop a non-NULL x is made black.    *)
(***************************************************************************)
\* the last case: w2, x_parent's child on side e, has a red far child;
\* w2 takes x_parent's colour, both turn black, x_parent is rotated
\* towards d and the loop ends with the root made black
RemoveFar(T2, xp, d) ==
  LET e   == Other(d)
      w2  == T2.ch[e][xp]
      far == T2.ch[e][w2]
      T3  == [T2 EXCEPT !.c[w2] = T2.c[xp], !.c[xp] = "BLACK"]
  IN  BlackenRoot(Rotate(IF far # None THEN [T3 EXCEPT !.c[far] = "BLACK"]
                         ELSE T3, d, xp))

RECURSIVE RemoveFixup(_, _, _), RemoveSibling(_, _, _, _)
\* the loop body once w, the sibling on side e, is black: two black
\* children make it red and move the extra black up, else a black far
\* child has the near one rotated out first
RemoveSibling(T1, x, xp, d) ==
  LET e    == Other(d)
      w    == T1.ch[e][xp]
      near == T1.ch[d][w]
  IN  IF w = None \/ (IsBlack(T1, near) /\ IsBlack(T1, T1.ch[e][w]))
      THEN RemoveFixup(IF w # None THEN [T1 EXCEPT !.c[w] = "RED"] ELSE T1,
                       xp, T1.p[xp])
      ELSE IF IsBlack(T1, T1.ch[e][w])
           THEN RemoveFar(Rotate([(IF near # None
                                   THEN [T1 EXCEPT !.c[near] = "BLACK"]
                                   ELSE T1) EXCEPT !.c[w] = "RED"], e, w), xp, d)
           ELSE RemoveFar(T1, xp, d)

RemoveFixup(T, x, xp) ==
  IF x = T.root \/ ~IsBlack(T, x)
  THEN IF x # None THEN [T EXCEPT !.c[x] = "BLACK"] ELSE T
  ELSE LET d  == IF x = T.ch["L"][xp] THEN "L" ELSE "R"
           w0 == T.ch[Other(d)][xp]
       IN  IF w0 # None /\ T.c[w0] = "RED"
           THEN RemoveSibling(Rotate([T EXCEPT !.c[w0] = "BLACK",
                                               !.c[xp] = "RED"], d, xp),
                              x, xp, d)
           ELSE RemoveSibling(T, x, xp, d)

\* the unlinking part of rb_remove: z's place is taken by its only child,
\* or by y, the minimum of its right subtree; returns the new record, x,
\* x_parent and the original colour of the node that left its position
Splice(T, z) ==
  IF T.ch["L"][z] = None \/ T.ch["R"][z] = None
  THEN LET x == IF T.ch["L"][z] = None THEN T.ch["R"][z] ELSE T.ch["L"][z]
       IN  [t |-> Transplant(T, z, x), x |-> x, xp |-> T.p[z], col |-> T.c[z]]
  ELSE LET y  == Minimum(T, T.ch["R"][z])
           x  == T.ch["R"][y]
           T1 == IF T.p[y] = z THEN T
                 ELSE LET U == Transplant(T, y, x)
                      IN  [U EXCEPT !.ch["R"][y] = T.ch["R"][z],
                                    !.p[T.ch["R"][z]] = y]
           T2 == Transplant(T1, z, y)
           T3 == [T2 EXCEPT !.ch["L"][y] = T2.ch["L"][z],
                            !.p[T2.ch["L"][z]] = y,
                            !.c[y] = T2.c[z]]
       IN  [t |-> T3, x |-> x, xp |-> IF T.p[y] = z THEN y ELSE T.p[y],
            col |-> T.c[y]]

\* mutant: rb_remove without its count--
RbRemoveNoCount(T, z) ==
  LET S  == Splice(T, z)
      T2 == IF z = T.lm
            THEN [S.t EXCEPT !.lm = IF S.t.root # None THEN Minimum(S.t, S.t.root)
                                    ELSE None]
            ELSE S.t
      T3 == IF S.col = "BLACK" /\ T2.root # None THEN RemoveFixup(T2, S.x, S.xp)
            ELSE T2
  IN  [T3 EXCEPT !.p[z] = None, !.ch["L"][z] = None, !.ch["R"][z] = None]

\* the rest of rb_remove once Splice has returned S
Unlink(T, z, S) ==
  LET T2 == IF z = T.lm
            THEN [S.t EXCEPT !.lm = IF S.t.root # None THEN Minimum(S.t, S.t.root)
                                    ELSE None]
            ELSE S.t
  IN  [(IF S.col = "BLACK" /\ T2.root # None THEN RemoveFixup(T2, S.x, S.xp)
        ELSE T2) EXCEPT !.p[z] = None, !.ch["L"][z] = None, !.ch["R"][z] = None,
                        !.n = @ - 1]

\* rb_remove: splice z out, recompute the leftmost cache from the new root
\* when z was it, fix up after removing a black position, clear z's links
\* and decrement the count
RbRemove(T, z) == Unlink(T, z, Splice(T, z))

\* the search of cfs_remove: TRUE iff walking down by t's key meets t
RECURSIVE Found(_, _, _, _)
Found(T, vr, t, x) ==
  /\ x # None
  /\ \/ x = t
     \/ Found(T, vr, t, IF vr[t] < vr[x] THEN T.ch["L"][x] ELSE T.ch["R"][x])

\* cfs_remove: rb_remove only when the search finds t
CfsRemove(T, vr, t) == IF Found(T, vr, t, T.root) THEN RbRemove(T, t) ELSE T

\* cfs_dequeue: remove and return the cached leftmost node
CfsDequeue(T) == IF T.lm # None THEN RbRemove(T, T.lm) ELSE T

-----------------------------------------------------------------------------
(***************************************************************************)
(* The queue the tree stands for: its nodes in order, read by an in-order  *)
(* walk that stops after |Nodes| levels so a corrupted, cyclic link        *)
(* structure still gives a finite (and then wrong) answer.                 *)
(***************************************************************************)
RECURSIVE Walk(_, _, _)
Walk(T, x, depth) ==
  IF x = None \/ depth = 0 THEN <<>>
  ELSE Walk(T, T.ch["L"][x], depth - 1) \o <<x>>
         \o Walk(T, T.ch["R"][x], depth - 1)

InOrder(T) == Walk(T, T.root, Cardinality(Nodes))

\* black nodes on every path from x down to NULL, or -1 when two paths differ
RECURSIVE BlackHeight(_, _, _)
BlackHeight(T, x, depth) ==
  IF x = None THEN 1
  ELSE IF depth = 0 THEN -1
  ELSE LET hl == BlackHeight(T, T.ch["L"][x], depth - 1)
           hr == BlackHeight(T, T.ch["R"][x], depth - 1)
       IN  IF hl = -1 \/ hl # hr THEN -1
           ELSE hl + (IF T.c[x] = "BLACK" THEN 1 ELSE 0)

\* every red-black and linkage condition sched_cfs.c relies on: the walk
\* visits count distinct nodes in key order, child and parent links agree,
\* the root is black, no red node has a red child, black heights agree and
\* a node outside the tree has no links
WellFormed(T, vr) ==
  LET q == InOrder(T)
  IN  /\ IsInjective(q) /\ Len(q) = T.n
      /\ \A i \in 1..Len(q) - 1 : vr[q[i]] <= vr[q[i + 1]]
      /\ T.root # None => T.p[T.root] = None /\ T.c[T.root] = "BLACK"
      /\ \A x \in Range(q), d \in Dirs :
           /\ T.ch[d][x] # None => T.p[T.ch[d][x]] = x
           /\ T.c[x] = "RED" => IsBlack(T, T.ch[d][x])
      /\ BlackHeight(T, T.root, Cardinality(Nodes)) # -1
      /\ \A x \in Nodes \ Range(q) :
           T.p[x] = None /\ \A d \in Dirs : T.ch[d][x] = None
====
