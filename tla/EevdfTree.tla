----------------------------- MODULE EevdfTree ------------------------------
(***************************************************************************)
(* The intrusive augmented red-black trees of eevdf_tree.rs: the ready tree*)
(* and the throttled tree of a run queue.  Nodes belong to their tasks and *)
(* carry the links; a tree owns a root and a length.  Every node caches the*)
(* smallest eligibility of its subtree, which steers the search for the    *)
(* earliest deadline that is eligible.                                     *)
(*                                                                         *)
(* The code writes each fixup twice, for left and for right; here the side *)
(* is a parameter.  The state of nodes and trees is one record, so that an *)
(* operation is a composition of the code's pointer updates.               *)
(***************************************************************************)
EXTENDS Integers, FiniteSets, Sequences

CONSTANTS Nodes,     \* the tasks' nodes
          Key,       \* their structural keys (two nodes may share one)
          Times,     \* eligibility instants
          Trees,     \* the trees
          Home,      \* the tree that any node may be inserted into
          Roaming,   \* the nodes that may also be inserted elsewhere
          MaxEarly   \* bound: nodes staged below the last instant at a time

VARIABLE s   \* links of the nodes and roots of the trees

Null == 0
Left == 1
Right == 2
Other(side) == 3 - side
LastTime == CHOOSE t \in Times : \A u \in Times : u <= t
EmptyMin == LastTime + 1
Early(elig) == {n \in Nodes : elig[n] < LastTime}

Blank == [kid |-> <<Null, Null>>, up |-> Null, red |-> FALSE, linked |-> FALSE]

\* EevdfNode::new_unlinked and EevdfTree::new.
Init ==
    s = [node |-> [n \in Nodes |-> Blank],
         elig |-> [n \in Nodes |-> LastTime], min |-> [n \in Nodes |-> LastTime],
         root |-> [t \in Trees |-> Null], len |-> [t \in Trees |-> 0]]

Kid(st, n, side) == st.node[n].kid[side]
Up(st, n) == st.node[n].up
Red(st, n) == n # Null /\ st.node[n].red

SetKid(st, n, side, c) == [st EXCEPT !.node[n].kid[side] = c]
SetUp(st, n, p) == IF n = Null THEN st ELSE [st EXCEPT !.node[n].up = p]
Paint(st, n, red) == IF n = Null THEN st ELSE [st EXCEPT !.node[n].red = red]

Smaller(x, y) == IF x < y THEN x ELSE y
CachedMin(st, n) == IF n = Null THEN EmptyMin ELSE st.min[n]
SideOf(st, p, n) == IF Kid(st, p, Left) = n THEN Left ELSE Right

RECURSIVE Minimum(_, _)
Minimum(st, n) ==
    IF Kid(st, n, Left) = Null THEN n ELSE Minimum(st, Kid(st, n, Left))

Recompute(st, n) ==
    IF n = Null THEN st
    ELSE [st EXCEPT !.min[n] =
             Smaller(st.elig[n], Smaller(CachedMin(st, Kid(st, n, Left)),
                                         CachedMin(st, Kid(st, n, Right))))]

RECURSIVE RecomputeUpwards(_, _)
RecomputeUpwards(st, n) ==
    IF n = Null THEN st ELSE RecomputeUpwards(Recompute(st, n), Up(st, n))

\* Put `new' where `old' hangs from its parent, or at the root of tree t.
Hang(st, t, old, new) ==
    LET p == Up(st, old)
    IN  IF p = Null THEN [st EXCEPT !.root[t] = new]
        ELSE SetKid(st, p, SideOf(st, p, old), new)

\* rotate_left (side Left) and rotate_right (side Right).
Rotate(st, t, x, side) ==
    LET y == Kid(st, x, Other(side))
        inner == Kid(st, y, side)
        a == SetUp(SetKid(st, x, Other(side), inner), inner, x)
        b == SetUp(Hang(a, t, x, y), y, Up(a, x))
        c == SetUp(SetKid(b, y, side, x), x, y)
    IN  Recompute(Recompute(c, x), y)

Transplant(st, t, old, new) == SetUp(Hang(st, t, old, new), new, Up(st, old))

-----------------------------------------------------------------------------
(* Insertion.                                                              *)

RECURSIVE InsertFixup(_, _, _)
InsertFixup(st, t, z) ==
    LET p == Up(st, z)
        g == Up(st, p)
        side == SideOf(st, g, p)
        uncle == Kid(st, g, Other(side))
        inner == z = Kid(st, p, Other(side))
        turned == IF inner THEN Rotate(st, t, p, side) ELSE st
        low == IF inner THEN p ELSE z
        mid == Up(turned, low)
        top == Up(turned, mid)
    IN  IF p = Null \/ ~Red(st, p) THEN Paint(st, st.root[t], FALSE)
        ELSE IF Red(st, uncle)
        THEN InsertFixup(Paint(Paint(Paint(st, p, FALSE), uncle, FALSE), g, TRUE),
                         t, g)
        ELSE InsertFixup(Rotate(Paint(Paint(turned, mid, FALSE), top, TRUE),
                                t, top, Other(side)), t, low)

\* The descent: the parent a new key hangs from, or the node that has the key.
RECURSIVE Descend(_, _, _, _)
Descend(st, k, cursor, parent) ==
    IF cursor = Null THEN [at |-> parent, same |-> Null]
    ELSE IF k = Key[cursor] THEN [at |-> parent, same |-> cursor]
    ELSE Descend(st, k, Kid(st, cursor, IF k < Key[cursor] THEN Left ELSE Right),
                 cursor)

Link(st, t, n, p) ==
    LET fresh == [kid |-> <<Null, Null>>, up |-> p, red |-> TRUE, linked |-> TRUE]
        a == [st EXCEPT !.node[n] = fresh, !.min[n] = st.elig[n], !.len[t] = @ + 1]
        b == IF p = Null THEN [a EXCEPT !.root[t] = n]
             ELSE SetKid(a, p, IF Key[n] < Key[p] THEN Left ELSE Right, n)
    IN  RecomputeUpwards(InsertFixup(RecomputeUpwards(b, p), t, n), n)

\* stage_unlinked with a new eligibility, then insert; a linked node or a key
\* already present is refused and the staged node stays with the caller.
Insert(t, n, e) ==
    /\ ~s.node[n].linked /\ (t = Home \/ n \in Roaming)
    /\ LET staged == [s EXCEPT !.elig[n] = e, !.min[n] = e]
           spot == Descend(staged, Key[n], staged.root[t], Null)
       IN  /\ Cardinality(Early(staged.elig)) <= MaxEarly
           /\ s' = IF spot.same # Null THEN staged ELSE Link(staged, t, n, spot.at)

-----------------------------------------------------------------------------
(* Removal.                                                                *)

RECURSIVE DeleteFixup(_, _, _, _)
RECURSIVE SiblingBlack(_, _, _, _)

\* The cases below follow those of delete_fixup and its mirror image: a red
\* sibling is rotated away first; a sibling with two black children passes the
\* missing black upwards; otherwise its outer child is made red, and one
\* rotation at the parent ends the repair.
RedSibling(st, t, p, side) ==
    LET w == Kid(st, p, Other(side))
    IN  IF Red(st, w) THEN Rotate(Paint(Paint(st, w, FALSE), p, TRUE), t, p, side)
        ELSE st

KidOf(st, w, side) == IF w = Null THEN Null ELSE Kid(st, w, side)

OuterRed(st, t, w, side) ==
    IF Red(st, KidOf(st, w, Other(side))) THEN st
    ELSE Rotate(Paint(Paint(st, KidOf(st, w, side), FALSE), w, TRUE), t, w, Other(side))

PaintOuter(st, w, p, far) ==
    Paint(Paint(Paint(st, w, Red(st, p)), p, FALSE), Kid(st, w, far), FALSE)

BlackRoot(st, t) == Paint(st, st.root[t], FALSE)

Finish(st, t, p, side) ==
    BlackRoot(Rotate(PaintOuter(st, Kid(st, p, Other(side)), p, Other(side)),
                     t, p, side), t)

SiblingBlack(st, t, p, side) ==
    LET w == Kid(st, p, Other(side))
    IN  IF ~Red(st, KidOf(st, w, Left)) /\ ~Red(st, KidOf(st, w, Right))
        THEN DeleteFixup(Paint(st, w, TRUE), t, p, Up(st, p))
        ELSE Finish(OuterRed(st, t, w, side), t, p, side)

DeleteFixup(st, t, x, p) ==
    IF x = st.root[t] \/ Red(st, x) \/ p = Null THEN Paint(st, x, FALSE)
    ELSE SiblingBlack(RedSibling(st, t, p, SideOf(st, p, x)), t, p, SideOf(st, p, x))

\* The structural part of remove_raw: z is replaced by its only child, or by
\* its successor y, whose own place is taken by y's right child x.
Unhook(st, t, z) ==
    LET l == Kid(st, z, Left)
        r == Kid(st, z, Right)
        y == Minimum(st, r)
        x == Kid(st, y, Right)
        near == Up(st, y) = z
        a == IF near THEN SetUp(st, x, y)
             ELSE SetUp(SetKid(Transplant(st, t, y, x), y, Right, r), r, y)
        b == SetUp(SetKid(Transplant(a, t, z, y), y, Left, l), l, y)
    IN  IF l = Null THEN [st |-> Transplant(st, t, z, r), x |-> r, p |-> Up(st, z),
                          y |-> z, black |-> ~Red(st, z)]
        ELSE IF r = Null THEN [st |-> Transplant(st, t, z, l), x |-> l,
                               p |-> Up(st, z), y |-> z, black |-> ~Red(st, z)]
        ELSE [st |-> Paint(b, y, Red(st, z)), x |-> x,
              p |-> IF near THEN y ELSE Up(st, y), y |-> y, black |-> ~Red(st, y)]

\* Mutation: only the replacement's path is recomputed.
RefreshPaths(st, u) == RecomputeUpwards(st, u.x)

\* The paths through the replacement, its parent and the former successor.
Refresh(st, u) ==
    RecomputeUpwards(RecomputeUpwards(RecomputeUpwards(st, u.x), u.p), u.y)

Rebalanced(st, t, u) ==
    Refresh(IF u.black THEN DeleteFixup(st, t, u.x, u.p) ELSE st, u)
Detached(st, t, z) ==
    [BlackRoot(SetUp(st, st.root[t], Null), t) EXCEPT !.node[z] = Blank, !.min[z] = st.elig[z]]
Removed(u, t, z) ==
    Detached(Rebalanced([u.st EXCEPT !.len[t] = @ - 1], t, u), t, z)
RemoveRaw(st, t, z) == Removed(Unhook(st, t, z), t, z)

\* contains_exact: the key walk must end at this very node.
ContainsExact(st, t, n) ==
    st.node[n].linked /\ Descend(st, Key[n], st.root[t], Null).same = n

RemoveNode(t, n) == ContainsExact(s, t, n) /\ s' = RemoveRaw(s, t, n)

-----------------------------------------------------------------------------
(* Queries.                                                                *)

FrontNode(st, t) == IF st.root[t] = Null THEN Null ELSE Minimum(st, st.root[t])

\* The descent of peek_earliest_eligible and pop_earliest_eligible.
RECURSIVE Eligible(_, _, _)
Eligible(st, cursor, now) ==
    IF cursor = Null \/ st.min[cursor] > now THEN Null
    ELSE IF CachedMin(st, Kid(st, cursor, Left)) <= now
    THEN Eligible(st, Kid(st, cursor, Left), now)
    ELSE IF st.elig[cursor] <= now THEN cursor
    ELSE IF CachedMin(st, Kid(st, cursor, Right)) <= now
    THEN Eligible(st, Kid(st, cursor, Right), now)
    ELSE Null

PopEarliestEligible(t, now) ==
    LET n == Eligible(s, s.root[t], now) IN n # Null /\ s' = RemoveRaw(s, t, n)

RECURSIVE Climb(_, _)
Climb(st, n) ==
    LET p == Up(st, n)
    IN  IF p # Null /\ Kid(st, p, Right) = n THEN Climb(st, p) ELSE p

Successor(st, n) ==
    IF Kid(st, n, Right) # Null THEN Minimum(st, Kid(st, n, Right)) ELSE Climb(st, n)

\* The first node after key k: the lower-bound walk of find_bounded_after.
RECURSIVE After(_, _, _, _)
After(st, k, cursor, best) ==
    IF cursor = Null THEN best
    ELSE IF Key[cursor] > k THEN After(st, k, Kid(st, cursor, Left), cursor)
    ELSE After(st, k, Kid(st, cursor, Right), best)

\* The nodes a bounded scan inspects, in order, from `cursor'.
RECURSIVE Scan(_, _, _)
Scan(st, cursor, limit) ==
    IF cursor = Null \/ limit = 0 THEN <<>>
    ELSE <<cursor>> \o Scan(st, Successor(st, cursor), limit - 1)

FindBounded(st, t, limit) == Scan(st, FrontNode(st, t), limit)
FindBoundedAfter(st, t, k, limit) == Scan(st, After(st, k, st.root[t], Null), limit)

-----------------------------------------------------------------------------
(* Drop: a post-order walk without a stack, told by the node it came from. *)
(* It leaves a node's colour, which no one reads before the next insert.   *)

RECURSIVE DropFrom(_, _, _, _)
DropFrom(st, t, n, prev) ==
    LET p == Up(st, n)
        l == Kid(st, n, Left)
        r == Kid(st, n, Right)
        next == IF prev = p THEN IF l # Null THEN l ELSE r
                ELSE IF prev = l THEN r ELSE Null
        gone == [st EXCEPT !.node[n] = Blank, !.min[n] = st.elig[n],
                           !.len[t] = @ - 1,
                           !.root[t] = IF p = Null THEN Null ELSE @]
    IN  IF n = Null THEN st
        ELSE IF next # Null THEN DropFrom(st, t, next, n)
        ELSE DropFrom(gone, t, p, n)

DropTree(t) == s.root[t] # Null /\ s' = DropFrom(s, t, s.root[t], Null)

Next ==
    \/ \E t \in Trees, n \in Nodes, e \in Times : Insert(t, n, e)
    \/ \E t \in Trees, n \in Nodes : RemoveNode(t, n)
    \/ \E t \in Trees, now \in Times : PopEarliestEligible(t, now)
    \/ \E t \in Trees : DropTree(t)

Spec == Init /\ [][Next]_s

-----------------------------------------------------------------------------
(* Properties.                                                             *)

RECURSIVE Members(_, _)
Members(st, n) ==
    IF n = Null THEN {}
    ELSE {n} \cup Members(st, Kid(st, n, Left)) \cup Members(st, Kid(st, n, Right))

\* Black nodes on every path below n, or -1 when the paths differ.
RECURSIVE BlackHeight(_, _)
BlackHeight(st, n) ==
    IF n = Null THEN 0
    ELSE LET l == BlackHeight(st, Kid(st, n, Left))
             r == BlackHeight(st, Kid(st, n, Right))
         IN  IF l = -1 \/ l # r THEN -1 ELSE l + IF Red(st, n) THEN 0 ELSE 1

Least(S) == IF S = {} THEN Null ELSE CHOOSE n \in S : \A m \in S : Key[n] <= Key[m]
InOrder(S) ==
    [i \in 1 .. Cardinality(S) |->
        CHOOSE n \in S : Cardinality({m \in S : Key[m] < Key[n]}) = i - 1]
Prefix(q, n) == SubSeq(q, 1, IF n < Len(q) THEN n ELSE Len(q))

Sound(t) ==
    LET all == Members(s, s.root[t])
    IN  /\ Cardinality(all) = s.len[t]
        /\ ~Red(s, s.root[t]) /\ BlackHeight(s, s.root[t]) # -1
        /\ \A n \in all :
            /\ s.node[n].linked
            /\ Up(s, n) = Null <=> n = s.root[t]
            /\ \A side \in {Left, Right} :
                LET below == Members(s, Kid(s, n, side))
                IN  /\ Kid(s, n, side) # Null => Up(s, Kid(s, n, side)) = n
                    /\ ~(Red(s, n) /\ Red(s, Kid(s, n, side)))
                    /\ \A m \in below : IF side = Left THEN Key[m] < Key[n]
                                                       ELSE Key[m] > Key[n]
            /\ LET es == {s.elig[m] : m \in Members(s, n)}
               IN  s.min[n] \in es /\ \A e \in es : s.min[n] <= e

Answers(t) ==
    LET all == Members(s, s.root[t])
    IN  /\ FrontNode(s, t) = Least(all)
        /\ \A now \in Times \cup {0} :
            Eligible(s, s.root[t], now) = Least({n \in all : s.elig[n] <= now})
        /\ FindBounded(s, t, 2) = Prefix(InOrder(all), 2)
        /\ \A m \in Nodes :
            FindBoundedAfter(s, t, Key[m], 3)
                = Prefix(InOrder({n \in all : Key[n] > Key[m]}), 3)

\* Every sequence of insert, remove, pop_earliest_eligible and drop leaves each
\* tree a red-black tree in key order, with consistent parent links, length and
\* cached minima; a node is linked exactly when one tree reaches it; and the
\* searches that the cached minima steer give the answers of a linear scan.
TreeOK ==
    /\ \A t \in Trees : Sound(t) /\ Answers(t)
    /\ \A n \in Nodes :
        s.node[n].linked =>
        Cardinality({t \in Trees : n \in Members(s, s.root[t])}) = 1
=============================================================================
