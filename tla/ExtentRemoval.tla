--------------------------- MODULE ExtentRemoval ---------------------------
(***************************************************************************)
(* Removal of a range of logical blocks from the tree of ExtentTree:       *)
(* extent_remove_space and the functions under it.  The search path is     *)
(* read once: its headers, positions and slots stay as they were found     *)
(* while the blocks change, and the operators keep that difference.        *)
(***************************************************************************)
EXTENDS ExtentTree

\* What ext_remove_leaf does to one slot: the logical blocks it frees, the
\* slot it leaves, whether the count drops, and a copy of a slot cut in front.
Cut(x, from, to) ==
    IF EndOf(x) - 1 < from
    THEN [free |-> {}, slot |-> x, gone |-> FALSE, front |-> Zero]
    ELSE IF x.lb < from
    THEN [free  |-> from .. EndOf(x) - 1,
          slot  |-> Extent(x.lb, from - x.lb, Unwritten(x), x.pb),
          gone  |-> FALSE, front |-> Zero]
    ELSE IF EndOf(x) - 1 > to
    THEN [free  |-> x.lb .. to,
          slot  |-> Extent(to + 1, EndOf(x) - 1 - to, Unwritten(x), x.pb + (to + 1 - x.lb)),
          gone  |-> FALSE, front |-> x]
    ELSE [free |-> x.lb .. EndOf(x) - 1, slot |-> x, gone |-> TRUE, front |-> Zero]

\* The physical blocks of the blocks L of an extent.
Physical(x, L) == {x.pb + (l - x.lb) : l \in L}

\* ext_remove_idx: drop the index the path holds at level k, free its block.
RemoveIndex(s, p, k) ==
    LET f     == p[k]
        nd    == NodeAt(s, f.blk)
        ents  == IF f.pos = f.n THEN nd.ents
                 ELSE [i \in DOMAIN nd.ents |->
                        IF i < f.pos \/ i > f.n THEN nd.ents[i]
                        ELSE IF i < f.n THEN nd.ents[i + 1] ELSE Zero]
    IN  Given(SetNode(s, f.blk, [nd EXCEPT !.n = f.n - 1, !.ents = ents]), {f.at.pb})

\* ext_remove_leaf, from the path's position on to the first extent past `to`.
\* Slots that go whole stay where they are while the count drops, and after a
\* cut in front the slots from the path's position on are copied to the first.
RemoveLeaf(c, from, to) ==
    LET s     == c.s
        d     == Len(c.p)
        leaf  == c.p[d]
        nd    == NodeAt(s, leaf.blk)
        hit   == {i \in leaf.pos .. leaf.n : \A j \in leaf.pos .. i : nd.ents[j].lb <= to}
        cut   == [i \in hit |-> Cut(nd.ents[i], from, to)]
        slots == [i \in DOMAIN nd.ents |-> IF i \in hit THEN cut[i].slot ELSE nd.ents[i]]
        front == {i \in hit : cut[i].front.lb > 0}
        moved == [i \in DOMAIN slots |->
                    IF front # {} /\ i <= leaf.n - leaf.pos + 1
                    THEN slots[leaf.pos + i - 1] ELSE slots[i]]
        count == leaf.n - Cardinality({i \in hit : cut[i].gone})
        freed == UNION {Physical(nd.ents[i], cut[i].free) : i \in hit}
        given == IF freed = {} THEN s ELSE Given(s, freed)
        done  == SetNode(given, leaf.blk, [nd EXCEPT !.n = count, !.ents = moved])
        saved == IF leaf.blk = 0 THEN WrittenBack(done) ELSE done
        \* ext_correct_indexes changes the path's copy of the parent's index only.
        path  == IF leaf.pos = 1 /\ count > 0 /\ d > 1
                 THEN [c.p EXCEPT ![d - 1].at.lb = leaf.at.lb] ELSE c.p
    IN  IF count = 0
        THEN [c EXCEPT !.p = path,
                       !.s = IF leaf.blk = 0 THEN saved ELSE RemoveIndex(saved, path, d - 1)]
        ELSE [c EXCEPT !.s = saved,
                       !.p = IF d > 1 THEN [path EXCEPT ![d - 1].pos = @ + 1] ELSE path]

\* more_to_rm compares with the last index of the node, which for the root it
\* reads from block 0 of the device, zero at that place.
MoreToRemove(s, f, to) ==
    LET last == IF f.blk = 0 THEN 0 ELSE s.node[f.blk].ents[f.n].lb
    IN  /\ f.n # 1 /\ f.pos <= f.n
        /\ f.at.lb <= last /\ f.at.lb <= to

\* The range of the leaf the path found.
RemoveInLeaf(c, from, to) ==
    LET leaf  == Last(c.p)
        ents  == NodeAt(c.s, leaf.blk).ents
        least == ents[1].lb
        most  == EndOf(ents[leaf.n]) - 1
    IN  RemoveLeaf(c, IF least < from THEN from ELSE least, IF most > to THEN to ELSE most)

\* The loop of extent_remove_space, at level c.i of the path.
RemoveLoop(s, p, from, to) ==
    LET Pass(c, k) ==
          IF c.i = 0 THEN c
          ELSE IF c.i = Len(p) THEN [RemoveInLeaf(c, from, to) EXCEPT !.i = c.i - 1]
          ELSE IF MoreToRemove(c.s, c.p[c.i], to) THEN [c EXCEPT !.i = @ + 1]
          ELSE [c EXCEPT !.i = @ - 1]
        End(c) == IF c.i = 0 THEN c.s ELSE Failed(c.s, "hang")
    IN  End(FoldLeft(Pass, [s |-> s, p |-> p, i |-> Len(p)], [k \in 1 .. LoopBound |-> k]))

\* Strictly inside one extent: free the middle, shrink it to the head, insert
\* the tail, in that order.
RemoveInside(s, p, from, to) ==
    LET leaf == Last(p)
        x    == leaf.at
        head == Extent(x.lb, from - x.lb, Unwritten(x), x.pb)
        tail == Extent(to + 1, EndOf(x) - 1 - to, Unwritten(x), x.pb + (to + 1 - x.lb))
        cut  == SetNode(Given(s, Physical(x, from .. to)), leaf.blk,
                        [NodeAt(s, leaf.blk) EXCEPT !.ents[leaf.pos] = head])
    IN  Then(InsertExtent(cut, tail), WrittenBack)

\* Slots past the count are not read by a later call.
Trimmed(nd) == [nd EXCEPT !.ents = SubSeq(@, 1, nd.n)]
Tidy(s) == [s EXCEPT !.mem.root = Trimmed(@), !.ino.root = Trimmed(@),
                     !.node = [b \in DOMAIN @ |-> Trimmed(@[b])]]

\* The search finds no extent in an empty leaf, and unwrap() panics.
RemoveAlong(s, p, from, to) ==
    LET x == Last(p).at
    IN  IF ~Found(p) THEN Failed(s, "ENOENT")
        ELSE IF Last(p).n = 0 THEN Failed(s, "panic")
        ELSE IF x.lb < from /\ to < EndOf(x) - 1 THEN RemoveInside(s, p, from, to)
        ELSE Tidy(RemoveLoop(s, p, from, to))

RemoveSpace(s, from, to) == RemoveAlong(s, PathTo(s, from), from, to)

=============================================================================
