------------------------------- MODULE Merkle -------------------------------
(***************************************************************************)
(* attest/merkle.py: the tree over a log's leaves, the proof that a leaf   *)
(* is at its index, and the proof that a tree extends an older one.        *)
(* A hash is the term it was taken over, so that two are equal exactly     *)
(* when what was hashed is.  A loop of the code that climbs the tree is a  *)
(* function of how often it went round, which is at most the height.       *)
(***************************************************************************)
EXTENDS Naturals, Sequences

LeafHash(data)    == <<"leaf", data>>
NodeHash(l, r)    == <<"node", l, r>>
EmptyRoot         == <<"empty">>

\* The level above: pairs are hashed, and an odd node is promoted unchanged.
Above(level) ==
    [k \in 1..((Len(level) + 1) \div 2) |->
        IF 2 * k <= Len(level) THEN NodeHash(level[2 * k - 1], level[2 * k])
                               ELSE level[2 * k - 1]]

\* The levels from the leaves up, and where the ancestor of a position is on each.
Levels(leaves) ==
    LET level[n \in Nat] == IF n = 0 THEN leaves ELSE Above(level[n - 1])
    IN  level
Halved(position) ==
    LET at[n \in Nat] == IF n = 0 THEN position ELSE at[n - 1] \div 2
    IN  at

\* How often the code halves before it is at the root.
Height(size) == CHOOSE n \in 0..size : /\ Halved(size - 1)[n] = 0
                                       /\ \A k \in 0..(n - 1) : Halved(size - 1)[k] > 0

BuildRoot(leaves) == IF leaves = <<>> THEN EmptyRoot ELSE Levels(leaves)[Height(Len(leaves))][1]

Paired(size) == size - (size % 2)

---------------------------------------------------------------------------
(* Inclusion. *)

\* The sibling of a position, which a promoted node has not.
StepsAt(level, position) ==
    LET onLeft == position % 2 = 0
    IN  IF position >= Paired(Len(level)) THEN <<>>
        ELSE <<[sibling |-> level[IF onLeft THEN position + 2 ELSE position], isRight |-> onLeft]>>

\* The siblings on the way up.
Steps(leaves, index) ==
    LET steps[n \in Nat] ==
            IF n = 0 THEN <<>>
            ELSE steps[n - 1] \o StepsAt(Levels(leaves)[n - 1], Halved(index)[n - 1])
    IN  steps
BuildProof(leaves, index) == Steps(leaves, index)[Height(Len(leaves))]

\* Mutant: the side is what the step says, whatever the position is.
SideAsWritten(step, position) == step.isRight

\* The side a step must be on comes from the position.
Side(step, position) == position % 2 = 0

\* One level of the climb, which consumes a step where the node has a pair.
Climbed(c, position, size) ==
    IF position >= Paired(size) THEN c
    ELSE IF c.steps = <<>> THEN [c EXCEPT !.fits = FALSE]
    ELSE LET step   == Head(c.steps)
             onLeft == Side(step, position)
         IN  [running |-> IF onLeft THEN NodeHash(c.running, step.sibling)
                                    ELSE NodeHash(step.sibling, c.running),
              steps   |-> Tail(c.steps),
              fits    |-> c.fits /\ step.isRight = onLeft]

Climb(leaf, index, proof, size) ==
    LET climb[n \in 0..Height(size)] ==
            IF n = 0 THEN [running |-> leaf, steps |-> proof, fits |-> TRUE]
            ELSE Climbed(climb[n - 1], Halved(index)[n - 1], Halved(size - 1)[n - 1] + 1)
    IN  climb
VerifyProof(leaf, index, proof, root, size) ==
    /\ index \in 0..(size - 1)
    /\ Climb(leaf, index, proof, size)[Height(size)] = [running |-> root, steps |-> <<>>, fits |-> TRUE]

---------------------------------------------------------------------------
(* Consistency. *)

\* The powers of two up to `bound`.
Power[k \in Nat] == IF k = 0 THEN 1 ELSE 2 * Power[k - 1]
PowersTo(bound) == { p \in 1..bound : \E k \in 0..bound : p = Power[k] }

LargestPowerBelow(value) ==
    CHOOSE p \in PowersTo(value - 1) : \A q \in PowersTo(value - 1) : q <= p

\* The nodes that cover the first `old` leaves and those beside them: a part of the log,
\* from one position to another, is split as long as the old log ends inside it.
Parts(size, old) == { part \in (0..size) \X (0..size) : part[1] < old /\ old <= part[2] }
PartRoot(leaves, from, to) == BuildRoot(SubSeq(leaves, from + 1, to))
Subproofs(leaves, old) ==
    LET nodes[part \in Parts(Len(leaves), old)] ==
            LET from  == part[1]
                to    == part[2]
                split == from + LargestPowerBelow(to - from)
            IN  IF old = to THEN IF part = <<0, Len(leaves)>> THEN <<>> ELSE <<PartRoot(leaves, from, to)>>
                ELSE IF old <= split
                THEN Append(nodes[<<from, split>>], PartRoot(leaves, split, to))
                ELSE Append(nodes[<<split, to>>], PartRoot(leaves, from, split))
    IN  nodes
Subproof(leaves, old) == Subproofs(leaves, old)[<<0, Len(leaves)>>]

\* Mutant: the old root is left at the head of the proof.
CarriesOldRoot(leaves, old) == Subproof(leaves, old)

\* A complete old tree's root is what the verifier holds, so it is left out.
BuildConsistency(leaves, old) ==
    LET nodes == Subproof(leaves, old)
    IN  IF /\ old \in PowersTo(old) /\ old < Len(leaves)
           /\ nodes # <<>> /\ Head(nodes) = BuildRoot(SubSeq(leaves, 1, old))
        THEN Tail(nodes) ELSE nodes

\* One level of the two right borders: a sibling on the left belongs to both trees, one on
\* the right only to the new one.
Rebuilt(c, node, last) ==
    IF node % 2 = 0 /\ node >= last THEN c
    ELSE IF c.nodes = <<>> THEN [c EXCEPT !.fits = FALSE]
    ELSE IF node % 2 = 1
    THEN [c EXCEPT !.old = NodeHash(Head(c.nodes), @), !.new = NodeHash(Head(c.nodes), @),
                   !.nodes = Tail(@)]
    ELSE [c EXCEPT !.new = NodeHash(@, Head(c.nodes)), !.nodes = Tail(@)]

\* The level of the last node that the two trees share, which is where the rebuilding of
\* both roots starts.
Border(size) == CHOOSE n \in 0..size : /\ Halved(size - 1)[n] % 2 = 0
                                       /\ \A k \in 0..(n - 1) : Halved(size - 1)[k] % 2 = 1
Rebuild(start, oldSize, newSize) ==
    LET rebuild[n \in 0..Height(newSize)] ==
            IF n <= Border(oldSize) THEN start
            ELSE Rebuilt(rebuild[n - 1], Halved(oldSize - 1)[n - 1], Halved(newSize - 1)[n - 1])
    IN  rebuild

VerifyConsistency(roots, oldSize, newSize, proof) ==
    /\ oldSize > 0 /\ oldSize <= newSize
    /\ IF oldSize = newSize THEN roots.old = roots.new /\ proof = <<>>
       ELSE LET carried == Halved(oldSize - 1)[Border(oldSize)] > 0
                seed    == IF carried THEN Head(proof) ELSE roots.old
                start   == [old |-> seed, new |-> seed, fits |-> TRUE,
                            nodes |-> IF carried THEN Tail(proof) ELSE proof]
            IN  /\ carried => proof # <<>>
                /\ Rebuild(start, oldSize, newSize)[Height(newSize)] =
                      [old |-> roots.old, new |-> roots.new, fits |-> TRUE, nodes |-> <<>>]
=============================================================================
