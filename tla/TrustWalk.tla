----------------------------- MODULE TrustWalk -----------------------------
(***************************************************************************)
(* The walk of Trust as a machine, a turn of the loop a step, over every   *)
(* bundle a token may carry and every store a caller may give it.          *)
(***************************************************************************)
EXTENDS Trust, FiniteSets

CONSTANTS
    Certs,       \* the certificates there are
    Leaves,      \* those that sign tokens
    Moments,     \* what a token's genTime may be
    MaxPool,     \* bound on the certificates a token carries besides the leaf
    MaxAnchors   \* bound on the anchors a caller gives

ASSUME WalkAssumption ==
    /\ Leaves \subseteq Certs \cup {NoCert} /\ NoCert \notin Certs
    /\ Moments \subseteq Int /\ MaxPool \in Nat /\ MaxAnchors \in Nat

VARIABLES
    leaf, pool, anchors, moment,  \* what evaluate() is given
    walk                          \* the path so far, and the verdict

given == <<leaf, pool, anchors, moment>>
vars  == <<given, walk>>

Bundles(bound) == UNION { { s \in [1..n -> Certs] : IsInjective(s) } : n \in 0..bound }

\* load_store() fills the store, as the pool is filled.
Init ==
    /\ leaf \in Leaves /\ moment \in Moments
    /\ \E carried \in Bundles(MaxPool) :
          pool = IF leaf = NoCert THEN carried ELSE <<leaf>> \o carried
    /\ \E loaded \in Bundles(MaxAnchors) : anchors = ByKey(loaded)
    /\ walk = Start(leaf, anchors)

Turn ==
    /\ walk.state = "walking"
    /\ walk' = Step(walk, pool, anchors, moment)
    /\ UNCHANGED given

Next == Turn
Spec == Init /\ [][Next]_vars

---------------------------------------------------------------------------
(* Properties *)

Links(path) == { k \in 1..(Len(path) - 1) :
                    /\ path[k].issuer = path[k + 1].name
                    /\ SignatureOk(path[k], path[k + 1]) }

\* A certification path in the sense of the standard the module cites: signed from
\* link to link, valid at the moment throughout, every issuer an authority, and no
\* more authorities under one than it allows.
IsPath(path, at) ==
    /\ Links(path) = 1..(Len(path) - 1)
    /\ \A k \in DOMAIN path : ValidAt(path[k], at)
    /\ \A k \in 2..Len(path) : /\ path[k].ca /\ path[k].signsCerts
                               /\ Cardinality({ j \in 2..(k - 1) : path[j].ca }) <= path[k].pathLen

AnchorKeys == { anchors[k].key : k \in DOMAIN anchors }

\* A verdict of "trusted" is backed by a path from a time-stamping leaf to a key of
\* the store that visits no key twice and stops at the first anchor.
TrustedHasAPath ==
    walk.state = "trusted" =>
        /\ walk.path[1] = leaf /\ leaf.stamping /\ IsPath(walk.path, moment)
        /\ Len(walk.path) <= MaxPathLength
        /\ Cardinality({ walk.path[k].key : k \in DOMAIN walk.path }) = Len(walk.path)
        /\ \A k \in DOMAIN walk.path : walk.path[k].key \in AnchorKeys <=> k = Len(walk.path)

Held == ToSet(pool) \cup ToSet(anchors)

\* No two certificates in sight share a name or a key.
Unambiguous ==
    \A c, d \in Held : c # d => c.name # d.name /\ c.key # d.key

\* Where names tell the certificates apart, a path that exists is found, whatever
\* the order of the bundle.
PathIsFound ==
    Unambiguous /\ leaf # NoCert /\ leaf.stamping /\ walk.state = "untrusted" =>
        \A n \in 1..MaxPathLength : \A path \in [1..n -> Held] :
            ~ /\ path[1] = leaf /\ IsPath(path, moment)
              /\ path[n].key \in AnchorKeys
              /\ IsInjective(path)

\* An anchor that issued and signed the leaf itself is enough, whichever other
\* anchors the caller gave.
AnchorIsEnough ==
    walk.state = "untrusted" /\ leaf # NoCert =>
        ~ \E k \in DOMAIN anchors :
             /\ leaf.stamping /\ IsPath(<<leaf, anchors[k]>>, moment)
=============================================================================
