---------------------------- MODULE MCHttpProxy ----------------------------
(* Bounded instances of HttpProxy for TLC. *)
EXTENDS HttpProxy
CONSTANTS p1, p2, p3
TwoPosts   == {p1, p2}
ThreePosts == {p1, p2, p3}
\* An "ask" is a "discover" whose answer leaves no row.
MostKinds  == Kinds \ {"ask"}
JustCalls  == {"call"}
=============================================================================
