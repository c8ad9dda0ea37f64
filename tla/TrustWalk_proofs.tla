------------------------- MODULE TrustWalk_proofs --------------------------
(***************************************************************************)
(* Theorems about TrustWalk, whatever the certificates a token carries,    *)
(* the anchors a caller gives and the order of both: a verdict of trusted  *)
(* has a path behind it, and where names and keys tell the certificates    *)
(* apart a path that exists is found.                                      *)
(***************************************************************************)
EXTENDS TrustWalk, TLAPS, FiniteSetTheorems, SequenceTheorems, WellFoundedInduction

----------------------------------------------------------------------------
(* Positions.                                                              *)

\* A set of positions has a first one.
LEMMA FirstExists ==
  ASSUME NEW S, S \subseteq Nat, S # {}
  PROVE  \E m \in S : \A n \in S : m <= n
<1>1. PICK m \in S : \A n \in S : ~ (<<n, m>> \in OpToRel(<, Nat))
  BY NatLessThanWellFounded, WFMin
<1>2. OpToRel(<, Nat) = { pair \in Nat \X Nat : pair[1] < pair[2] }
  BY DEF OpToRel
<1>3. ASSUME NEW n \in S PROVE m <= n
  <2>1. <<n, m>> \in Nat \X Nat /\ ~ (n < m)
    BY <1>1, <1>2
  <2> QED
    BY <2>1
<1> QED
  BY <1>3

\* A set of positions in a sequence has a last one.
LEMMA LastExists ==
  ASSUME NEW N \in Nat, NEW S, S \subseteq 1..N, S # {}
  PROVE  \E m \in S : \A n \in S : n <= m
<1> DEFINE D == { N - k : k \in S }
<1>1. D \subseteq Nat /\ D # {}
  <2>1. \A k \in S : N - k \in Nat
    OBVIOUS
  <2> QED
    BY <2>1
<1>2. PICK d \in D : \A e \in D : d <= e
  BY <1>1, FirstExists
<1>3. PICK m \in S : d = N - m
  OBVIOUS
<1>4. \A n \in S : n \in Nat /\ d <= N - n
  BY <1>2
<1>5. \A n \in S : n <= m
  BY <1>3, <1>4
<1> QED
  BY <1>5


---------------------------------------------------------------------------
(* The dict: ByKey.                                                        *)

\* A set of positions has a first, and a set of positions of a sequence a last.
LEMMA LastKeyThere ==
  ASSUME NEW S, NEW certs \in Seq(S), NEW k \in DOMAIN certs
  PROVE  LET last == LastWithKey(certs, certs[k].key)
         IN  last \in DOMAIN certs /\ certs[last].key = certs[k].key
<1> DEFINE same == { j \in DOMAIN certs : certs[j].key = certs[k].key }
<1>1. same \subseteq 1..Len(certs) /\ same # {} /\ Len(certs) \in Nat
  OBVIOUS
<1>2. \E m \in same : \A n \in same : n <= m
  BY <1>1, LastExists
<1>3. \E m \in DOMAIN certs : /\ certs[m].key = certs[k].key
                              /\ \A j \in DOMAIN certs : certs[j].key = certs[k].key => j <= m
  BY <1>2
<1> QED
  BY <1>3 DEF LastWithKey

\* Every key of a sequence is at a first position of its own.
LEMMA FirstKeyThere ==
  ASSUME NEW S, NEW certs \in Seq(S), NEW k \in DOMAIN certs
  PROVE  \E f \in FirstsByKey(certs) : certs[f].key = certs[k].key
<1> DEFINE same == { j \in DOMAIN certs : certs[j].key = certs[k].key }
<1>1. same \subseteq Nat /\ same # {}
  OBVIOUS
<1>2. PICK f \in same : \A n \in same : f <= n
  BY <1>1, FirstExists
<1>3. ASSUME NEW j \in 1..(f - 1) PROVE certs[j].key # certs[f].key
  <2>1. j \in DOMAIN certs /\ ~ (f <= j)
    OBVIOUS
  <2> QED
    BY <1>2, <2>1
<1> QED
  BY <1>2, <1>3 DEF FirstsByKey

\* Place numbers a finite set of positions from 1 to its cardinality.
LEMMA Places ==
  ASSUME NEW N \in Nat, NEW firsts, firsts \subseteq 1..N
  PROVE  /\ Cardinality(firsts) \in Nat
         /\ \A k \in firsts : Place(firsts, k) \in 1..Cardinality(firsts)
         /\ \A j, k \in firsts : Place(firsts, j) = Place(firsts, k) => j = k
         /\ \A n \in 1..Cardinality(firsts) : \E k \in firsts : Place(firsts, k) = n
<1> DEFINE upTo(k) == { j \in firsts : j <= k }
           C == Cardinality(firsts)
           place == [k \in firsts |-> Place(firsts, k)]
<1>1. IsFiniteSet(firsts) /\ C \in Nat
  <2>1. IsFiniteSet(1..N) /\ firsts \in SUBSET (1..N)
    BY FS_Interval
  <2>2. IsFiniteSet(firsts)
    BY <2>1, FS_Subset
  <2> QED
    BY <2>2, FS_CardinalityType
<1>2. ASSUME NEW k \in firsts
      PROVE  IsFiniteSet(upTo(k)) /\ Place(firsts, k) = Cardinality(upTo(k)) /\ Place(firsts, k) \in 1..C
  <2>1. upTo(k) \in SUBSET firsts /\ k \in upTo(k)
    OBVIOUS
  <2>2. IsFiniteSet(upTo(k)) /\ Cardinality(upTo(k)) <= C
    BY <1>1, <2>1, FS_Subset
  <2>3. Cardinality(upTo(k)) \in Nat /\ Cardinality(upTo(k)) # 0
    BY <2>1, <2>2, FS_CardinalityType, FS_EmptySet
  <2> QED
    BY <1>1, <2>2, <2>3 DEF Place
<1>3. ASSUME NEW j \in firsts, NEW k \in firsts, j < k PROVE Place(firsts, j) # Place(firsts, k)
  <2>1. upTo(j) \in SUBSET upTo(k) /\ k \in upTo(k) /\ k \notin upTo(j)
    <3>1. \A i \in firsts : i <= j => i <= k
      BY <1>3
    <3>2. k <= k /\ ~ (k <= j)
      BY <1>3
    <3> QED
      BY <3>1, <3>2
  <2>2. Cardinality(upTo(j)) # Cardinality(upTo(k))
    BY <1>2, <2>1, FS_Subset
  <2> QED
    BY <1>2, <2>2
<1>4. \A j, k \in firsts : Place(firsts, j) = Place(firsts, k) => j = k
  <2> SUFFICES ASSUME NEW j \in firsts, NEW k \in firsts, j # k
               PROVE  Place(firsts, j) # Place(firsts, k)
    OBVIOUS
  <2>1. j < k \/ k < j
    OBVIOUS
  <2> QED
    BY <1>3, <2>1
<1>5. place \in Injection(firsts, 1..C)
  BY <1>2, <1>4 DEF Injection, IsInjective
<1>6. IsFiniteSet(1..C) /\ Cardinality(1..C) = C
  BY <1>1, FS_Interval
<1>7. place \in Surjection(firsts, 1..C)
  BY <1>1, <1>5, <1>6, FS_Injection
<1>8. \A n \in 1..C : \E k \in firsts : Place(firsts, k) = n
  BY <1>7 DEF Surjection
<1> QED
  BY <1>1, <1>2, <1>4, <1>8

\* The dict holds certificates of the sequence, and one for each of its keys.
LEMMA ByKeyHolds ==
  ASSUME NEW S, NEW certs \in Seq(S)
  PROVE  /\ ByKey(certs) \in Seq(S)
         /\ \A n \in DOMAIN ByKey(certs) : ByKey(certs)[n] \in ToSet(certs)
         /\ \A c \in ToSet(certs) : \E n \in DOMAIN ByKey(certs) : ByKey(certs)[n].key = c.key
<1> DEFINE firsts == FirstsByKey(certs)
           At(n)  == CHOOSE k \in firsts : Place(firsts, k) = n
           C      == Cardinality(firsts)
           Holds(n) == certs[LastWithKey(certs, certs[At(n)].key)]
<1>1. Len(certs) \in Nat /\ firsts \subseteq 1..Len(certs) /\ DOMAIN certs = 1..Len(certs)
  BY DEF FirstsByKey
<1>2. ByKey(certs) = [n \in 1..C |-> Holds(n)]
  BY DEF ByKey
<1> HIDE DEF firsts
<1>3. /\ C \in Nat
      /\ \A k \in firsts : Place(firsts, k) \in 1..C
      /\ \A j, k \in firsts : Place(firsts, j) = Place(firsts, k) => j = k
      /\ \A n \in 1..C : \E k \in firsts : Place(firsts, k) = n
  BY <1>1, Places
<1>4. \A n \in 1..C : At(n) \in firsts /\ Place(firsts, At(n)) = n
  BY <1>3
<1> HIDE DEF At
<1>5. ASSUME NEW n \in 1..C PROVE Holds(n) \in ToSet(certs) /\ Holds(n) \in S /\ Holds(n).key = certs[At(n)].key
  <2>1. At(n) \in DOMAIN certs
    BY <1>1, <1>4
  <2>2. /\ LastWithKey(certs, certs[At(n)].key) \in DOMAIN certs
        /\ certs[LastWithKey(certs, certs[At(n)].key)].key = certs[At(n)].key
    BY <2>1, LastKeyThere
  <2> QED
    BY <2>2 DEF ToSet
<1> HIDE DEF Holds
<1>6. ByKey(certs) \in Seq(S) /\ DOMAIN ByKey(certs) = 1..C /\ \A n \in 1..C : ByKey(certs)[n] = Holds(n)
  BY <1>2, <1>3, <1>5
<1>7. ASSUME NEW c \in ToSet(certs) PROVE \E n \in 1..C : ByKey(certs)[n].key = c.key
  <2>1. PICK k \in DOMAIN certs : certs[k] = c
    BY DEF ToSet
  <2>2. PICK f \in firsts : certs[f].key = c.key
    BY <2>1, FirstKeyThere DEF firsts
  <2>3. Place(firsts, f) \in 1..C /\ At(Place(firsts, f)) = f
    BY <1>3, <1>4
  <2> QED
    BY <1>5, <1>6, <2>2, <2>3
<1>8. \A n \in DOMAIN ByKey(certs) : ByKey(certs)[n] \in ToSet(certs)
  BY <1>5, <1>6
<1>9. \A c \in ToSet(certs) : \E n \in DOMAIN ByKey(certs) : ByKey(certs)[n].key = c.key
  <2> HIDE DEF C
  <2> QED
    BY <1>6, <1>7
<1> QED
  BY <1>6, <1>8, <1>9

---------------------------------------------------------------------------
(* The lookup: FindIssuer.                                                 *)

\* What is found has the issuer's name and is among the certificates.
LEMMA IssuerFound ==
  ASSUME NEW S, NEW certs \in Seq(S), NEW cert
  PROVE  LET issuer == FindIssuer(cert, certs)
         IN  \/ issuer = NoCert /\ \A c \in ToSet(certs) : c.name # cert.issuer \/ c = cert
             \/ issuer \in ToSet(certs) /\ issuer.name = cert.issuer /\ issuer # cert
<1> DEFINE named == { k \in DOMAIN certs : certs[k].name = cert.issuer /\ certs[k] # cert }
           Least(k) == \A j \in named : k <= j
<1>1. FindIssuer(cert, certs) = IF named = {} THEN NoCert ELSE certs[CHOOSE k \in named : Least(k)]
  BY DEF FindIssuer
<1>2. CASE named = {}
  BY <1>1, <1>2 DEF ToSet
<1>3. CASE named # {}
  <2>1. named \subseteq Nat
    OBVIOUS
  <2>2. \E k \in named : Least(k)
    BY <1>3, <2>1, FirstExists
  <2>3. (CHOOSE k \in named : Least(k)) \in named
    BY <2>2
  <2>4. PICK k \in named : FindIssuer(cert, certs) = certs[k]
    BY <1>1, <1>3, <2>3
  <2> QED
    BY <2>4 DEF ToSet
<1> QED
  BY <1>2, <1>3

---------------------------------------------------------------------------
(* The inductive invariant.                                                *)

\* What evaluate() is given stays what it is: certificates, none of them None.
GivenInv ==
    /\ leaf \in Certs \cup {NoCert} /\ pool \in Seq(Certs) /\ anchors \in Seq(Certs)
    /\ leaf # NoCert => leaf \in ToSet(pool)
    /\ walk \in [path : Seq(Certs \cup {NoCert}),
                 state : {"unknown", "untrusted", "walking", "trusted"}]

\* The path so far, while there is a verdict to come or when it is "trusted": every
\* certificate but the last was valid and no anchor, is signed by the next, and the next
\* may issue below it.
Going   == walk.state \in {"walking", "trusted"}
Before  == { k \in DOMAIN walk.path : k < Len(walk.path) }
Passed(k) == ValidAt(walk.path[k], moment) /\ ~ ContainsKey(anchors, walk.path[k])
PathInv ==
    Going =>
        /\ walk.path # <<>> /\ walk.path[1] = leaf /\ leaf # NoCert /\ leaf.stamping
        /\ Len(walk.path) <= MaxPathLength
        /\ \A k \in Before : /\ Passed(k)
                             /\ walk.path[k].issuer = walk.path[k + 1].name
                             /\ SignatureOk(walk.path[k], walk.path[k + 1])
                             /\ MayIssue(walk.path[k + 1], k - 1)
        /\ \A j, k \in DOMAIN walk.path : walk.path[j].key = walk.path[k].key => j = k

\* The verdict "trusted" is about the last certificate of the path.
EndInv ==
    walk.state = "trusted" => LET last == walk.path[Len(walk.path)]
                              IN  ValidAt(last, moment) /\ ContainsKey(anchors, last)

\* A path the store could end: what PathIsFound says is found.
EndsWell(path, n) ==
    /\ path \in [1..n -> Held] /\ path[1] = leaf /\ IsPath(path, moment)
    /\ path[n].key \in AnchorKeys /\ IsInjective(path)

\* Where names and keys tell the certificates apart, the walk follows every such path:
\* there can be only one way from a certificate to its issuer.
FollowInv ==
    Unambiguous /\ leaf # NoCert /\ leaf.stamping =>
        \A n \in 1..MaxPathLength : \A path \in [1..n -> Held] : EndsWell(path, n) =>
            /\ walk.state # "untrusted"
            /\ walk.state = "walking" =>
                  Len(walk.path) <= n /\ \A k \in DOMAIN walk.path : walk.path[k] = path[k]

IInv == GivenInv /\ PathInv /\ EndInv /\ FollowInv

---------------------------------------------------------------------------
(* Every turn preserves the invariant.                                     *)

\* The certificates in sight, and that an anchor is one of them.
LEMMA InSight ==
  ASSUME GivenInv
  PROVE  /\ ByKey(pool) \o anchors \in Seq(Certs)
         /\ ToSet(ByKey(pool) \o anchors) \subseteq Held
         /\ Unambiguous => ToSet(ByKey(pool) \o anchors) = Held
         /\ NoCert \notin Held /\ Held \subseteq Certs
<1> DEFINE b == ByKey(pool)
           c == b \o anchors
<1>1. pool \in Seq(Certs) /\ anchors \in Seq(Certs)
  BY DEF GivenInv
<1>2. /\ b \in Seq(Certs) /\ \A n \in DOMAIN b : b[n] \in ToSet(pool)
      /\ \A d \in ToSet(pool) : \E n \in DOMAIN b : b[n].key = d.key
  BY <1>1, ByKeyHolds
<1> HIDE DEF b
<1>3. /\ c \in Seq(Certs) /\ Len(b) \in Nat /\ Len(anchors) \in Nat
      /\ DOMAIN c = 1..(Len(b) + Len(anchors))
      /\ \A n \in 1..Len(b) : n \in DOMAIN c /\ c[n] = b[n]
      /\ \A n \in DOMAIN anchors : n + Len(b) \in DOMAIN c /\ c[n + Len(b)] = anchors[n]
      /\ \A n \in DOMAIN c : n \notin 1..Len(b) => n - Len(b) \in DOMAIN anchors /\ c[n] = anchors[n - Len(b)]
  BY <1>1, <1>2
<1> HIDE DEF c
<1>4. ToSet(c) = ToSet(b) \cup ToSet(anchors)
  <2>1. ASSUME NEW n \in DOMAIN c PROVE c[n] \in ToSet(b) \cup ToSet(anchors)
    BY <1>2, <1>3 DEF ToSet
  <2>2. ASSUME NEW n \in DOMAIN b PROVE b[n] \in ToSet(c)
    BY <1>2, <1>3 DEF ToSet
  <2>3. ASSUME NEW n \in DOMAIN anchors PROVE anchors[n] \in ToSet(c)
    BY <1>3 DEF ToSet
  <2> QED
    BY <2>1, <2>2, <2>3 DEF ToSet
<1>5. ToSet(b) \subseteq ToSet(pool)
  BY <1>2 DEF ToSet
<1>6. ASSUME Unambiguous PROVE ToSet(pool) \subseteq ToSet(b)
  <2> SUFFICES ASSUME NEW d \in ToSet(pool) PROVE d \in ToSet(b)
    OBVIOUS
  <2>1. PICK n \in DOMAIN b : b[n].key = d.key
    BY <1>2
  <2>2. b[n] = d
    BY <1>2, <1>6, <2>1 DEF Unambiguous, Held
  <2> QED
    BY <2>1, <2>2 DEF ToSet
<1>7. ToSet(pool) \subseteq Certs /\ ToSet(anchors) \subseteq Certs
  BY <1>1 DEF ToSet
<1> QED
  BY <1>3, <1>4, <1>5, <1>6, <1>7, WalkAssumption DEF Held, c, b

LEMMA BundleOfCerts == ASSUME NEW bound \in Nat, NEW s \in Bundles(bound) PROVE s \in Seq(Certs)
  BY DEF Bundles

LEMMA InitInv == Init => IInv
<1> SUFFICES ASSUME Init PROVE IInv
  OBVIOUS
<1>1. leaf \in Certs \cup {NoCert} /\ walk = Start(leaf, anchors)
  BY WalkAssumption DEF Init
<1>2. anchors \in Seq(Certs)
  <2>1. PICK loaded \in Bundles(MaxAnchors) : anchors = ByKey(loaded)
    BY DEF Init
  <2> QED
    BY <2>1, BundleOfCerts, ByKeyHolds, WalkAssumption
<1>3. pool \in Seq(Certs) /\ (leaf # NoCert => leaf \in ToSet(pool))
  <2>1. PICK carried \in Bundles(MaxPool) : pool = IF leaf = NoCert THEN carried ELSE <<leaf>> \o carried
    BY DEF Init
  <2>2. carried \in Seq(Certs)
    BY BundleOfCerts, WalkAssumption
  <2>3. CASE leaf = NoCert
    BY <2>1, <2>2, <2>3
  <2>4. CASE leaf # NoCert
    <3>1. pool = <<leaf>> \o carried /\ leaf \in Certs
      BY <1>1, <2>1, <2>4
    <3>2. pool \in Seq(Certs) /\ 1 \in DOMAIN pool /\ pool[1] = leaf
      BY <2>2, <3>1
    <3> QED
      BY <3>2 DEF ToSet
  <2> QED
    BY <2>3, <2>4
<1>4. /\ walk.path = <<leaf>> /\ walk.state \in {"unknown", "untrusted", "walking"}
      /\ walk.state = "walking" => leaf # NoCert /\ leaf.stamping
      /\ walk.state = "untrusted" => leaf = NoCert \/ ~ leaf.stamping
      /\ walk = [path |-> walk.path, state |-> walk.state]
  BY <1>1 DEF Start
<1>5. GivenInv
  <2>1. walk.path \in Seq(Certs \cup {NoCert})
    BY <1>1, <1>4
  <2> QED
    BY <1>1, <1>2, <1>3, <1>4, <2>1 DEF GivenInv
<1>6. PathInv
  <2>1. Len(walk.path) = 1 /\ DOMAIN walk.path = {1} /\ Before = {} /\ walk.path # <<>>
    BY <1>4 DEF Before
  <2> QED
    BY <1>4, <2>1, TrustAssumption DEF PathInv, Going
<1>7. EndInv
  BY <1>4 DEF EndInv
<1>8. FollowInv
  <2>1. Len(walk.path) = 1 /\ DOMAIN walk.path = {1} /\ walk.path[1] = leaf
    BY <1>4
  <2> QED
    BY <1>4, <2>1 DEF FollowInv, EndsWell
<1> QED
  BY <1>5, <1>6, <1>7, <1>8 DEF IInv

\* What the loop does with the last certificate of the path.
Current == walk.path[Len(walk.path)]
Issuer  == FindIssuer(Current, ByKey(pool) \o anchors)
Depth   == Len(walk.path) - 1
Refused == [walk EXCEPT !.state = "untrusted"]
Extends == /\ ValidAt(Current, moment) /\ ~ ContainsKey(anchors, Current)
           /\ Issuer # NoCert /\ SignatureOk(Current, Issuer) /\ MayIssue(Issuer, Depth)
           /\ ~ ContainsKey(walk.path, Issuer)
           /\ walk' = [walk EXCEPT !.path = Append(@, Issuer),
                                   !.state = IF Depth + 1 = MaxPathLength THEN "untrusted" ELSE @]

LEMMA TurnCases ==
  ASSUME Turn
  PROVE  /\ walk.state = "walking" /\ UNCHANGED given
         /\ \/ ~ ValidAt(Current, moment) /\ walk' = Refused
            \/ /\ ValidAt(Current, moment) /\ ContainsKey(anchors, Current)
               /\ walk' = [walk EXCEPT !.state = "trusted"]
            \/ /\ ~ ContainsKey(anchors, Current)
               /\ \/ Issuer = NoCert \/ ~ SignatureOk(Current, Issuer) \/ ~ MayIssue(Issuer, Depth)
                  \/ ContainsKey(walk.path, Issuer)
               /\ walk' = Refused
            \/ Extends
<1>1. walk' = IF ~ ValidAt(Current, moment) THEN Refused
              ELSE IF ContainsKey(anchors, Current) THEN [walk EXCEPT !.state = "trusted"]
              ELSE IF \/ Issuer = NoCert
                      \/ ~ SignatureOk(Current, Issuer)
                      \/ ~ MayIssue(Issuer, Depth)
                      \/ ContainsKey(walk.path, Issuer)
              THEN Refused
              ELSE [walk EXCEPT !.path = Append(@, Issuer),
                                !.state = IF Depth + 1 = MaxPathLength THEN "untrusted" ELSE @]
  BY DEF Turn, Step, Last, Current, Issuer, Depth, Refused
<1>2. walk.state = "walking" /\ UNCHANGED given
  BY DEF Turn
<1> QED
  BY <1>1, <1>2 DEF Extends

\* A longer path: the new certificate issued the old end of it.
LEMMA Extended ==
  ASSUME IInv, Turn, Extends
  PROVE  /\ Issuer \in Held /\ Issuer.name = Current.issuer /\ Issuer # Current
         /\ Len(walk.path) \in Nat \ {0} /\ DOMAIN walk.path = 1..Len(walk.path)
         /\ walk'.path = Append(walk.path, Issuer) /\ walk'.path \in Seq(Certs \cup {NoCert})
         /\ Len(walk'.path) = Len(walk.path) + 1 /\ DOMAIN walk'.path = 1..(Len(walk.path) + 1)
         /\ walk'.path[Len(walk.path) + 1] = Issuer
         /\ \A k \in DOMAIN walk.path : walk'.path[k] = walk.path[k]
         /\ walk'.state = IF Len(walk.path) = MaxPathLength THEN "untrusted" ELSE "walking"
<1>1. /\ walk.path \in Seq(Certs \cup {NoCert}) /\ walk.path # <<>> /\ walk.state = "walking"
      /\ walk = [path |-> walk.path, state |-> walk.state]
  BY TurnCases DEF IInv, GivenInv, PathInv, Going
<1>2. Len(walk.path) \in Nat \ {0} /\ DOMAIN walk.path = 1..Len(walk.path)
  BY <1>1
<1>3. Issuer \in Held /\ Issuer.name = Current.issuer /\ Issuer # Current /\ Issuer \in Certs
  <2>1. ByKey(pool) \o anchors \in Seq(Certs) /\ ToSet(ByKey(pool) \o anchors) \subseteq Held
        /\ Held \subseteq Certs
    BY InSight DEF IInv
  <2>2. Issuer # NoCert
    BY DEF Extends
  <2> QED
    BY <2>1, <2>2, IssuerFound DEF Issuer
<1> HIDE DEF Issuer, Current
<1>4. /\ walk'.path = Append(walk.path, Issuer)
      /\ walk'.state = IF Depth + 1 = MaxPathLength THEN "untrusted" ELSE "walking"
  BY <1>1 DEF Extends
<1>5. Depth + 1 = Len(walk.path)
  BY <1>2 DEF Depth
<1> QED
  BY <1>1, <1>2, <1>3, <1>4, <1>5

LEMMA GivenStep == ASSUME IInv, Turn PROVE GivenInv' /\ UNCHANGED <<leaf, pool, anchors, moment>>
<1>1. UNCHANGED <<leaf, pool, anchors, moment>>
  BY DEF Turn, given
<1>2. walk \in [path : Seq(Certs \cup {NoCert}), state : {"unknown", "untrusted", "walking", "trusted"}]
  BY DEF IInv, GivenInv
<1>3. walk' \in [path : Seq(Certs \cup {NoCert}), state : {"unknown", "untrusted", "walking", "trusted"}]
  <2>1. CASE walk' = Refused \/ walk' = [walk EXCEPT !.state = "trusted"]
    BY <1>2, <2>1 DEF Refused
  <2>2. CASE Extends
    <3>1. walk' = [walk EXCEPT !.path = walk'.path, !.state = walk'.state]
      BY <1>2, <2>2 DEF Extends
    <3>2. walk'.path \in Seq(Certs \cup {NoCert}) /\ walk'.state \in {"untrusted", "walking"}
      BY <2>2, Extended
    <3> QED
      BY <1>2, <3>1, <3>2
  <2> QED
    BY <2>1, <2>2, TurnCases
<1> QED
  BY <1>1, <1>3 DEF IInv, GivenInv

LEMMA PathStep == ASSUME IInv, Turn PROVE PathInv' /\ EndInv'
<1>1. UNCHANGED <<leaf, pool, anchors, moment>>
  BY GivenStep
<1>2. /\ walk.state = "walking" /\ Going
      /\ walk \in [path : Seq(Certs \cup {NoCert}), state : {"unknown", "untrusted", "walking", "trusted"}]
  BY TurnCases DEF IInv, GivenInv, Going
<1>3. CASE walk' = Refused
  <2>1. walk'.state = "untrusted"
    BY <1>2, <1>3 DEF Refused
  <2> QED
    BY <2>1 DEF PathInv, EndInv, Going
<1>4. CASE /\ ValidAt(Current, moment) /\ ContainsKey(anchors, Current)
           /\ walk' = [walk EXCEPT !.state = "trusted"]
  <2>1. walk'.state = "trusted" /\ walk'.path = walk.path
    BY <1>2, <1>4
  <2>2. PathInv'
    BY <1>1, <1>2, <2>1 DEF IInv, PathInv, Going, Before, Passed, ContainsKey
  <2>3. EndInv'
    BY <1>1, <1>4, <2>1 DEF EndInv, Current, ContainsKey
  <2> QED
    BY <2>2, <2>3
<1>5. CASE Extends
  <2> DEFINE L == Len(walk.path)
  <2>1. /\ Issuer.name = Current.issuer /\ L \in Nat \ {0} /\ DOMAIN walk.path = 1..L
        /\ Len(walk'.path) = L + 1 /\ DOMAIN walk'.path = 1..(L + 1)
        /\ walk'.path[L + 1] = Issuer /\ \A k \in 1..L : walk'.path[k] = walk.path[k]
        /\ walk'.state = IF L = MaxPathLength THEN "untrusted" ELSE "walking"
    BY <1>5, Extended
  <2>2. EndInv'
    BY <2>1 DEF EndInv
  <2>3. CASE L = MaxPathLength
    BY <2>1, <2>2, <2>3 DEF PathInv, Going
  <2>4. CASE L # MaxPathLength
    <3>1. /\ walk.path[1] = leaf /\ leaf # NoCert /\ leaf.stamping /\ L <= MaxPathLength
          /\ \A k \in 1..(L - 1) : /\ Passed(k)
                                   /\ walk.path[k].issuer = walk.path[k + 1].name
                                   /\ SignatureOk(walk.path[k], walk.path[k + 1])
                                   /\ MayIssue(walk.path[k + 1], k - 1)
          /\ \A j, k \in 1..L : walk.path[j].key = walk.path[k].key => j = k
      <4>1. Before = 1..(L - 1)
        BY <2>1 DEF Before
      <4> QED
        BY <1>2, <2>1, <4>1 DEF IInv, PathInv
    <3>2. /\ ValidAt(Current, moment) /\ ~ ContainsKey(anchors, Current) /\ SignatureOk(Current, Issuer)
          /\ MayIssue(Issuer, L - 1) /\ \A k \in 1..L : walk.path[k].key # Issuer.key
      BY <1>5, <2>1 DEF Extends, Depth, ContainsKey
    <3>3. Current = walk.path[L]
      BY DEF Current
    <3> HIDE DEF L, Current, Issuer
    <3>4. L + 1 <= MaxPathLength
      BY <2>1, <2>4, <3>1, TrustAssumption
    <3>5. ASSUME NEW k \in 1..L
          PROVE  /\ ValidAt(walk'.path[k], moment) /\ ~ ContainsKey(anchors, walk'.path[k])
                 /\ walk'.path[k].issuer = walk'.path[k + 1].name
                 /\ SignatureOk(walk'.path[k], walk'.path[k + 1])
                 /\ MayIssue(walk'.path[k + 1], k - 1)
      <4>1. CASE k = L
        BY <2>1, <3>2, <3>3, <4>1
      <4>2. CASE k # L
        <5>1. k \in 1..(L - 1) /\ k + 1 \in 1..L
          BY <2>1, <4>2
        <5> QED
          BY <2>1, <3>1, <5>1 DEF Passed
      <4> QED
        BY <4>1, <4>2
    <3>6. \A j, k \in 1..(L + 1) : walk'.path[j].key = walk'.path[k].key => j = k
      <4> SUFFICES ASSUME NEW j \in 1..(L + 1), NEW k \in 1..(L + 1), walk'.path[j].key = walk'.path[k].key
                   PROVE  j = k
        OBVIOUS
      <4>1. CASE j \in 1..L /\ k \in 1..L
        BY <2>1, <3>1, <4>1
      <4>2. CASE j = L + 1 /\ k \in 1..L
        BY <2>1, <3>2, <4>2
      <4>3. CASE j \in 1..L /\ k = L + 1
        BY <2>1, <3>2, <4>3
      <4> QED
        BY <2>1, <4>1, <4>2, <4>3
    <3>7. Before' = 1..L
      BY <2>1 DEF Before
    <3>8. walk'.path # <<>> /\ walk'.path[1] = leaf
      BY <2>1, <3>1
    <3>9. PathInv'
      BY <1>1, <2>1, <3>1, <3>4, <3>5, <3>6, <3>7, <3>8 DEF PathInv, Passed, ContainsKey
    <3> QED
      BY <2>2, <3>9
  <2> QED
    BY <2>3, <2>4
<1> QED
  BY <1>3, <1>4, <1>5, TurnCases

\* A path that ends well goes on from the end of the walk, when that is no anchor, with
\* the one certificate that has the issuer's name.
LEMMA NoOtherWay ==
  ASSUME IInv, Turn, Unambiguous, NEW n \in 1..MaxPathLength, NEW path \in [1..n -> Held], EndsWell(path, n),
         Len(walk.path) <= n, \A k \in DOMAIN walk.path : walk.path[k] = path[k]
  PROVE  /\ ValidAt(Current, moment)
         /\ \/ ContainsKey(anchors, Current)
            \/ /\ Len(walk.path) < n /\ Issuer = path[Len(walk.path) + 1] /\ Issuer # NoCert
               /\ SignatureOk(Current, Issuer) /\ MayIssue(Issuer, Depth)
               /\ ~ ContainsKey(walk.path, Issuer)
<1> DEFINE L == Len(walk.path)
<1>1. n \in Nat /\ DOMAIN path = 1..n /\ Len(path) = n
  <2>1. n \in Nat
    BY TrustAssumption
  <2>2. path \in Seq(Held)
    BY <2>1
  <2> QED
    BY <2>1, <2>2
<1>2. L \in 1..n /\ DOMAIN walk.path = 1..L /\ Current = path[L]
  <2>1. walk.path \in Seq(Certs \cup {NoCert}) /\ walk.path # <<>>
    BY TurnCases DEF IInv, GivenInv, PathInv, Going
  <2>2. L \in Nat \ {0} /\ DOMAIN walk.path = 1..L
    BY <2>1
  <2> QED
    BY <2>2 DEF Current
<1> HIDE DEF L
<1>3. /\ \A k \in 1..n : ValidAt(path[k], moment) /\ path[k] \in Held
      /\ \A k \in 1..(n - 1) : path[k].issuer = path[k + 1].name /\ SignatureOk(path[k], path[k + 1])
      /\ \A k \in 2..n : /\ path[k].ca /\ path[k].signsCerts
                         /\ Cardinality({ j \in 2..(k - 1) : path[j].ca }) <= path[k].pathLen
      /\ path[n].key \in AnchorKeys
      /\ \A j, k \in 1..n : path[j] = path[k] => j = k
  <2>1. Links(path) = 1..(n - 1)
    BY <1>1 DEF EndsWell, IsPath
  <2>2. \A k \in 1..(n - 1) : path[k].issuer = path[k + 1].name /\ SignatureOk(path[k], path[k + 1])
    BY <2>1 DEF Links
  <2> QED
    BY <1>1, <2>2 DEF EndsWell, IsPath, IsInjective
<1>4. ValidAt(Current, moment)
  BY <1>2, <1>3
<1>5. CASE L = n
  <2>1. Current.key \in AnchorKeys
    BY <1>2, <1>3, <1>5
  <2> QED
    BY <1>4, <2>1 DEF AnchorKeys, ContainsKey
<1>6. CASE L < n
  <2> DEFINE next == path[L + 1]
  <2>1. L \in 1..(n - 1) /\ L + 1 \in 2..n /\ L + 1 \in 1..n
    BY <1>1, <1>2, <1>6
  <2>2. next \in Held /\ next.name = Current.issuer /\ next # Current /\ SignatureOk(Current, next)
    <3>1. path[L].issuer = path[L + 1].name /\ SignatureOk(path[L], path[L + 1])
      BY <1>3, <2>1
    <3>2. path[L + 1] # path[L]
      BY <1>3, <2>1
    <3> QED
      BY <1>2, <1>3, <2>1, <3>1, <3>2
  <2>3. Issuer = next /\ Issuer # NoCert
    <3>1. /\ ByKey(pool) \o anchors \in Seq(Certs) /\ ToSet(ByKey(pool) \o anchors) = Held
          /\ NoCert \notin Held
      BY InSight DEF IInv
    <3>2. Issuer \in Held /\ Issuer.name = Current.issuer
      BY <2>2, <3>1, IssuerFound DEF Issuer
    <3> QED
      BY <2>2, <3>1, <3>2 DEF Unambiguous
  <2>4. MayIssue(next, Depth)
    <3>1. { j \in 2..L : path[j].ca } = 2..L
      <4>1. \A j \in 2..L : j \in 2..n
        BY <1>1, <1>2
      <4> QED
        BY <1>3, <4>1
    <3>2. Cardinality(2..L) = L - 1
      BY <1>2, FS_Interval
    <3>3. /\ path[L + 1].ca /\ path[L + 1].signsCerts
          /\ Cardinality({ j \in 2..(L + 1 - 1) : path[j].ca }) <= path[L + 1].pathLen
      BY <1>3, <2>1
    <3>4. L + 1 - 1 = L
      BY <1>2
    <3>5. L - 1 <= path[L + 1].pathLen
      BY <3>1, <3>2, <3>3, <3>4
    <3> QED
      BY <3>3, <3>5 DEF MayIssue, Depth, L
  <2>5. ~ ContainsKey(walk.path, next)
    <3> SUFFICES ASSUME NEW k \in 1..L PROVE walk.path[k].key # next.key
      BY <1>2 DEF ContainsKey
    <3>1. walk.path[k] = path[k] /\ k \in 1..n /\ k # L + 1
      BY <1>2, <2>1
    <3>2. path[k] # next
      BY <1>3, <2>1, <3>1
    <3>3. path[k] \in Held /\ next \in Held
      BY <1>3, <2>2, <3>1
    <3> QED
      BY <3>1, <3>2, <3>3 DEF Unambiguous
  <2> QED
    BY <1>4, <1>6, <2>2, <2>3, <2>4, <2>5 DEF L
<1> QED
  BY <1>1, <1>2, <1>5, <1>6

LEMMA FollowStep == ASSUME IInv, Turn PROVE FollowInv'
<1>1. UNCHANGED <<leaf, pool, anchors, moment>>
  BY GivenStep
<1>2. UNCHANGED <<Held, AnchorKeys>> /\ Unambiguous' = Unambiguous
  BY <1>1 DEF Held, AnchorKeys, Unambiguous
<1>3. \A path, n : EndsWell(path, n)' <=> EndsWell(path, n)
  BY <1>1, <1>2 DEF EndsWell
<1> SUFFICES ASSUME Unambiguous, leaf # NoCert, leaf.stamping,
                    NEW n \in 1..MaxPathLength, NEW path \in [1..n -> Held], EndsWell(path, n)
             PROVE  /\ walk'.state # "untrusted"
                    /\ walk'.state = "walking" =>
                          Len(walk'.path) <= n /\ \A k \in DOMAIN walk'.path : walk'.path[k] = path[k]
  BY <1>1, <1>2, <1>3 DEF FollowInv
<1>4. walk.state = "walking" /\ Len(walk.path) <= n /\ \A k \in DOMAIN walk.path : walk.path[k] = path[k]
  BY TurnCases DEF IInv, FollowInv
<1>5. /\ ValidAt(Current, moment)
      /\ \/ ContainsKey(anchors, Current)
         \/ /\ Len(walk.path) < n /\ Issuer = path[Len(walk.path) + 1] /\ Issuer # NoCert
            /\ SignatureOk(Current, Issuer) /\ MayIssue(Issuer, Depth)
            /\ ~ ContainsKey(walk.path, Issuer)
  BY <1>4, NoOtherWay
<1>6. CASE walk' = [walk EXCEPT !.state = "trusted"]
  <2>1. walk'.state = "trusted"
    BY <1>6 DEF IInv, GivenInv
  <2> QED
    BY <2>1
<1>7. CASE Extends
  <2> DEFINE L == Len(walk.path)
  <2>1. /\ L \in Nat \ {0} /\ DOMAIN walk.path = 1..L
        /\ Len(walk'.path) = L + 1 /\ DOMAIN walk'.path = 1..(L + 1)
        /\ walk'.path[L + 1] = Issuer /\ \A k \in 1..L : walk'.path[k] = walk.path[k]
        /\ walk'.state = IF L = MaxPathLength THEN "untrusted" ELSE "walking"
    BY <1>7, Extended
  <2>2. L < n /\ Issuer = path[L + 1]
    BY <1>5, <1>7 DEF Extends
  <2> HIDE DEF L, Issuer
  <2>3. L # MaxPathLength /\ L + 1 <= n
    BY <2>1, <2>2, TrustAssumption
  <2>4. \A k \in 1..(L + 1) : walk'.path[k] = path[k]
    BY <1>4, <2>1, <2>2
  <2> QED
    BY <2>1, <2>3, <2>4
<1> QED
  BY <1>5, <1>6, <1>7, TurnCases

LEMMA NextInv == ASSUME IInv, [Next]_vars PROVE IInv'
<1>1. CASE Turn
  BY <1>1, GivenStep, PathStep, FollowStep DEF IInv
<1>2. CASE UNCHANGED vars
  <2>1. UNCHANGED <<leaf, pool, anchors, moment, walk>>
    BY <1>2 DEF vars, given
  <2>2. GivenInv' /\ PathInv' /\ EndInv'
    BY <2>1 DEF IInv, GivenInv, PathInv, EndInv, Going, Before, Passed
  <2>3. FollowInv'
    BY <2>1 DEF IInv, FollowInv, Unambiguous, EndsWell, Held, AnchorKeys
  <2> QED
    BY <2>2, <2>3 DEF IInv
<1> QED
  BY <1>1, <1>2 DEF Next

---------------------------------------------------------------------------
(* Theorems.                                                               *)

\* The inductive invariant holds after every turn of the loop in evaluate().
THEOREM Invariance == Spec => []IInv
  BY InitInv, NextInv, PTL DEF Spec

\* The invariant gives the path in the sense of the standard: what evaluate() compared with
\* the depth of the walk is the number of authorities below, and what it kept in `seen` the
\* keys of the path.
LEMMA PathOfTheWalk == ASSUME IInv PROVE TrustedHasAPath
<1> SUFFICES ASSUME walk.state = "trusted" PROVE TrustedHasAPath
  BY DEF TrustedHasAPath
<1> DEFINE path == walk.path
           L == Len(path)
<1>1. /\ path[1] = leaf /\ leaf.stamping /\ L <= MaxPathLength
      /\ \A k \in Before : /\ Passed(k)
                           /\ path[k].issuer = path[k + 1].name
                           /\ SignatureOk(path[k], path[k + 1])
                           /\ MayIssue(path[k + 1], k - 1)
      /\ \A j, k \in DOMAIN path : path[j].key = path[k].key => j = k
      /\ path # <<>> /\ path \in Seq(Certs \cup {NoCert})
  BY DEF IInv, GivenInv, PathInv, Going
<1>2. L \in Nat \ {0} /\ DOMAIN path = 1..L
  BY <1>1
<1>3. ValidAt(path[L], moment) /\ ContainsKey(anchors, path[L])
  BY DEF IInv, EndInv
<1>4. Before = 1..(L - 1)
  BY <1>2 DEF Before
<1> HIDE DEF path, L
<1>5. \A k \in 1..(L - 1) : /\ ValidAt(path[k], moment) /\ ~ ContainsKey(anchors, path[k])
                            /\ path[k].issuer = path[k + 1].name
                            /\ SignatureOk(path[k], path[k + 1])
                            /\ MayIssue(path[k + 1], k - 1)
  BY <1>1, <1>4 DEF Passed, path
<1>6. ASSUME NEW k \in 2..L
      PROVE  path[k].ca /\ path[k].signsCerts /\ path[k].pathLen >= k - 2
  <2>1. k - 1 \in 1..(L - 1) /\ (k - 1) + 1 = k /\ (k - 1) - 1 = k - 2
    BY <1>2
  <2> QED
    BY <1>5, <2>1 DEF MayIssue
<1>7. ASSUME NEW k \in 2..L PROVE Cardinality({ j \in 2..(k - 1) : path[j].ca }) <= path[k].pathLen
  <2>1. { j \in 2..(k - 1) : path[j].ca } = 2..(k - 1)
    BY <1>2, <1>6
  <2>2. Cardinality(2..(k - 1)) = k - 2
    BY <1>2, FS_Interval
  <2> QED
    BY <1>6, <2>1, <2>2
<1>8. IsPath(path, moment)
  <2>1. L = Len(path)
    BY DEF L
  <2>2. Links(path) = 1..(L - 1)
    BY <1>5, <2>1 DEF Links
  <2>3. \A k \in 1..L : ValidAt(path[k], moment)
    <3> SUFFICES ASSUME NEW k \in 1..L PROVE ValidAt(path[k], moment)
      OBVIOUS
    <3>1. k = L \/ k \in 1..(L - 1)
      BY <1>2
    <3> QED
      BY <1>3, <1>5, <3>1
  <2>4. DOMAIN path = 1..L
    BY <1>2
  <2> QED
    BY <1>6, <1>7, <2>1, <2>2, <2>3, <2>4 DEF IsPath
<1>9. Cardinality({ path[k].key : k \in DOMAIN path }) = L
  <2> DEFINE T == { path[k].key : k \in 1..L }
             f == [k \in 1..L |-> path[k].key]
  <2>1. f \in Surjection(1..L, T)
    BY DEF Surjection
  <2>2. f \in Injection(1..L, T)
    BY <1>1, <1>2 DEF Injection, IsInjective, path
  <2>3. IsFiniteSet(1..L) /\ Cardinality(1..L) = L
    BY <1>2, FS_Interval
  <2>4. Cardinality(T) = L
    BY <2>1, <2>2, <2>3, FS_Surjection
  <2> QED
    BY <1>2, <2>4
<1>10. \A k \in DOMAIN path : path[k].key \in AnchorKeys <=> k = L
  <2> SUFFICES ASSUME NEW k \in 1..L PROVE path[k].key \in AnchorKeys <=> k = L
    BY <1>2
  <2>1. path[k].key \in AnchorKeys <=> ContainsKey(anchors, path[k])
    BY DEF AnchorKeys, ContainsKey
  <2>2. k = L \/ k \in 1..(L - 1)
    BY <1>2
  <2>3. k \in 1..(L - 1) => k # L
    BY <1>2
  <2> QED
    BY <1>3, <1>5, <2>1, <2>2, <2>3
<1> QED
  BY <1>1, <1>8, <1>9, <1>10 DEF TrustedHasAPath, path, L

\* evaluate() says "trusted" only of a time-stamping certificate with a certification path
\* to a key of the caller's store: signed, valid and authorised from link to link, no longer
\* than MAX_PATH_LENGTH, without a loop and ended by its first anchor, whatever the token
\* carries and in whatever order.
THEOREM TrustIsBacked == Spec => []TrustedHasAPath
  BY Invariance, PathOfTheWalk, PTL

\* evaluate() says "untrusted" of no time-stamping certificate that has such a path, where
\* names and keys tell the certificates in sight apart: the order of the bundle, and what
\* else is in it, cost nothing.
THEOREM PathsAreFound == Spec => []PathIsFound
<1>1. ASSUME IInv, Unambiguous, leaf # NoCert, leaf.stamping, walk.state = "untrusted",
             NEW n \in 1..MaxPathLength, NEW path \in [1..n -> Held]
      PROVE  ~ /\ path[1] = leaf /\ IsPath(path, moment)
               /\ path[n].key \in AnchorKeys
               /\ IsInjective(path)
  BY <1>1 DEF IInv, FollowInv, EndsWell
<1>2. IInv => PathIsFound
  BY <1>1 DEF PathIsFound
<1> QED
  BY <1>2, Invariance, PTL
=============================================================================
