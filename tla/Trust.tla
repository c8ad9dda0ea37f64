------------------------------- MODULE Trust -------------------------------
(***************************************************************************)
(* attest/trust.py: the walk from the certificate that signed a time-stamp *)
(* token to an anchor of the caller's.  The cryptography package is kept   *)
(* to what the walk asks of it: a certificate is a record of the fields    *)
(* the walk reads, and its signature is the key that made it.              *)
(***************************************************************************)
EXTENDS Integers, Sequences, FiniteSets, SequencesExt

CONSTANTS
    MaxPathLength,  \* MAX_PATH_LENGTH, 8 in the code
    CheckableKeys   \* the keys of a type this build can check a signature with

ASSUME TrustAssumption == MaxPathLength \in Nat \ {0}

\* A certificate: whom it names and whose key it carries, who issued it and with
\* which key it was signed, when it is valid, and what it may be used for.  pathLen
\* is NoLimit when basicConstraints sets none.
Cert(name, key, issuer, signedWith) ==
    [name |-> name, key |-> key, issuer |-> issuer, signedWith |-> signedWith,
     from |-> 0, to |-> 9, stamping |-> FALSE, ca |-> TRUE, pathLen |-> 99, signsCerts |-> TRUE]
NoCert == [Cert("none", "none", "none", "none") EXCEPT !.ca = FALSE]

ValidAt(cert, moment) == cert.from <= moment /\ moment <= cert.to

\* A dict filled in order and keyed by public key: a key keeps its first place and
\* its last certificate.  So is the pool, and so is TrustStore.
FirstsByKey(certs) ==
    { k \in DOMAIN certs : \A j \in 1..(k - 1) : certs[j].key # certs[k].key }
Place(firsts, k) == Cardinality({ j \in firsts : j <= k })
LastWithKey(certs, key) ==
    CHOOSE k \in DOMAIN certs : certs[k].key = key
                               /\ \A j \in DOMAIN certs : certs[j].key = key => j <= k
ByKey(certs) ==
    LET firsts == FirstsByKey(certs)
        At(n)  == CHOOSE k \in firsts : Place(firsts, k) = n
    IN  [n \in 1..Cardinality(firsts) |-> certs[LastWithKey(certs, certs[At(n)].key)]]

\* Mutant: an anchor is known by its name.
ContainsName(anchors, cert) == \E k \in DOMAIN anchors : anchors[k].name = cert.name

ContainsKey(anchors, cert) == \E k \in DOMAIN anchors : anchors[k].key = cert.key

\* The first that has the issuer's name and is not the certificate itself.
FindIssuer(cert, certs) ==
    LET named == { k \in DOMAIN certs : certs[k].name = cert.issuer /\ certs[k] # cert }
    IN  IF named = {} THEN NoCert ELSE certs[CHOOSE k \in named : \A j \in named : k <= j]

SignatureOk(cert, issuer) == cert.signedWith = issuer.key /\ issuer.key \in CheckableKeys

\* Mutant: every issuer counts as the first.
MayIssueHere(issuer, depth) == issuer.ca /\ issuer.pathLen >= 0 /\ issuer.signsCerts

\* Mutant: an issuer that allows none below it may not issue a leaf either.
MayIssueStrictly(issuer, depth) == issuer.ca /\ issuer.pathLen > depth /\ issuer.signsCerts

\* depth counts the issuers already between it and the leaf.
MayIssue(issuer, depth) == issuer.ca /\ issuer.pathLen >= depth /\ issuer.signsCerts

\* One turn of the loop over a path that has not been decided yet.
Step(walk, pool, anchors, moment) ==
    LET current == Last(walk.path)
        issuer  == FindIssuer(current, ByKey(pool) \o anchors)
        depth   == Len(walk.path) - 1
        refused == [walk EXCEPT !.state = "untrusted"]
    IN  IF ~ ValidAt(current, moment) THEN refused
        ELSE IF ContainsKey(anchors, current) THEN [walk EXCEPT !.state = "trusted"]
        ELSE IF \/ issuer = NoCert
                \/ ~ SignatureOk(current, issuer)
                \/ ~ MayIssue(issuer, depth)
                \/ ContainsKey(walk.path, issuer)
        THEN refused
        ELSE [walk EXCEPT !.path = Append(@, issuer),
                          !.state = IF depth + 1 = MaxPathLength THEN "untrusted" ELSE @]

\* What there is to say before the walk; anchors is <<>> when no store was given.
Start(leaf, anchors) ==
    [path |-> <<leaf>>,
     state |-> IF anchors = <<>> THEN "unknown"
               ELSE IF leaf = NoCert \/ ~ leaf.stamping THEN "untrusted"
               ELSE "walking"]

\* evaluate(): its verdict, which may need no walk.
Evaluate(leaf, pool, anchors, moment) ==
    LET start == Start(leaf, anchors)
        walk[turn \in 0..MaxPathLength] ==
            IF turn = 0 THEN start
            ELSE LET sofar == walk[turn - 1]
                 IN  IF sofar.state = "walking" THEN Step(sofar, pool, anchors, moment) ELSE sofar
    IN  IF start.state = "walking" THEN walk[MaxPathLength].state ELSE start.state
=============================================================================
