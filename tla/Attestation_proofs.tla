------------------------ MODULE Attestation_proofs -------------------------
(***************************************************************************)
(* Theorems about Attestation, whatever the keys, the bodies, the members  *)
(* and the moments: what a caller who asks for our key accepts is what our *)
(* key signed, what was signed in good standing is accepted, an anchor can *)
(* only refuse, and a moment the authority vouches for is one it wrote.    *)
(***************************************************************************)
EXTENDS Attestation, TLAPS, FiniteSetTheorems, SequenceTheorems, WellFoundedInduction

----------------------------------------------------------------------------
(* Positions.                                                              *)

\* A set of positions has a first one.
LEMMA FirstExists ==
  ASSUME NEW S, S \subseteq Nat, S # {}
  PROVE  \E m \in S : \A n \in S : m <= n
<1>1. PICK m \in S : \A n \in S : ~ (<<n, m>> \in OpToRel(<, Nat))
  BY NatLessThanWellFounded, WFMin
<1>2. OpToRel(<, Nat) = { pair \in Nat \X Nat : pair[1] < pair[2] }
  BY DEF OpToRel
<1>3. ASSUME NEW n \in S PROVE m <= n
  <2>1. <<n, m>> \in Nat \X Nat /\ ~ (n < m)
    BY <1>1, <1>2
  <2> QED
    BY <2>1
<1> QED
  BY <1>3


---------------------------------------------------------------------------
(* The verdict on a package for one caller, check by check.                *)

Stamped(p, c) == HasStamp(p, c.store)

\* What the package's own checks say.
Sound(p) ==
    LET row == SigningRow(p)
    IN  /\ FilesMatch(p) /\ p.files["entries"].chained
        /\ p.manifest.head = p.files["entries"] /\ p.manifest.root = p.files["entries"]
        /\ row # NoRow
        /\ \A check \in EnvelopeCheck(p, row) \cup DocumentCheck(p) : check.passed

\* The time anchor is there when one is declared, it fits, and the store can be read.
TimeHolds(p, c) ==
    \/ p.manifest.anchor = "none" /\ Token(p) = Absent
    \/ /\ p.manifest.anchor = "rfc3161" /\ Token(p) # Absent
       /\ Stamped(p, c) /\ c.store # Unread

\* What the checks say in which the caller has a part.
Agreed(p, c) ==
    LET row == SigningRow(p)
    IN  /\ TimeHolds(p, c)
        /\ \A r \in Rows(row, c) : Accepts(r, Moment(p, Stamped(p, c)))
        /\ TrustState(c, row) # "untrusted"
        /\ c.require => TrustState(c, row) = "trusted"

\* The checks a package settles by itself.
LEMMA PackageSettles ==
  ASSUME NEW p
  PROVE  Settled(PackageChecks(p, SigningRow(p))) <=> Sound(p)
<1> DEFINE row == SigningRow(p)
           own == {Check("files_match_manifest", FilesMatch(p)),
                   Check("chain_intact", p.files["entries"].chained),
                   Check("head_matches", p.manifest.head = p.files["entries"]),
                   Check("merkle_root_matches", p.manifest.root = p.files["entries"]),
                   Check("signature_valid", row # NoRow)}
           more == EnvelopeCheck(p, row) \cup DocumentCheck(p)
<1>1. PackageChecks(p, row) = own \cup more
  BY DEF PackageChecks
<1>2. RequiredChecks \subseteq { check.name : check \in own \cup more }
  <2>1. \A name \in RequiredChecks : \E check \in own : name = check.name
    BY DEF RequiredChecks, Check
  <2> QED
    BY <2>1
<1>3. \A check \in own \cup more : check.name \notin AdvisoryChecks
  BY DEF AdvisoryChecks, Check, EnvelopeCheck, DocumentCheck
<1>4. (\A check \in own : check.passed)
      <=> /\ FilesMatch(p) /\ p.files["entries"].chained
          /\ p.manifest.head = p.files["entries"] /\ p.manifest.root = p.files["entries"]
          /\ row # NoRow
  <2>1. Check("files_match_manifest", FilesMatch(p)).passed <=> FilesMatch(p)
    BY DEF Check
  <2>2. Check("chain_intact", p.files["entries"].chained).passed <=> p.files["entries"].chained
    BY DEF Check
  <2>3. Check("head_matches", p.manifest.head = p.files["entries"]).passed
        <=> p.manifest.head = p.files["entries"]
    BY DEF Check
  <2>4. Check("merkle_root_matches", p.manifest.root = p.files["entries"]).passed
        <=> p.manifest.root = p.files["entries"]
    BY DEF Check
  <2>5. Check("signature_valid", row # NoRow).passed <=> row # NoRow
    BY DEF Check
  <2> HIDE DEF row
  <2> QED
    BY <2>1, <2>2, <2>3, <2>4, <2>5, Zenon
<1> HIDE DEF own, more
<1>5. Settled(own \cup more) <=> (\A check \in own : check.passed) /\ (\A check \in more : check.passed)
  BY <1>2, <1>3 DEF Settled
<1> QED
  BY <1>1, <1>4, <1>5 DEF Sound, more

\* A check by any name passes when what it checks holds.
LEMMA Passed == ASSUME NEW name, NEW holds PROVE Check(name, holds).passed = holds
BY DEF Check

\* The time-stamp's checks.
LEMMA TimeSettles ==
  ASSUME NEW p, NEW c
  PROVE  (\A check \in TimeCheck(p, c, Stamped(p, c)) : check.passed) <=> TimeHolds(p, c)
<1> DEFINE stamp == Check("timestamp_matches_manifest", Stamped(p, c))
           store == Check("tsa_trust_store_loaded", c.store # Unread)
           never == Check("timestamp_matches_manifest", FALSE)
<1>1. ~ never.passed /\ (stamp.passed <=> Stamped(p, c)) /\ (store.passed <=> c.store # Unread)
  <2>1. ~ never.passed
    BY DEF Check
  <2>2. stamp.passed <=> Stamped(p, c)
    BY DEF Check
  <2>3. store.passed <=> c.store # Unread
    BY DEF Check
  <2> QED
    BY <2>1, <2>2, <2>3
<1>2. CASE p.manifest.anchor = "none" /\ Token(p) = Absent
  BY <1>2 DEF TimeCheck, TimeHolds
<1>3. CASE /\ ~ (p.manifest.anchor = "none" /\ Token(p) = Absent)
           /\ p.manifest.anchor # "rfc3161" \/ Token(p) = Absent
  <2>1. TimeCheck(p, c, Stamped(p, c)) = {never}
    BY <1>3 DEF TimeCheck
  <2> QED
    BY <1>1, <1>3, <2>1 DEF TimeHolds
<1>4. CASE p.manifest.anchor = "rfc3161" /\ Token(p) # Absent
  <2>1. TimeCheck(p, c, Stamped(p, c)) = {stamp} \cup (IF c.store = Absent THEN {} ELSE {store})
    BY <1>4 DEF TimeCheck
  <2>2. (\A check \in TimeCheck(p, c, Stamped(p, c)) : check.passed)
        <=> stamp.passed /\ (c.store # Absent => store.passed)
    <3> HIDE DEF stamp, store
    <3> QED
      BY <2>1
  <2>3. TimeHolds(p, c) <=> Stamped(p, c) /\ c.store # Unread
    BY <1>4 DEF TimeHolds
  <2>4. c.store = Absent => c.store # Unread
    BY TimeStampAssumption
  <2> HIDE DEF stamp, store, TimeCheck, TimeHolds, Stamped
  <2> QED
    BY <1>1, <2>2, <2>3, <2>4
<1> QED
  BY <1>2, <1>3, <1>4

\* The checks in which the caller has a part.
LEMMA CallerSettles ==
  ASSUME NEW p, NEW c, Sound(p)
  PROVE  LET row == SigningRow(p)
         IN  Settled(PackageChecks(p, row) \cup CallerChecks(p, c, row, Stamped(p, c)))
             <=> /\ TimeHolds(p, c)
                 /\ \A r \in Rows(row, c) : Accepts(r, Moment(p, Stamped(p, c)))
<1> DEFINE row   == SigningRow(p)
           given == PackageChecks(p, row)
           trust == Check("key_trusted", TrustState(c, row) = "trusted")
           time  == TimeCheck(p, c, Stamped(p, c))
           holds == \A r \in Rows(row, c) : Accepts(r, Moment(p, Stamped(p, c)))
           valid == Check("signing_key_in_validity", holds)
<1>1. CallerChecks(p, c, row, Stamped(p, c)) = {trust} \cup time \cup {valid}
  BY DEF CallerChecks, ValidityCheck, Sound
<1>2. Settled(given)
  BY PackageSettles
<1>3. /\ trust.name \in AdvisoryChecks /\ valid.name \notin AdvisoryChecks
      /\ \A check \in time : check.name \notin AdvisoryChecks
  BY DEF Check, TimeCheck, AdvisoryChecks
<1>4. valid.passed <=> holds
  BY DEF Check
<1>5. (\A check \in time : check.passed) <=> TimeHolds(p, c)
  BY TimeSettles
<1> HIDE DEF given, trust, time, valid, holds, row
<1>6. RequiredChecks \subseteq { check.name : check \in given \cup ({trust} \cup time \cup {valid}) }
  BY <1>2 DEF Settled
<1>7. Settled(given \cup ({trust} \cup time \cup {valid}))
      <=> (\A check \in time : check.passed) /\ valid.passed
  BY <1>2, <1>3, <1>6 DEF Settled
<1>8. Settled(given \cup ({trust} \cup time \cup {valid})) <=> TimeHolds(p, c) /\ holds
  BY <1>4, <1>5, <1>7
<1> QED
  BY <1>1, <1>8 DEF given, row, holds

\* Who accepts.
LEMMA Verdict ==
  ASSUME NEW p, NEW callers, NEW c
  PROVE  c \in AcceptedBy(p, callers) <=> c \in callers /\ ~ Abandoned(p) /\ Sound(p) /\ Agreed(p, c)
<1> DEFINE row == SigningRow(p)
           stamped == [store \in { d.store : d \in callers } |-> HasStamp(p, store)]
<1>1. c \in callers => stamped[c.store] = Stamped(p, c)
  BY DEF Stamped
<1>2. c \in AcceptedBy(p, callers) <=>
        /\ ~ Abandoned(p) /\ Settled(PackageChecks(p, row)) /\ c \in callers
        /\ Settled(PackageChecks(p, row) \cup CallerChecks(p, c, row, Stamped(p, c)))
        /\ TrustState(c, row) # "untrusted"
        /\ c.require => TrustState(c, row) = "trusted"
  <2> HIDE DEF row
  <2> QED
    BY <1>1 DEF AcceptedBy, row
<1> QED
  BY <1>2, PackageSettles, CallerSettles DEF Agreed

---------------------------------------------------------------------------
(* An anchor can only refuse: true of any package whatever.                *)

\* Without anchors nothing is concluded about the chain.
LEMMA UnknownChain == ASSUME NEW cert, NEW certs, NEW moment
                      PROVE  Evaluate(cert, certs, <<>>, moment) = "unknown"
BY DEF Evaluate, Start

\* What it takes for a token to be found good.
LEMMA TokenHolds ==
  ASSUME NEW token, NEW digest, NEW nonce, NEW anchors
  PROVE  VerifyToken(token, digest, nonce, anchors).ok
         <=> /\ token # Garbled /\ token.isTimeStamp /\ token.alg = "sha256" /\ token.imprint = digest
             /\ nonce \in {Absent, token.nonce} /\ SignatureState(token) = "embedded_cert_only"
             /\ Evaluate(MatchSigner(token), token.certs, anchors, token.time) # "untrusted"
<1> DEFINE chain == Evaluate(MatchSigner(token), token.certs, anchors, token.time)
           ok == /\ token.alg = "sha256" /\ token.imprint = digest
                 /\ nonce \in {Absent, token.nonce} /\ SignatureState(token) = "embedded_cert_only"
                 /\ chain # "untrusted"
<1>1. CASE token = Garbled \/ ~ token.isTimeStamp
  <2>1. VerifyToken(token, digest, nonce, anchors) = [ok |-> FALSE, chain |-> "unknown"]
    BY <1>1, Zenon DEF VerifyToken
  <2> QED
    BY <1>1, <2>1
<1>2. CASE ~ (token = Garbled \/ ~ token.isTimeStamp)
  <2>1. VerifyToken(token, digest, nonce, anchors) = [chain |-> chain, ok |-> ok]
    BY <1>2, Zenon DEF VerifyToken
  <2>2. [chain |-> chain, ok |-> ok].ok <=> ok
    <3> HIDE DEF chain, ok
    <3> QED
      OBVIOUS
  <2>3. VerifyToken(token, digest, nonce, anchors).ok <=> ok
    BY <2>1, <2>2
  <2> QED
    BY <1>2, <2>3
<1> QED
  BY <1>1, <1>2

\* A token that matches for a caller with time anchors does for one without.
LEMMA StampWithout ==
  ASSUME NEW p, NEW store, HasStamp(p, store)
  PROVE  HasStamp(p, Absent)
<1>1. VerifyToken(p.tsr, Subject(p.manifest), Absent, Anchors(store)).ok /\ Anchors(Absent) = <<>>
  BY DEF HasStamp, TokenMatches, Anchors
<1>2. VerifyToken(p.tsr, Subject(p.manifest), Absent, <<>>).ok
  <2>1. Evaluate(MatchSigner(p.tsr), p.tsr.certs, <<>>, p.tsr.time) # "untrusted"
    BY UnknownChain
  <2> QED
    BY <1>1, <2>1, TokenHolds
<1> QED
  BY <1>1, <1>2, TimeStampAssumption DEF HasStamp, TokenMatches

\* The moment of a package is the same for a caller who brings no time anchor.
LEMMA SameMoment ==
  ASSUME NEW p, NEW c, NEW d, TimeHolds(p, d), c.store \in {Absent, d.store}
  PROVE  TimeHolds(p, c) /\ Stamped(p, c) = Stamped(p, d)
<1>1. CASE p.manifest.anchor = "none"
  BY <1>1 DEF TimeHolds, Stamped, HasStamp
<1>2. CASE p.manifest.anchor = "rfc3161"
  <2>1. HasStamp(p, d.store) /\ HasStamp(p, Absent) /\ Token(p) # Absent /\ d.store # Unread
    BY <1>2, StampWithout DEF TimeHolds, Stamped
  <2>2. HasStamp(p, c.store) /\ HasStamp(p, d.store)
    BY <2>1
  <2>3. HasStamp(p, c.store) = TRUE /\ HasStamp(p, d.store) = TRUE
    BY <2>2 DEF HasStamp
  <2> QED
    BY <1>2, <2>1, <2>2, <2>3, TimeStampAssumption DEF TimeHolds, Stamped
<1> QED
  BY <1>1, <1>2 DEF TimeHolds

\* What a caller may bring as anchors of identity.
Bring == ((Keys \cup {Absent, Garbled}) \X {Absent}) \cup ({Absent} \X Keyrings)

LEMMA CallerMade ==
  ASSUME NEW who \in Bring, NEW store \in {Absent, Unread, <<Anchor>>}, NEW require \in BOOLEAN
  PROVE  Caller(who[1], who[2], store, require) \in Callers
<1>1. Callers = { Caller(w[1], w[2], s, r) : w \in Bring, s \in {Absent, Unread, <<Anchor>>}, r \in BOOLEAN }
  BY DEF Callers, Bring
<1> QED
  BY <1>1

LEMMA MilderAgrees ==
  ASSUME NEW p, NEW d \in Callers, NEW c \in Milder(d), Sound(p), Agreed(p, d)
  PROVE  c \in Callers /\ Agreed(p, c)
<1> DEFINE row == SigningRow(p)
           plain == Caller(Absent, Absent, d.store, FALSE)
<1>1. PICK who \in ((Keys \cup {Absent, Garbled}) \X {Absent}) \cup ({Absent} \X Keyrings),
           store \in {Absent, Unread, <<Anchor>>}, require \in BOOLEAN :
              d = Caller(who[1], who[2], store, require)
  BY DEF Callers
<1>2. d.pubkey = who[1] /\ d.ring = who[2] /\ d.store = store /\ d.require = require
  BY <1>1 DEF Caller
<1>3. PICK s \in {Absent, store} :
         \/ c = Caller(who[1], who[2], s, require)
         \/ c = Caller(Absent, Absent, s, FALSE)
  BY <1>1, <1>2 DEF Milder, Caller
<1>4. TimeHolds(p, c) /\ Stamped(p, c) = Stamped(p, d)
  BY <1>2, <1>3, SameMoment DEF Agreed, Caller
<1>5. CASE c = Caller(who[1], who[2], s, require)
  <2>1. c.pubkey = d.pubkey /\ c.ring = d.ring /\ c.require = d.require
    BY <1>2, <1>5 DEF Caller
  <2>2. Rows(row, c) = Rows(row, d) /\ TrustState(c, row) = TrustState(d, row)
    BY <2>1 DEF Rows, TrustedRow, TrustState, Fingerprints, Requested
  <2>3. c \in Callers
    <3>1. who \in Bring /\ s \in {Absent, Unread, <<Anchor>>}
      BY DEF Bring
    <3> QED
      BY <1>5, <3>1, CallerMade
  <2> QED
    BY <1>4, <2>1, <2>2, <2>3 DEF Agreed
<1>6. CASE c = Caller(Absent, Absent, s, FALSE)
  <2>1. c.pubkey = Absent /\ c.ring = Absent /\ c.require = FALSE
    BY <1>6 DEF Caller
  <2>2. TrustedRow(c, row.key) = NoRow
    BY <2>1 DEF TrustedRow, Closed
  <2>3. Rows(row, c) \subseteq Rows(row, d)
    BY <2>2 DEF Rows
  <2>4. TrustState(c, row) = "embedded_key_only"
    BY <2>1, VerifyAssumption DEF TrustState, Fingerprints, Requested, Closed, Sound
  <2>5. c \in Callers
    <3>1. <<Absent, Absent>> \in Bring /\ <<Absent, Absent>>[1] = Absent /\ <<Absent, Absent>>[2] = Absent
      BY DEF Bring
    <3> QED
      BY <1>1, <1>3, <1>6, <3>1, CallerMade
  <2> QED
    BY <1>4, <2>1, <2>3, <2>4, <2>5 DEF Agreed
<1> QED
  BY <1>3, <1>5, <1>6

\* A caller's anchors, of time or of identity, can only add refusals to what verify_package()
\* says of a package: whatever the package, and wherever it has been.
THEOREM AnchorsRefuse == Spec => []AnchorsOnlyRefuse
<1>1. AnchorsOnlyRefuse
  <2> SUFFICES ASSUME package # Absent, NEW d \in Accepted, NEW c \in Milder(d)
               PROVE  c \in Accepted
    BY DEF AnchorsOnlyRefuse
  <2>1. d \in Callers /\ ~ Abandoned(package) /\ Sound(package) /\ Agreed(package, d)
    BY Verdict DEF Accepted
  <2>2. c \in Callers /\ Agreed(package, c)
    BY <2>1, MilderAgrees
  <2> QED
    BY <2>1, <2>2, Verdict DEF Accepted
<1> QED
  BY <1>1, PTL

---------------------------------------------------------------------------
(* The inductive invariant.                                                *)

\* The three values that stand for nothing are no functions, so no records: no package,
\* token, manifest or certificate is one of them.
IsFcn(f) == f = [x \in DOMAIN f |-> f[x]]
NullsAreNoRecords == \A v \in {Absent, Unread, Garbled} : ~ IsFcn(v)

\* The token of a package is small enough to be read.
TokensAreRead == "tsr" \notin MayNotBeRead

ClockInv ==
    /\ clock \in 1..MaxMoment
    /\ standing = Row(Ours, standing.status, 1, standing.na)
    /\ standing.status \in {"active", "retired", "revoked"} /\ standing.na \in 0..clock
    /\ standing.status = "retired" => standing.na # 0

\* The authority's tokens, each with a nonce of its own.
Vouched(t) == t = Issue(Authority, <<Authority, Anchor>>, t.imprint, t.serial, t.time, t.nonce)
TokenInv ==
    /\ IsFiniteSet(tokens)
    /\ \A t \in tokens : Vouched(t) /\ t.time \in 1..MaxMoment /\ t.nonce \in 0..(Cardinality(tokens) - 1)

\* A token that is found good, and whose certificate chains to the anchor, says what the
\* authority wrote.
Backed(token, all) ==
    /\ SignatureState(token) = "embedded_cert_only"
    /\ Evaluate(MatchSigner(token), token.certs, Anchors(<<Anchor>>), token.time) # "untrusted"
    => /\ SignerFits(token)
       /\ \E t \in all : t.imprint = token.imprint /\ t.time = token.time

\* What our key signed, and with which token.
Stamping(token, digest) ==
    /\ VerifyToken(token, digest, Absent, <<>>).ok
    /\ token.signer = Authority => Vouched(token) /\ token.time \in 1..MaxMoment
SealedBy(s, row, body, says, enveloped) ==
    LET files    == Files(row, body, says, enveloped)
        manifest == Manifest(files, says)
    IN  /\ s.package = Sealed(Ours, files, manifest, s.package.tsr)
        /\ s.package.tsr # Absent => Stamping(s.package.tsr, Subject(manifest))
SealInv ==
    \A s \in sealed :
        /\ s.at \in 1..clock /\ s.standing.key = Ours
        /\ \E says \in 1..s.at, body \in Bodies, enveloped \in BOOLEAN :
              \E row \in {s.standing, Row(Ours, "active", says, 0)} :
                 SealedBy(s, row, body, says, enveloped)

\* A package has the shape of one, whatever happened to it; a signature it carries of our
\* key was made over something our key sealed; and what its token says is backed.
IsPackage(p) ==
    p = [files |-> p.files, manifest |-> p.manifest, tsr |-> p.tsr, twice |-> p.twice, sig |-> p.sig]
RingRows == [key : Keys, status : {"active", "retired", "revoked", "lost"}, nb : Nat, na : Nat]
RingOK(files) ==
    "ring" \in DOMAIN files /\ files["ring"] \notin Closed => files["ring"] \in Seq(RingRows)
PackageOK(p, seals, stamps) ==
    /\ IsPackage(p)
    /\ IsFcn(p.files) /\ RingOK(p.files) /\ p.twice \in BOOLEAN
    /\ p.sig = Garbled \/ p.sig.key # Ours \/ \E s \in seals : p.sig = s.package.sig
    /\ TokensAreRead => p.tsr # Unread
    /\ p.tsr \notin Closed => Backed(p.tsr, stamps)
PackageInv == package # Absent => PackageOK(package, sealed, tokens)

IInv == ClockInv /\ TokenInv /\ SealInv /\ PackageInv

---------------------------------------------------------------------------
(* Tokens.                                                                 *)

LEMMA NotNull ==
  ASSUME NullsAreNoRecords, NEW f, IsFcn(f)
  PROVE  f # Absent /\ f # Unread /\ f # Garbled
BY DEF NullsAreNoRecords

\* What a token issued by the holder of a certificate is.
Stamp(imprint, serial, time, nonce) ==
    [alg |-> "sha256", imprint |-> imprint, serial |-> serial, time |-> time, nonce |-> nonce]
Covered(imprint, serial, time, nonce) == Attributes(Stamp(imprint, serial, time, nonce), "TSTInfo")
Shape == {"isTimeStamp", "alg", "imprint", "serial", "time", "nonce", "certs",
          "signer", "digestKnown", "scheme", "attrs", "signature"}
IssuedAs(t, cert, certs, imprint, serial, time, nonce, covered) ==
    /\ IsFcn(t) /\ t.isTimeStamp /\ t.digestKnown /\ t.scheme = "fits" /\ t.alg = "sha256"
    /\ t.imprint = imprint /\ t.serial = serial /\ t.time = time /\ t.nonce = nonce
    /\ t.certs = certs /\ t.signer = cert
    /\ t.attrs = covered /\ t.signature = [key |-> cert.key, over |-> covered]
    /\ DOMAIN t = Shape /\ covered # Absent
LEMMA Issued ==
  ASSUME NullsAreNoRecords,
         NEW cert, NEW certs, NEW imprint, NEW serial, NEW time, NEW nonce
  PROVE  IssuedAs(Issue(cert, certs, imprint, serial, time, nonce), cert, certs, imprint, serial,
                  time, nonce, Covered(imprint, serial, time, nonce))
<1> DEFINE blank == [isTimeStamp |-> TRUE, alg |-> "sha256", imprint |-> imprint, serial |-> serial,
                     time |-> time, nonce |-> nonce, certs |-> certs, signer |-> cert,
                     digestKnown |-> TRUE, scheme |-> "fits", attrs |-> Absent, signature |-> Absent]
           c == Covered(imprint, serial, time, nonce)
           bound == [blank EXCEPT !.attrs = c]
           t == [bound EXCEPT !.signature = [key |-> cert.key, over |-> c]]
<1>1. Attributes(Info(blank), "TSTInfo") = c
  BY DEF Info, Stamp, Covered
<1>2. c # Absent
  <2>1. IsFcn(c)
    BY DEF IsFcn, Attributes, Covered
  <2> QED
    BY <2>1, NotNull
<1>3. bound.attrs = c
  <2> HIDE DEF c
  <2> QED
    OBVIOUS
<1>4. SignedBytes(bound) = c
  <2> HIDE DEF c, bound
  <2> QED
    BY <1>2, <1>3 DEF SignedBytes
<1>5. Issue(cert, certs, imprint, serial, time, nonce) = t
  BY <1>1, <1>4, Zenon DEF Issue
<1> HIDE DEF c
<1>6. /\ t.isTimeStamp /\ t.digestKnown /\ t.scheme = "fits" /\ t.alg = "sha256"
      /\ t.imprint = imprint /\ t.serial = serial /\ t.time = time /\ t.nonce = nonce
      /\ t.certs = certs /\ t.signer = cert
  OBVIOUS
<1>7. t.attrs = c /\ t.signature = [key |-> cert.key, over |-> c]
  OBVIOUS
<1>8. IsFcn(t)
  BY DEF IsFcn
<1>9. DOMAIN t = Shape
  BY DEF Shape
<1> HIDE DEF t
<1> QED
  BY <1>2, <1>5, <1>6, <1>7, <1>8, <1>9 DEF c, IssuedAs

LEMMA VouchedIs ==
  ASSUME NullsAreNoRecords, NEW t, Vouched(t)
  PROVE  /\ IsFcn(t) /\ t.signer = Authority /\ t.certs = <<Authority, Anchor>> /\ DOMAIN t = Shape
         /\ t.attrs = Covered(t.imprint, t.serial, t.time, t.nonce) /\ t.attrs # Absent
<1> DEFINE c == Covered(t.imprint, t.serial, t.time, t.nonce)
<1>1. IssuedAs(Issue(Authority, <<Authority, Anchor>>, t.imprint, t.serial, t.time, t.nonce),
               Authority, <<Authority, Anchor>>, t.imprint, t.serial, t.time, t.nonce, c)
  BY Issued
<1>2. IssuedAs(t, Authority, <<Authority, Anchor>>, t.imprint, t.serial, t.time, t.nonce, c)
  BY <1>1 DEF Vouched
<1> QED
  BY <1>2 DEF IssuedAs

\* A token of the authority that is found good says what its signature covers.
LEMMA CoveredBacked ==
  ASSUME NEW token, NEW t, NEW all, t \in all, t.time \in 1..MaxMoment,
         token.attrs = Covered(t.imprint, t.serial, t.time, t.nonce), token.attrs # Absent,
         token.signer = Authority, token.certs = <<Authority, Anchor>>
  PROVE  /\ Backed(token, all)
         /\ SignatureState(token) = "embedded_cert_only" =>
               token.imprint = t.imprint /\ token.time = t.time /\ token.nonce = t.nonce
<1>1. MatchSigner(token) = Authority
  BY DEF MatchSigner, ToSet
<1> SUFFICES ASSUME SignatureState(token) = "embedded_cert_only"
             PROVE  /\ SignerFits(token)
                    /\ token.imprint = t.imprint /\ token.time = t.time /\ token.nonce = t.nonce
  BY DEF Backed
<1>2. ~ Tampered(token) /\ ~ Uncheckable(token)
  BY DEF SignatureState
<1>3. token.attrs.digest = Info(token)
  BY <1>2 DEF Tampered, Uncheckable
<1>4. Stamp(t.imprint, t.serial, t.time, t.nonce) = Info(token)
  BY <1>3 DEF Covered, Attributes
<1>5. token.imprint = t.imprint /\ token.time = t.time /\ token.nonce = t.nonce
  BY <1>4 DEF Stamp, Info
<1>6. SignerFits(token)
  BY <1>1, <1>5, AuthorityAssumption DEF SignerFits
<1> QED
  BY <1>5, <1>6

\* So a token the authority issued is backed by itself ...
LEMMA GenuineBacked ==
  ASSUME NullsAreNoRecords, NEW all, NEW t \in all, Vouched(t), t.time \in 1..MaxMoment
  PROVE  /\ Backed(t, all) /\ IsFcn(t) /\ t.signer = Authority /\ t.certs = <<Authority, Anchor>>
         /\ t.attrs = Covered(t.imprint, t.serial, t.time, t.nonce) /\ t.attrs # Absent
         /\ DOMAIN t = Shape
<1>1. /\ IsFcn(t) /\ t.signer = Authority /\ t.certs = <<Authority, Anchor>>
      /\ t.attrs = Covered(t.imprint, t.serial, t.time, t.nonce) /\ t.attrs # Absent
      /\ DOMAIN t = Shape
  BY VouchedIs
<1> QED
  BY <1>1, CoveredBacked

\* ... one whose content was exchanged is found good only where nothing was ...
Answering(t, nonce) == [t EXCEPT !.nonce = nonce]
LEMMA SplicedBacked ==
  ASSUME NullsAreNoRecords, NEW all, NEW t \in all, Vouched(t), t.time \in 1..MaxMoment,
         NEW imprint, NEW m, NEW nonce, NEW u, u = Exchanged(t, imprint, m),
         NEW v, v = Answering(u, nonce)
  PROVE  /\ Backed(u, all) /\ IsFcn(u) /\ Backed(v, all) /\ IsFcn(v)
         /\ SignatureState(v) = "embedded_cert_only" => nonce = t.nonce
<1>1. /\ IsFcn(t) /\ t.signer = Authority /\ t.certs = <<Authority, Anchor>>
      /\ t.attrs = Covered(t.imprint, t.serial, t.time, t.nonce) /\ t.attrs # Absent
      /\ DOMAIN t = Shape
  BY GenuineBacked
<1>2. /\ u.attrs = t.attrs /\ u.signer = t.signer /\ u.certs = t.certs /\ IsFcn(u)
      /\ v.attrs = t.attrs /\ v.signer = t.signer /\ v.certs = t.certs /\ IsFcn(v) /\ v.nonce = nonce
  BY <1>1 DEF IsFcn, Shape, Exchanged, Answering
<1>3. Backed(u, all)
  BY <1>1, <1>2, CoveredBacked
<1>4. Backed(v, all) /\ (SignatureState(v) = "embedded_cert_only" => v.nonce = t.nonce)
  BY <1>1, <1>2, CoveredBacked
<1> QED
  BY <1>2, <1>3, <1>4

\* ... one without the certificate that signed it is never found good ...
LEMMA BareBacked ==
  ASSUME NullsAreNoRecords, NEW all, NEW t, Vouched(t)
  PROVE  LET u == [t EXCEPT !.certs = <<Anchor>>]
         IN  IsFcn(u) /\ Backed(u, all) /\ SignatureState(u) # "embedded_cert_only"
<1> DEFINE u == [t EXCEPT !.certs = <<Anchor>>]
<1>1. /\ IsFcn(t) /\ t.signer = Authority
      /\ DOMAIN t = Shape
  BY VouchedIs
<1>2. IsFcn(u) /\ u.signer = Authority /\ u.certs = <<Anchor>>
  BY <1>1 DEF IsFcn, Shape
<1> HIDE DEF u
<1>3. MatchSigner(u) = NoCert
  BY <1>2, AuthorityAssumption DEF MatchSigner, ToSet
<1>4. SignatureState(u) # "embedded_cert_only"
  BY <1>3 DEF SignatureState, Uncheckable
<1> QED
  BY <1>2, <1>4 DEF Backed, u

\* ... and a home-made one does not chain to the anchor.
LEMMA HomemadeBacked ==
  ASSUME NullsAreNoRecords, NEW all, NEW imprint, NEW serial, NEW m \in 1..MaxMoment, NEW nonce
  PROVE  LET u == Issue(Homemade, <<Homemade>>, imprint, serial, m, nonce)
         IN  IsFcn(u) /\ Backed(u, all) /\ u.signer = Homemade
<1> DEFINE u == Issue(Homemade, <<Homemade>>, imprint, serial, m, nonce)
<1>1. IsFcn(u) /\ u.signer = Homemade /\ u.certs = <<Homemade>> /\ u.time = m
  <2>1. IssuedAs(u, Homemade, <<Homemade>>, imprint, serial, m, nonce, Covered(imprint, serial, m, nonce))
    BY Issued
  <2> QED
    BY <2>1 DEF IssuedAs
<1> HIDE DEF u
<1>2. MatchSigner(u) = Homemade
  BY <1>1 DEF MatchSigner, ToSet
<1> QED
  BY <1>1, <1>2, AuthorityAssumption DEF Backed, u

\* More tokens back no less.
LEMMA BackedStill ==
  ASSUME NEW token, NEW all, NEW more, Backed(token, all), all \subseteq more
  PROVE  Backed(token, more)
BY DEF Backed

---------------------------------------------------------------------------
(* The reply that is kept.                                                 *)

\* A token issued now answers this request; none of the earlier ones does.
LEMMA GenuineNow ==
  ASSUME NullsAreNoRecords, NEW imprint, NEW moment, NEW nonce
  PROVE  LET t == Genuine(imprint, moment, nonce)
         IN  Vouched(t) /\ t.time = moment /\ t.nonce = nonce /\ t.imprint = imprint /\ IsFcn(t)
<1> DEFINE t == Genuine(imprint, moment, nonce)
           serial == Cardinality(tokens)
<1>1. IssuedAs(t, Authority, <<Authority, Anchor>>, imprint, serial, moment, nonce,
               Covered(imprint, serial, moment, nonce))
  BY Issued DEF Genuine
<1>2. t.imprint = imprint /\ t.serial = serial /\ t.time = moment /\ t.nonce = nonce /\ IsFcn(t)
  <2> HIDE DEF t
  <2> QED
    BY <1>1 DEF IssuedAs
<1>3. t = Issue(Authority, <<Authority, Anchor>>, imprint, serial, moment, nonce)
  BY DEF Genuine
<1> HIDE DEF t
<1> QED
  BY <1>2, <1>3 DEF Vouched, t

LEMMA KeptReply ==
  ASSUME NullsAreNoRecords, ClockInv, TokenInv, NEW imprint, NEW moment \in AuthorityMoments,
         NEW reply \in Replies(imprint, moment, Cardinality(tokens)),
         Kept(reply, imprint, Cardinality(tokens))
  PROVE  /\ Stamping(reply.token, imprint) /\ IsFcn(reply.token)
         /\ Backed(reply.token, tokens \cup {Genuine(imprint, moment, Cardinality(tokens))})
<1> DEFINE nonce == Cardinality(tokens)
           genuine == Genuine(imprint, moment, nonce)
           token == reply.token
           all == tokens \cup {genuine}
<1>0. nonce \in Nat /\ moment \in 1..MaxMoment /\ 1 \in 1..MaxMoment
  BY FS_CardinalityType, AttestationAssumption DEF TokenInv, AuthorityMoments
<1>1. /\ Vouched(genuine) /\ genuine.time = moment /\ genuine.nonce = nonce /\ genuine.imprint = imprint
      /\ IsFcn(genuine)
  BY GenuineNow
<1>2. \A t \in tokens : Vouched(t) /\ t.time \in 1..MaxMoment /\ t.nonce # nonce /\ t.nonce # Absent
  <2> TAKE t \in tokens
  <2>1. Vouched(t) /\ t.time \in 1..MaxMoment /\ t.nonce \in 0..(nonce - 1)
    BY DEF TokenInv
  <2> QED
    BY <1>0, <2>1, AttestationAssumption
<1>3. VerifyToken(token, imprint, nonce, <<>>).ok /\ reply \notin {Absent, Garbled} /\ token # Absent
      /\ reply.status \in GrantedStatuses
  BY DEF Kept
<1>4. nonce = token.nonce /\ SignatureState(token) = "embedded_cert_only"
  <2>1. nonce \in {Absent, token.nonce} /\ SignatureState(token) = "embedded_cert_only"
    BY <1>3, TokenHolds
  <2> QED
    BY <1>0, <2>1, AttestationAssumption
<1>5. VerifyToken(token, imprint, Absent, <<>>).ok
  BY <1>3, TokenHolds
<1> SUFFICES IsFcn(token) /\ Backed(token, all) /\ (token.signer = Authority => Vouched(token) /\ token.time \in 1..MaxMoment)
  BY <1>5 DEF Stamping
<1>6. \/ token = genuine
      \/ token = [genuine EXCEPT !.certs = <<Anchor>>]
      \/ token = Issue(Homemade, <<Homemade>>, imprint, 0, 1, nonce)
      \/ token \in tokens
      \/ \E t \in tokens, m \in 1..MaxMoment :
            token = Answering(Exchanged(t, imprint, m), nonce)
  <2> DEFINE T == {genuine, [genuine EXCEPT !.certs = <<Anchor>>],
                   Issue(Homemade, <<Homemade>>, imprint, 0, 1, nonce), Absent}
                  \cup tokens \cup { [t EXCEPT !.nonce = nonce] : t \in Spliced(imprint) }
  <2>1. reply \in [status : {"granted"}, token : T] \cup {[status |-> "rejection", token |-> Absent], Garbled, Absent}
    BY DEF Replies
  <2>2. token \in T
    <3> HIDE DEF T
    <3> QED
      BY <1>3, <2>1 DEF GrantedStatuses
  <2> HIDE DEF T, token, nonce
  <2>3. ASSUME token \in { [t EXCEPT !.nonce = nonce] : t \in Spliced(imprint) }
        PROVE  \E t \in tokens, m \in 1..MaxMoment : token = Answering(Exchanged(t, imprint, m), nonce)
    <3>1. PICK u \in Spliced(imprint) : token = Answering(u, nonce)
      BY <2>3 DEF Answering
    <3>2. PICK t \in tokens, m \in 1..MaxMoment : u = Exchanged(t, imprint, m)
      BY <3>1 DEF Spliced
    <3> QED
      BY <3>1, <3>2
  <2> QED
    BY <1>3, <2>2, <2>3 DEF T, token
<1>7. CASE token = genuine
  <2>1. genuine \in all
    OBVIOUS
  <2>2. Backed(genuine, all)
    BY <1>0, <1>1, <2>1, GenuineBacked
  <2> QED
    BY <1>0, <1>1, <1>7, <2>2
<1>8. CASE token = [genuine EXCEPT !.certs = <<Anchor>>]
  BY <1>1, <1>4, <1>8, BareBacked
<1>9. CASE token = Issue(Homemade, <<Homemade>>, imprint, 0, 1, nonce)
  <2>1. IsFcn(token) /\ Backed(token, all) /\ token.signer = Homemade
    BY <1>0, <1>9, HomemadeBacked
  <2> QED
    BY <2>1, AuthorityAssumption
<1>10. CASE token \in tokens
  BY <1>2, <1>4, <1>10
<1>11. ASSUME NEW t \in tokens, NEW m \in 1..MaxMoment,
              token = Answering(Exchanged(t, imprint, m), nonce)
       PROVE  FALSE
  <2>1. Vouched(t) /\ t.time \in 1..MaxMoment /\ t.nonce # nonce
    BY <1>2
  <2> QED
    BY <1>4, <1>11, <2>1, SplicedBacked
<1> QED
  BY <1>6, <1>7, <1>8, <1>9, <1>10, <1>11

---------------------------------------------------------------------------
(* Every step preserves the invariant.                                     *)

LEMMA InitInv == Init => IInv
<1> SUFFICES ASSUME Init PROVE IInv
  OBVIOUS
<1>1. ClockInv
  BY AttestationAssumption DEF Init, ClockInv, Row
<1>2. TokenInv /\ SealInv
  BY FS_EmptySet DEF Init, TokenInv, SealInv
<1>3. PackageInv
  BY DEF Init, PackageInv
<1> QED
  BY <1>1, <1>2, <1>3 DEF IInv

\* What a package is to its readers stays right with more seals and more tokens.
LEMMA PackageKept ==
  ASSUME NEW p, NEW seals, NEW more, NEW stamps, NEW others, PackageOK(p, seals, stamps),
         seals \subseteq more, stamps \subseteq others
  PROVE  PackageOK(p, more, others)
BY BackedStill DEF PackageOK

\* What was sealed stays sealed.
LEMMA SealsKept ==
  ASSUME SealInv, clock \in Nat, clock' \in Nat, clock <= clock', NEW s \in sealed
  PROVE  /\ s.at \in 1..clock' /\ s.standing.key = Ours
         /\ \E says \in 1..s.at, body \in Bodies, enveloped \in BOOLEAN :
               \E row \in {s.standing, Row(Ours, "active", says, 0)} :
                  SealedBy(s, row, body, says, enveloped)
<1>1. s.at \in 1..clock /\ s.standing.key = Ours
  BY DEF SealInv
<1>2. s.at \in 1..clock'
  BY <1>1
<1>3. \E says \in 1..s.at, body \in Bodies, enveloped \in BOOLEAN :
         \E row \in {s.standing, Row(Ours, "active", says, 0)} :
            SealedBy(s, row, body, says, enveloped)
  BY DEF SealInv
<1> QED
  BY <1>1, <1>2, <1>3

LEMMA TickStep == ASSUME IInv, Tick PROVE IInv'
<1>1. clock \in Nat /\ clock' = clock + 1 /\ clock' \in 1..MaxMoment
  BY AttestationAssumption DEF Tick, IInv, ClockInv
<1>2. UNCHANGED <<standing, package, changes, sealed, tokens>>
  BY DEF Tick
<1>3. ClockInv'
  BY <1>1, <1>2 DEF IInv, ClockInv
<1>4. TokenInv'
  BY <1>1, <1>2 DEF IInv, TokenInv
<1>5. SealInv'
  <2>1. \A s \in sealed :
           /\ s.at \in 1..clock' /\ s.standing.key = Ours
           /\ \E says \in 1..s.at, body \in Bodies, enveloped \in BOOLEAN :
                 \E row \in {s.standing, Row(Ours, "active", says, 0)} :
                    SealedBy(s, row, body, says, enveloped)
    BY <1>1, SealsKept DEF IInv
  <2> QED
    BY <1>2, <2>1 DEF SealInv
<1>6. PackageInv'
  BY <1>2 DEF IInv, PackageInv
<1> QED
  BY <1>3, <1>4, <1>5, <1>6 DEF IInv

LEMMA StandingStep == ASSUME IInv, Retire \/ Revoke PROVE IInv'
<1>1. UNCHANGED <<clock, package, changes, sealed, tokens>>
  BY DEF Retire, Revoke
<1>2. ClockInv'
  <2>1. clock \in 1..MaxMoment /\ clock \in 0..clock /\ clock # 0 /\ standing.na \in 0..clock
    BY AttestationAssumption DEF IInv, ClockInv
  <2>2. \E status \in {"retired", "revoked"} : \E na \in 0..clock :
           standing' = Row(Ours, status, 1, na) /\ (status = "retired" => na # 0)
    <3>1. CASE Retire
      <4>1. standing' = Row(Ours, "retired", 1, clock)
        <5>1. PICK status, na : standing = [key |-> Ours, status |-> status, nb |-> 1, na |-> na]
          BY DEF IInv, ClockInv, Row
        <5>2. standing' = [standing EXCEPT !.status = "retired", !.na = clock]
          BY <3>1 DEF Retire
        <5> QED
          BY <5>1, <5>2 DEF Row
      <4> QED
        BY <2>1, <4>1
    <3>2. CASE Revoke
      <4>1. standing' = Row(Ours, "revoked", 1, standing.na)
        <5>1. standing = [key |-> Ours, status |-> standing.status, nb |-> 1, na |-> standing.na]
          BY DEF IInv, ClockInv, Row
        <5> QED
          BY <3>2, <5>1 DEF Revoke, Row
      <4> QED
        BY <2>1, <4>1
    <3> QED
      BY <3>1, <3>2
  <2> QED
    BY <1>1, <2>1, <2>2 DEF ClockInv, Row
<1>3. TokenInv' /\ SealInv' /\ PackageInv'
  BY <1>1 DEF IInv, TokenInv, SealInv, PackageInv
<1> QED
  BY <1>2, <1>3 DEF IInv

\* The authority issues one more token.
LEMMA TokenAdded ==
  ASSUME NullsAreNoRecords, TokenInv, NEW imprint, NEW moment \in AuthorityMoments,
         tokens' = tokens \cup {Genuine(imprint, moment, Cardinality(tokens))}
  PROVE  TokenInv' /\ tokens \subseteq tokens'
<1> DEFINE n == Cardinality(tokens)
           t == Genuine(imprint, moment, n)
<1>1. n \in Nat /\ moment \in 1..MaxMoment
  BY FS_CardinalityType DEF TokenInv, AuthorityMoments
<1>2. Vouched(t) /\ t.time = moment /\ t.nonce = n
  BY GenuineNow
<1>3. \A u \in tokens : Vouched(u) /\ u.time \in 1..MaxMoment /\ u.nonce \in 0..(n - 1)
  BY DEF TokenInv
<1>4. t \notin tokens
  BY <1>1, <1>2, <1>3
<1>5. IsFiniteSet(tokens') /\ Cardinality(tokens') = n + 1
  BY <1>4, FS_AddElement DEF TokenInv
<1> HIDE DEF t, n
<1>6. \A u \in tokens' : Vouched(u) /\ u.time \in 1..MaxMoment /\ u.nonce \in 0..(Cardinality(tokens') - 1)
  <2>1. \A u \in tokens' : u \in tokens \/ u = t
    BY DEF t, n
  <2> QED
    BY <1>1, <1>2, <1>3, <1>5, <2>1
<1> QED
  BY <1>5, <1>6 DEF TokenInv

LEMMA RestampStep == ASSUME NullsAreNoRecords, IInv, Restamp PROVE IInv'
<1>1. UNCHANGED <<clock, standing, package, changes, sealed>>
  BY DEF Restamp
<1>0. PICK imprint : \E moment \in AuthorityMoments :
         tokens' = tokens \cup {Genuine(imprint, moment, Cardinality(tokens))}
  BY DEF Restamp
<1>2. PICK moment \in AuthorityMoments :
         tokens' = tokens \cup {Genuine(imprint, moment, Cardinality(tokens))}
  BY <1>0
<1>3. TokenInv' /\ tokens \subseteq tokens'
  BY <1>1, <1>2, TokenAdded DEF IInv
<1>4. ClockInv' /\ SealInv'
  BY <1>1 DEF IInv, ClockInv, SealInv
<1>5. PackageInv'
  BY <1>1, <1>3, PackageKept DEF IInv, PackageInv
<1> QED
  BY <1>3, <1>4, <1>5 DEF IInv

\* A package as its writer leaves it.
LEMMA SealedShape ==
  ASSUME NEW files, NEW manifest, NEW token, NEW p, p = Sealed(Ours, files, manifest, token)
  PROVE  /\ IsPackage(p) /\ p.files = files /\ p.tsr = token /\ p.twice = FALSE
         /\ p.manifest = Anchored(manifest, token)
         /\ p.sig = [key |-> Ours, over |-> Anchored(manifest, token)]
BY DEF Sealed, IsPackage

LEMMA FilesAreFcn ==
  ASSUME NEW row, NEW body, NEW says, NEW enveloped
  PROVE  IsFcn(Files(row, body, says, enveloped))
BY DEF Files, Put, IsFcn

Filed(files, row, body, says) ==
    /\ {"entries", "ring"} \subseteq DOMAIN files /\ DOMAIN files \subseteq {"entries", "ring", "dsse"}
    /\ files["entries"] = [body |-> body, at |-> says, chained |-> TRUE, contract |-> "kept"]
    /\ files["ring"] = <<row>>
    /\ "dsse" \in DOMAIN files => files["dsse"] = Envelope(row.key, body)
LEMMA FilesHold ==
  ASSUME NEW row, NEW body, NEW says, NEW enveloped
  PROVE  Filed(Files(row, body, says, enveloped), row, body, says)
<1> DEFINE entries == [body |-> body, at |-> says, chained |-> TRUE, contract |-> "kept"]
           listed  == [entries |-> entries, ring |-> <<row>>]
<1>1. /\ listed["entries"] = entries /\ listed["ring"] = <<row>>
      /\ DOMAIN listed = {"entries", "ring"}
  <2> HIDE DEF entries
  <2> QED
    OBVIOUS
<1>2. Files(row, body, says, enveloped) = listed
      \/ Files(row, body, says, enveloped) = Put(listed, "dsse", Envelope(row.key, body))
  BY Zenon DEF Files
<1> HIDE DEF listed, entries
<1>3. Filed(listed, row, body, says)
  BY <1>1 DEF Filed, entries
<1> HIDE DEF Envelope
<1>4. Filed(Put(listed, "dsse", Envelope(row.key, body)), row, body, says)
  BY <1>1 DEF Put, Filed, entries
<1> QED
  BY <1>2, <1>3, <1>4

\* The rows there are to put in a ring.
LEMMA RowsThere ==
  ASSUME ClockInv, NEW says \in Nat, NEW key \in Keys
  PROVE  standing \in RingRows /\ Row(key, "active", says, 0) \in RingRows
BY AttestationAssumption DEF ClockInv, RingRows, Row

LEMMA SealStep ==
  ASSUME NullsAreNoRecords, IInv, NEW body \in Bodies, NEW says \in 1..MaxMoment,
         NEW enveloped \in BOOLEAN, NEW row \in {standing, Row(Ours, "active", says, 0)},
         Seal(row, body, says, enveloped)
  PROVE  IInv'
<1> DEFINE files    == Files(row, body, says, enveloped)
           manifest == Manifest(files, says)
           nonce    == Cardinality(tokens)
           subject  == Subject(manifest)
           made(token) == Sealed(Ours, files, manifest, token)
           seal(token) == [package |-> made(token), at |-> clock, standing |-> standing]
<1>1. UNCHANGED <<clock, standing>> /\ clock \in 1..MaxMoment /\ clock \in Nat /\ says \in 1..clock
  <2>1. UNCHANGED <<clock, standing>>
    BY DEF Seal, Publish
  <2>2. clock \in 1..MaxMoment /\ says \in Moments
    BY DEF Seal, IInv, ClockInv
  <2> QED
    BY <2>1, <2>2, AttestationAssumption DEF Moments
<1>2. PICK token :
         /\ package' = made(token) /\ sealed' = sealed \cup {seal(token)}
         /\ token # Absent => Stamping(token, subject) /\ IsFcn(token) /\ Backed(token, tokens')
         /\ TokenInv' /\ tokens \subseteq tokens'
  <2>1. CASE Publish(made(Absent)) /\ UNCHANGED tokens
    <3>1. TokenInv'
      BY <1>1, <2>1 DEF IInv, TokenInv
    <3>2. package' = made(Absent) /\ sealed' = sealed \cup {seal(Absent)} /\ tokens \subseteq tokens'
      BY <2>1 DEF Publish
    <3> QED
      BY <3>1, <3>2
  <2>2. ASSUME NEW moment \in AuthorityMoments,
               NEW reply \in Replies(subject, moment, nonce), Kept(reply, subject, nonce),
               Publish(made(reply.token)), tokens' = tokens \cup {Genuine(subject, moment, nonce)}
        PROVE  /\ package' = made(reply.token) /\ sealed' = sealed \cup {seal(reply.token)}
               /\ Stamping(reply.token, subject) /\ IsFcn(reply.token) /\ Backed(reply.token, tokens')
               /\ TokenInv' /\ tokens \subseteq tokens'
    <3> HIDE DEF subject
    <3>1. TokenInv' /\ tokens \subseteq tokens'
      BY <1>1, <2>2, TokenAdded DEF IInv
    <3>2. Stamping(reply.token, subject) /\ IsFcn(reply.token) /\ Backed(reply.token, tokens')
      BY <2>2, KeptReply DEF IInv
    <3>3. package' = made(reply.token) /\ sealed' = sealed \cup {seal(reply.token)}
      BY <2>2 DEF Publish
    <3> QED
      BY <3>1, <3>2, <3>3
  <2>3. \/ Publish(made(Absent)) /\ UNCHANGED tokens
        \/ \E moment \in AuthorityMoments : \E reply \in Replies(subject, moment, nonce) :
              /\ Kept(reply, subject, nonce) /\ Publish(made(reply.token))
              /\ tokens' = tokens \cup {Genuine(subject, moment, nonce)}
    BY DEF Seal
  <2> HIDE DEF made, seal, subject, nonce
  <2> QED
    BY <2>1, <2>2, <2>3
<1>3. ClockInv'
  BY <1>1 DEF IInv, ClockInv
<1>4. IsPackage(made(token)) /\ made(token).files = files /\ made(token).tsr = token /\ made(token).twice = FALSE
  <2> HIDE DEF files, manifest
  <2>1. PICK p : p = Sealed(Ours, files, manifest, token)
    OBVIOUS
  <2>2. IsPackage(p)
    BY <2>1 DEF Sealed, IsPackage
  <2>3. p.files = files /\ p.tsr = token /\ p.twice = FALSE
    BY <2>1 DEF Sealed
  <2> QED
    BY <2>1, <2>2, <2>3
<1>5. SealInv'
  <2>1. \A s \in sealed :
           /\ s.at \in 1..clock' /\ s.standing.key = Ours
           /\ \E says_ \in 1..s.at, body_ \in Bodies, enveloped_ \in BOOLEAN :
                 \E row_ \in {s.standing, Row(Ours, "active", says_, 0)} :
                    SealedBy(s, row_, body_, says_, enveloped_)
    BY <1>1, SealsKept DEF IInv
  <2> DEFINE s == seal(token)
  <2>2. s.at = clock /\ s.standing = standing /\ s.package = made(token)
    BY DEF seal
  <2>3. standing.key = Ours
    BY DEF IInv, ClockInv, Row
  <2>4. SealedBy(s, row, body, says, enveloped)
    <3>1. s.package.tsr = token
      BY <1>4, <2>2
    <3>2. s.package = Sealed(Ours, files, manifest, s.package.tsr)
      BY <2>2, <3>1
    <3>3. s.package.tsr # Absent => Stamping(s.package.tsr, Subject(manifest))
      BY <1>2, <2>2, <3>1
    <3> HIDE DEF s
    <3> QED
      BY <3>2, <3>3 DEF SealedBy
  <2> HIDE DEF s
  <2>5. \A u \in sealed' : u \in sealed \/ u = s
    BY <1>2 DEF s
  <2>6. /\ s.at \in 1..clock' /\ s.standing.key = Ours
        /\ \E says_ \in 1..s.at, body_ \in Bodies, enveloped_ \in BOOLEAN :
              \E row_ \in {s.standing, Row(Ours, "active", says_, 0)} :
                 SealedBy(s, row_, body_, says_, enveloped_)
    BY <1>1, <2>2, <2>3, <2>4
  <2> QED
    BY <2>1, <2>5, <2>6 DEF SealInv
<1>6. PackageInv'
  <2>1. IsFcn(made(token).files) /\ RingOK(made(token).files)
    <3>1. IsFcn(files)
      BY FilesAreFcn
    <3>2. RingOK(files)
      <4>1. row \in RingRows
        BY <1>1, RowsThere, AttestationAssumption DEF IInv
      <4>2. Filed(files, row, body, says)
        BY FilesHold
      <4> HIDE DEF files
      <4>3. files["ring"] = <<row>>
        BY <4>2 DEF Filed
      <4> QED
        BY <4>1, <4>3 DEF RingOK
    <3> HIDE DEF files, made
    <3> QED
      BY <1>4, <3>1, <3>2
  <2>2. \E s \in sealed' : made(token).sig = s.package.sig
    <3>1. seal(token) \in sealed' /\ seal(token).package = made(token)
      BY <1>2
    <3> QED
      BY <3>1
  <2>3. token # Unread /\ (token # Absent => Backed(token, tokens'))
    BY <1>2, NotNull, TimeStampAssumption
  <2> HIDE DEF made
  <2>4. PackageOK(made(token), sealed', tokens')
    BY <1>4, <2>1, <2>2, <2>3 DEF PackageOK, Closed
  <2> QED
    BY <1>2, <2>4 DEF PackageInv
<1> QED
  BY <1>2, <1>3, <1>5, <1>6 DEF IInv


\* Whatever is done to a package, one field of it is exchanged, or all of it was made
\* under another key.
LEMMA ChangedHow ==
  ASSUME NEW p, NEW q \in Changed(p), IsFcn(p.files), RingOK(p.files), ~ Abandoned(p)
  PROVE  \/ \E files : IsFcn(files) /\ RingOK(files) /\ q = [p EXCEPT !.files = files]
         \/ \E m : q = [p EXCEPT !.manifest = m]
         \/ \E t \in Tokens(p) \cup {Absent} : q = [p EXCEPT !.tsr = t]
         \/ ~ TokensAreRead /\ q = [p EXCEPT !.tsr = Unread]
         \/ q = [p EXCEPT !.twice = TRUE]
         \/ q = [p EXCEPT !.sig = Garbled]
         \/ q \in Resigned
<1> DEFINE Refiled == \E files : IsFcn(files) /\ RingOK(files) /\ q = [p EXCEPT !.files = files]
<1>1. ASSUME NEW name, NEW contents, q \in With(p, name, contents),
             name = "ring" => contents \subseteq Seq(RingRows) \cup {Unread}
      PROVE  Refiled
  <2>1. PICK content \in contents : q = [p EXCEPT !.files = Put(p.files, name, content)]
    BY <1>1 DEF With
  <2>2. IsFcn(Put(p.files, name, content))
    BY DEF Put, IsFcn
  <2>3. RingOK(Put(p.files, name, content))
    <3>1. CASE name = "ring"
      <4>1. Put(p.files, name, content)["ring"] = content /\ content \in Seq(RingRows) \cup {Unread}
        BY <1>1, <2>1, <3>1 DEF Put
      <4> QED
        BY <4>1 DEF RingOK, Closed
    <3>2. CASE name # "ring"
      <4>1. /\ "ring" \in DOMAIN Put(p.files, name, content) => "ring" \in DOMAIN p.files
            /\ "ring" \in DOMAIN p.files => Put(p.files, name, content)["ring"] = p.files["ring"]
        BY <3>2 DEF Put
      <4> QED
        BY <4>1 DEF RingOK
    <3> QED
      BY <3>1, <3>2
  <2> QED
    BY <2>1, <2>2, <2>3
<1>2. ASSUME NEW name, q = Without(p, name)
      PROVE  Refiled
  <2> DEFINE left == [n \in DOMAIN p.files \ {name} |-> p.files[n]]
  <2>1. IsFcn(left)
    BY DEF IsFcn
  <2>2. RingOK(left)
    BY DEF RingOK
  <2> QED
    BY <1>2, <2>1, <2>2 DEF Without
<1>0. Rings(p) \subseteq Seq(RingRows)
  <2>1. p.files["ring"] \in Seq(RingRows)
    BY DEF RingOK, Abandoned
  <2>2. \A key \in Keys : Row(key, "active", 0, 0) \in RingRows
    BY DEF Row, RingRows
  <2>3. \A status \in {"active", "revoked", "lost"} : Row(Ours, status, 0, 0) \in RingRows
    BY AttestationAssumption DEF Row, RingRows
  <2>4. { Append(p.files["ring"], Row(key, "active", 0, 0)) : key \in Keys } \subseteq Seq(RingRows)
    BY <2>1, <2>2
  <2>5. { <<Row(Ours, status, 0, 0)>> : status \in {"active", "revoked", "lost"} } \subseteq Seq(RingRows)
    <3> SUFFICES ASSUME NEW status \in {"active", "revoked", "lost"}
                 PROVE  <<Row(Ours, status, 0, 0)>> \in Seq(RingRows)
      OBVIOUS
    <3>1. Row(Ours, status, 0, 0) \in RingRows
      BY <2>3
    <3> QED
      BY <3>1
  <2> QED
    BY <2>4, <2>5 DEF Rings
<1> DEFINE Remanifested == \E m : q = [p EXCEPT !.manifest = m]
           Restamped    == \E t \in Tokens(p) \cup {Absent} : q = [p EXCEPT !.tsr = t]
           Outgrown     == ~ TokensAreRead /\ q = [p EXCEPT !.tsr = Unread]
           Twice        == q = [p EXCEPT !.twice = TRUE]
           Unsigned     == q = [p EXCEPT !.sig = Garbled]
           B == With(p, "ring", Rings(p))
           C == With(p, "dsse", {Envelope(key, body) : key \in Keys, body \in Bodies} \cup {Garbled})
           E == { Without(p, name) : name \in DOMAIN p.files }
           F == UNION { With(p, name, {Unread}) : name \in DOMAIN p.files \cap MayNotBeRead }
           G == { [p EXCEPT !.manifest = m] : m \in Edits(p.manifest) \cup {Garbled} }
           H == { [p EXCEPT !.tsr = t] : t \in Tokens(p) \cup {Absent} }
           I == { [p EXCEPT !.tsr = Unread] : t \in {"tsr"} \cap MayNotBeRead }
           J == { [p EXCEPT !.twice = TRUE], [p EXCEPT !.sig = Garbled] }
<1>3. Changed(p) = With(p, "entries", Entries(p)) \cup B \cup C \cup With(p, "extra", {"extra"})
                   \cup E \cup F \cup G \cup H \cup I \cup J \cup Resigned
  BY DEF Changed
<1>4. q \in E => Refiled
  <2> HIDE DEF Refiled
  <2> QED
    BY <1>2
<1>5. q \in F => Refiled
  <2> HIDE DEF Refiled
  <2> QED
    BY <1>1
<1>6. q \in G => Remanifested
  BY Zenon
<1>7. q \in H => Restamped
  BY Zenon
<1>8. q \in I => Outgrown
  BY Zenon DEF TokensAreRead
<1>9. q \in J => Twice \/ Unsigned
  BY Zenon
<1> HIDE DEF Refiled, B, C
<1>10. q \in With(p, "entries", Entries(p)) \/ q \in B \/ q \in C \/ q \in With(p, "extra", {"extra"})
       => Refiled
  BY <1>0, <1>1 DEF B, C
<1> HIDE DEF Remanifested, Restamped, Outgrown, Twice, Unsigned, E, F, G, H, I, J
<1>11. Refiled \/ Remanifested \/ Restamped \/ Outgrown \/ Twice \/ Unsigned \/ q \in Resigned
  BY <1>3, <1>4, <1>5, <1>6, <1>7, <1>8, <1>9, <1>10
<1> QED
  BY <1>11, Zenon DEF Refiled, Remanifested, Restamped, Outgrown, Twice, Unsigned

\* A token that takes the place of another on the way is backed as well.
LEMMA TokenBacked ==
  ASSUME NullsAreNoRecords, ClockInv, TokenInv, NEW p, NEW t \in Tokens(p) \cup {Absent}
  PROVE  t # Unread /\ (t \notin Closed => Backed(t, tokens))
<1>1. clock \in 1..MaxMoment /\ \A u \in tokens : Vouched(u) /\ u.time \in 1..MaxMoment
  BY AttestationAssumption DEF ClockInv, TokenInv
<1>2. CASE t \in {Absent, Garbled}
  BY <1>2, TimeStampAssumption DEF Closed
<1>3. CASE t \in tokens
  <2>1. IsFcn(t) /\ Backed(t, tokens)
    BY <1>1, <1>3, GenuineBacked
  <2> QED
    BY <2>1, NotNull
<1>4. CASE t \in Spliced(Subject(p.manifest))
  <2>1. PICK u \in tokens, m \in 1..MaxMoment : t = Exchanged(u, Subject(p.manifest), m)
    BY <1>4 DEF Spliced
  <2>2. IsFcn(t) /\ Backed(t, tokens)
    BY <1>1, <2>1, SplicedBacked
  <2> QED
    BY <2>2, NotNull
<1>5. CASE t \in { Issue(Homemade, <<Homemade>>, Subject(p.manifest), 0, m, Absent) : m \in 1..MaxMoment }
  <2>1. PICK m \in 1..MaxMoment : t = Issue(Homemade, <<Homemade>>, Subject(p.manifest), 0, m, Absent)
    BY <1>5
  <2>2. IsFcn(t) /\ Backed(t, tokens)
    BY <2>1, HomemadeBacked
  <2> QED
    BY <2>2, NotNull
<1> QED
  BY <1>2, <1>3, <1>4, <1>5 DEF Tokens

LEMMA ChangedOK ==
  ASSUME NullsAreNoRecords, ClockInv, TokenInv, NEW p, NEW q \in Changed(p),
         PackageOK(p, sealed, tokens), ~ Abandoned(p)
  PROVE  PackageOK(q, sealed, tokens)
<1>1. IsPackage(p) /\ IsFcn(p.files) /\ RingOK(p.files) /\ p.twice \in BOOLEAN
  BY DEF PackageOK
<1> DEFINE fields == [files |-> p.files, manifest |-> p.manifest, tsr |-> p.tsr, twice |-> p.twice,
                      sig |-> p.sig]
<1>2. p = fields
  BY <1>1 DEF IsPackage
<1>3. ASSUME NEW files, IsFcn(files), RingOK(files), q = [p EXCEPT !.files = files]
      PROVE  PackageOK(q, sealed, tokens)
  <2>1. /\ IsPackage(q) /\ q.files = files /\ q.tsr = p.tsr /\ q.twice = p.twice /\ q.sig = p.sig
    BY <1>2, <1>3 DEF IsPackage
  <2> QED
    BY <1>3, <2>1 DEF PackageOK
<1>4. ASSUME NEW m, q = [p EXCEPT !.manifest = m]
      PROVE  PackageOK(q, sealed, tokens)
  <2>1. /\ IsPackage(q) /\ q.files = p.files /\ q.tsr = p.tsr /\ q.twice = p.twice /\ q.sig = p.sig
    BY <1>2, <1>4 DEF IsPackage
  <2> QED
    BY <2>1 DEF PackageOK
<1>5. ASSUME NEW t, q = [p EXCEPT !.tsr = t], TokensAreRead => t # Unread,
             t \notin Closed => Backed(t, tokens)
      PROVE  PackageOK(q, sealed, tokens)
  <2>1. /\ IsPackage(q) /\ q.files = p.files /\ q.tsr = t /\ q.twice = p.twice /\ q.sig = p.sig
    BY <1>2, <1>5 DEF IsPackage
  <2> QED
    BY <1>5, <2>1 DEF PackageOK
<1>6. CASE q = [p EXCEPT !.twice = TRUE]
  <2>1. /\ IsPackage(q) /\ q.files = p.files /\ q.tsr = p.tsr /\ q.twice = TRUE /\ q.sig = p.sig
    BY <1>2, <1>6 DEF IsPackage
  <2> QED
    BY <2>1 DEF PackageOK
<1>7. CASE q = [p EXCEPT !.sig = Garbled]
  <2>1. /\ IsPackage(q) /\ q.files = p.files /\ q.tsr = p.tsr /\ q.twice = p.twice /\ q.sig = Garbled
    BY <1>2, <1>7 DEF IsPackage
  <2> QED
    BY <2>1 DEF PackageOK
<1>8. CASE q \in Resigned
  <2>1. PICK key \in Keys \ {Ours}, body \in Bodies : q = Remade(key, body)
    BY <1>8 DEF Resigned
  <2> DEFINE files == Files(Row(key, "active", 1, 0), body, 1, FALSE)
             manifest == Manifest(files, 1)
  <2>2. IsFcn(files) /\ RingOK(files)
    <3>1. IsFcn(files)
      BY FilesAreFcn
    <3>2. RingOK(files)
      <4>1. Row(key, "active", 1, 0) \in RingRows
        BY RowsThere
      <4>2. Filed(files, Row(key, "active", 1, 0), body, 1)
        BY FilesHold
      <4> HIDE DEF files
      <4>3. files["ring"] = <<Row(key, "active", 1, 0)>>
        BY <4>2 DEF Filed
      <4> QED
        BY <4>1, <4>3 DEF RingOK
    <3> QED
      BY <3>1, <3>2
  <2>3. q = Sealed(key, files, manifest, Absent)
    BY <2>1 DEF Remade
  <2> HIDE DEF files, manifest
  <2>4. IsPackage(q)
    BY <2>3 DEF Sealed, IsPackage
  <2>5. q.files = files /\ q.tsr = Absent /\ q.twice = FALSE
    BY <2>3 DEF Sealed
  <2>6. q.sig.key = key
    <3>1. q.sig = [key |-> key, over |-> Anchored(manifest, Absent)]
      BY <2>3 DEF Sealed
    <3> QED
      BY <3>1
  <2> QED
    BY <2>2, <2>4, <2>5, <2>6, TimeStampAssumption DEF PackageOK, Closed
<1>9. ASSUME NEW t \in Tokens(p) \cup {Absent}, q = [p EXCEPT !.tsr = t]
      PROVE  PackageOK(q, sealed, tokens)
  BY <1>5, <1>9, TokenBacked
<1>10. ASSUME ~ TokensAreRead, q = [p EXCEPT !.tsr = Unread]
       PROVE  PackageOK(q, sealed, tokens)
  BY <1>5, <1>10 DEF Closed
<1> QED
  BY <1>1, <1>3, <1>4, <1>6, <1>7, <1>8, <1>9, <1>10, ChangedHow

LEMMA ChangeStep == ASSUME NullsAreNoRecords, IInv, Change PROVE IInv'
<1>1. UNCHANGED <<clock, standing, sealed, tokens>> /\ package # Absent /\ package' \in Changed(package)
      /\ ~ Abandoned(package)
  BY DEF Change
<1>2. ClockInv' /\ TokenInv' /\ SealInv'
  BY <1>1 DEF IInv, ClockInv, TokenInv, SealInv
<1>3. PackageOK(package', sealed, tokens)
  BY <1>1, ChangedOK DEF IInv, PackageInv
<1> QED
  BY <1>1, <1>2, <1>3 DEF IInv, PackageInv

LEMMA NextInv == ASSUME NullsAreNoRecords, IInv, [Next]_vars PROVE IInv'
<1>1. CASE Tick
  BY <1>1, TickStep
<1>2. CASE Retire \/ Revoke
  BY <1>2, StandingStep
<1>3. CASE Restamp
  BY <1>3, RestampStep
<1>4. CASE Change
  BY <1>4, ChangeStep
<1>5. CASE \E body \in Bodies, says \in 1..MaxMoment, enveloped \in BOOLEAN :
              \E row \in {standing, Row(Ours, "active", says, 0)} : Seal(row, body, says, enveloped)
  BY <1>5, SealStep
<1>6. CASE UNCHANGED vars
  BY <1>6 DEF vars, IInv, ClockInv, TokenInv, SealInv, PackageInv
<1> QED
  BY <1>1, <1>2, <1>3, <1>4, <1>5, <1>6 DEF Next

\* The inductive invariant holds of every behaviour: of every package a reader may be given,
\* our key made its signature over what it sealed, or another key did, or nobody.
THEOREM Invariance == ASSUME NullsAreNoRecords PROVE Spec => []IInv
<1>1. Init => IInv
  BY InitInv
<1>2. IInv /\ [Next]_vars => IInv'
  BY NextInv
<1> QED
  BY <1>1, <1>2, PTL DEF Spec

---------------------------------------------------------------------------
(* What is accepted of our key.                                            *)

\* The row the signature was checked with: it is in the ring the package carries.
LEMMA SigningRowIs ==
  ASSUME NEW p, PackageOK(p, sealed, tokens), ~ Abandoned(p), SigningRow(p) # NoRow
  PROVE  /\ SigningRow(p).key \in Keys
         /\ p.sig = [key |-> SigningRow(p).key, over |-> p.manifest]
<1> DEFINE ring    == p.files["ring"]
           signers == { k \in DOMAIN ring : /\ ring[k].key \in Keys
                                            /\ p.sig = [key |-> ring[k].key, over |-> p.manifest] }
           first   == CHOOSE k \in signers : \A j \in signers : k <= j
<1>1. ring \in Seq(RingRows)
  BY DEF PackageOK, RingOK, Abandoned
<1>2. signers \subseteq Nat /\ SigningRow(p) = (IF signers = {} THEN NoRow ELSE ring[first])
  BY <1>1 DEF SigningRow
<1>3. signers # {}
  <2> HIDE DEF signers
  <2> QED
    BY <1>2
<1>4. first \in signers
  <2> HIDE DEF signers
  <2>1. \E k \in signers : \A j \in signers : k <= j
    BY <1>2, <1>3, FirstExists
  <2> QED
    BY <2>1
<1>5. SigningRow(p) = ring[first]
  <2> HIDE DEF signers, first
  <2> QED
    BY <1>2, <1>3
<1> HIDE DEF first
<1> QED
  BY <1>4, <1>5

\* A caller who has our key in mind, and no other, accepts under no other.
LEMMA OursSigned ==
  ASSUME NEW c, NEW row, TrustState(c, row) # "untrusted", c.require => TrustState(c, row) = "trusted",
         c.require \in BOOLEAN, Fingerprints(c) \subseteq {Ours},
         <<c.pubkey, c.ring, c.require>> # <<Absent, Absent, FALSE>>
  PROVE  row # NoRow /\ row.key = Ours
<1>1. row # NoRow
  BY DEF TrustState
<1>2. CASE Fingerprints(c) # {}
  BY <1>1, <1>2 DEF TrustState
<1>3. CASE Fingerprints(c) = {}
  <2>1. ~ Requested(c) /\ TrustState(c, row) = "embedded_key_only"
    BY <1>1, <1>3 DEF TrustState
  <2> QED
    BY <2>1 DEF Requested
<1> QED
  BY <1>1, <1>2, <1>3

LEMMA CallerHas ==
  ASSUME NEW c \in Callers
  PROVE  /\ c.require \in BOOLEAN /\ c.store \in {Absent, Unread, <<Anchor>>}
         /\ c.ring # Absent => c.pubkey = Absent
<1>1. PICK who \in ((Keys \cup {Absent, Garbled}) \X {Absent}) \cup ({Absent} \X Keyrings),
           store \in {Absent, Unread, <<Anchor>>}, require \in BOOLEAN :
              c = Caller(who[1], who[2], store, require)
  BY DEF Callers
<1> QED
  BY <1>1 DEF Caller

\* A package as it was sealed, with what its manifest says of its token.
AsSealed(p, files, manifest, token) ==
    /\ IsPackage(p) /\ p.files = files /\ p.tsr = token /\ p.twice = FALSE
    /\ p.manifest = Anchored(manifest, token)
    /\ p.sig = [key |-> Ours, over |-> Anchored(manifest, token)]
LEMMA SealedIs ==
  ASSUME NEW files, NEW manifest, NEW token, NEW p, p = Sealed(Ours, files, manifest, token)
  PROVE  AsSealed(p, files, manifest, token)
<1>1. IsPackage(p)
  BY DEF Sealed, IsPackage
<1>2. p.files = files /\ p.tsr = token /\ p.twice = FALSE /\ p.manifest = Anchored(manifest, token)
  BY DEF Sealed
<1>3. p.sig = [key |-> Ours, over |-> Anchored(manifest, token)]
  BY DEF Sealed
<1> QED
  BY <1>1, <1>2, <1>3 DEF AsSealed

\* What anchoring says in a manifest.
AnchoredAs(m, files, says, token) ==
    /\ m.files = files /\ m.head = files["entries"] /\ m.root = files["entries"] /\ m.created = says
    /\ token = Absent => m.anchor = "none"
    /\ token # Absent => m.anchor = "rfc3161" /\ m.block = Block(token)
    /\ Subject(m) = Subject(Manifest(files, says)) /\ IsFcn(m)
LEMMA TwoFields ==
  ASSUME NEW files, NEW e, NEW says, NEW x, NEW y, NEW anchor, NEW block, NEW m,
         m = [files |-> files, head |-> e, root |-> e, created |-> says, anchor |-> x, block |-> y]
  PROVE  [m EXCEPT !.anchor = anchor, !.block = block]
         = [files |-> files, head |-> e, root |-> e, created |-> says, anchor |-> anchor, block |-> block]
<1> DEFINE n == [files |-> files, head |-> e, root |-> e, created |-> says, anchor |-> anchor, block |-> y]
<1>1. [m EXCEPT !.anchor = anchor] = n
  OBVIOUS
<1>2. [n EXCEPT !.block = block]
      = [files |-> files, head |-> e, root |-> e, created |-> says, anchor |-> anchor, block |-> block]
  OBVIOUS
<1>3. [m EXCEPT !.anchor = anchor, !.block = block] = [[m EXCEPT !.anchor = anchor] EXCEPT !.block = block]
  OBVIOUS
<1> QED
  BY <1>1, <1>2, <1>3

LEMMA SubjectOf ==
  ASSUME NEW files, NEW e, NEW says, NEW x, NEW y, NEW m,
         m = [files |-> files, head |-> e, root |-> e, created |-> says, anchor |-> x, block |-> y]
  PROVE  Subject(m) = [files |-> files, head |-> e, root |-> e, created |-> says, anchor |-> "pending",
                       block |-> Absent]
<1>1. Subject(m) = [m EXCEPT !.anchor = "pending", !.block = Absent]
  BY Zenon DEF Subject
<1>2. [m EXCEPT !.anchor = "pending", !.block = Absent]
      = [files |-> files, head |-> e, root |-> e, created |-> says, anchor |-> "pending", block |-> Absent]
  <2> DEFINE n == [files |-> files, head |-> e, root |-> e, created |-> says, anchor |-> "pending",
                   block |-> y]
  <2>1. [m EXCEPT !.anchor = "pending"] = n
    OBVIOUS
  <2>2. [n EXCEPT !.block = Absent]
        = [files |-> files, head |-> e, root |-> e, created |-> says, anchor |-> "pending", block |-> Absent]
    OBVIOUS
  <2>3. [m EXCEPT !.anchor = "pending", !.block = Absent]
        = [[m EXCEPT !.anchor = "pending"] EXCEPT !.block = Absent]
    OBVIOUS
  <2> QED
    BY <2>1, <2>2, <2>3
<1> QED
  BY <1>1, <1>2, Zenon

LEMMA AnchoredIs ==
  ASSUME NEW files, NEW says, NEW token
  PROVE  AnchoredAs(Anchored(Manifest(files, says), token), files, says, token)
<1>1. PICK m : m = Manifest(files, says)
  OBVIOUS
<1>2. m = [files |-> files, head |-> files["entries"], root |-> files["entries"], created |-> says,
           anchor |-> "none", block |-> Absent]
  BY <1>1 DEF Manifest
<1>3. PICK n : n = Anchored(m, token)
  OBVIOUS
<1>4. CASE token = Absent
  <2>1. n = m
    BY <1>3, <1>4 DEF Anchored
  <2>2. IsFcn(m)
    BY <1>2 DEF IsFcn
  <2> QED
    BY <1>1, <1>2, <1>3, <1>4, <2>1, <2>2 DEF AnchoredAs
<1>5. CASE token # Absent
  <2>1. n = [m EXCEPT !.anchor = "rfc3161", !.block = Block(token)]
    BY <1>3, <1>5, Zenon DEF Anchored
  <2>2. n = [files |-> files, head |-> files["entries"], root |-> files["entries"], created |-> says,
             anchor |-> "rfc3161", block |-> Block(token)]
    BY <1>2, <2>1, TwoFields
  <2>3. Subject(n) = Subject(m)
    BY <1>2, <2>2, SubjectOf
  <2>4. IsFcn(n)
    BY <2>2 DEF IsFcn
  <2>5. n.files = files /\ n.head = files["entries"] /\ n.root = files["entries"] /\ n.created = says
        /\ n.anchor = "rfc3161" /\ n.block = Block(token)
    BY <2>2
  <2> QED
    BY <1>1, <1>3, <1>5, <2>3, <2>4, <2>5 DEF AnchoredAs
<1> QED
  BY <1>4, <1>5

LEMMA SameFields ==
  ASSUME NEW p, NEW q, IsPackage(p), IsPackage(q), p.files = q.files, p.manifest = q.manifest,
         p.tsr = q.tsr, p.twice = q.twice, p.sig = q.sig
  PROVE  p = q
<1>1. p = [files |-> q.files, manifest |-> q.manifest, tsr |-> q.tsr, twice |-> q.twice, sig |-> q.sig]
  BY DEF IsPackage
<1> QED
  BY <1>1 DEF IsPackage

\* Functions that agree, member by member, are one.
LEMMA SameFiles ==
  ASSUME NEW f, NEW g, IsFcn(f), IsFcn(g), DOMAIN f = DOMAIN g, \A x \in DOMAIN f : f[x] = g[x]
  PROVE  f = g
<1>1. [x \in DOMAIN f |-> f[x]] = [x \in DOMAIN g |-> g[x]]
  OBVIOUS
<1> QED
  BY <1>1, Zenon DEF IsFcn

LEMMA AsItWasSealed ==
  ASSUME NullsAreNoRecords, TokensAreRead, IInv, package # Absent, NEW c \in Accepted,
         <<c.pubkey, c.ring, c.require>> # <<Absent, Absent, FALSE>>, Fingerprints(c) \subseteq {Ours}
  PROVE  package \in { s.package : s \in sealed }
<1> DEFINE row == SigningRow(package)
<1>1. c \in Callers /\ ~ Abandoned(package) /\ Sound(package) /\ Agreed(package, c)
  BY Verdict DEF Accepted
<1>2. PackageOK(package, sealed, tokens)
  BY DEF IInv, PackageInv
<1>3. row # NoRow /\ row.key = Ours
  <2>1. c.require \in BOOLEAN /\ TrustState(c, row) # "untrusted"
        /\ (c.require => TrustState(c, row) = "trusted")
    BY <1>1, CallerHas DEF Agreed
  <2> HIDE DEF row
  <2> QED
    BY <2>1, OursSigned
<1>4. package.sig = [key |-> Ours, over |-> package.manifest]
  BY <1>1, <1>2, <1>3, SigningRowIs
<1>5. PICK s \in sealed : package.sig = s.package.sig
  <2>1. package.sig # Garbled
    BY <1>1 DEF Abandoned, Closed
  <2>2. package.sig.key = Ours
    BY <1>4
  <2> QED
    BY <1>2, <2>1, <2>2 DEF PackageOK
<1>6. PICK files, says, token :
         AsSealed(s.package, files, Manifest(files, says), token) /\ IsFcn(files)
  <2>1. PICK says \in 1..s.at, body \in Bodies, enveloped \in BOOLEAN :
           \E r \in {s.standing, Row(Ours, "active", says, 0)} : SealedBy(s, r, body, says, enveloped)
    BY DEF IInv, SealInv
  <2>2. PICK r : SealedBy(s, r, body, says, enveloped)
    BY <2>1
  <2> DEFINE files == Files(r, body, says, enveloped)
  <2>3. s.package = Sealed(Ours, files, Manifest(files, says), s.package.tsr)
    BY <2>2 DEF SealedBy
  <2>4. IsFcn(files)
    BY FilesAreFcn
  <2> HIDE DEF files
  <2>5. AsSealed(s.package, files, Manifest(files, says), s.package.tsr)
    BY <2>3, SealedIs
  <2> QED
    BY <2>4, <2>5
<1> DEFINE m == package.manifest
<1>7. m = Anchored(Manifest(files, says), token) /\ m = s.package.manifest
  <2>1. s.package.sig = [key |-> Ours, over |-> Anchored(Manifest(files, says), token)]
        /\ s.package.manifest = Anchored(Manifest(files, says), token)
    BY <1>6 DEF AsSealed
  <2>2. s.package.sig = [key |-> Ours, over |-> m]
    BY <1>4, <1>5
  <2>3. [key |-> Ours, over |-> m].over = m
        /\ [key |-> Ours, over |-> Anchored(Manifest(files, says), token)].over
           = Anchored(Manifest(files, says), token)
    OBVIOUS
  <2> QED
    BY <2>1, <2>2, <2>3
<1>8. AnchoredAs(m, files, says, token)
  BY <1>7, AnchoredIs
<1>9. package.files = s.package.files
  <2>1. DOMAIN package.files = DOMAIN files
        /\ \A name \in DOMAIN package.files : package.files[name] = files[name]
    BY <1>1, <1>8 DEF Sound, FilesMatch, AnchoredAs
  <2>2. package.files = files
    BY <1>2, <1>6, <2>1, SameFiles DEF PackageOK
  <2> QED
    BY <1>6, <2>2 DEF AsSealed
<1>10. package.twice = s.package.twice
  BY <1>1, <1>2, <1>6 DEF PackageOK, AsSealed, Abandoned
<1>11. package.tsr = token
  <2>1. package.tsr # Unread
    BY <1>2 DEF PackageOK
  <2>2. TimeHolds(package, c)
    BY <1>1 DEF Agreed
  <2>3. CASE m.anchor = "none" /\ Token(package) = Absent
    <3>1. package.tsr = Absent
      BY <2>1, <2>3 DEF Token
    <3>2. token = Absent
      BY <1>8, <2>3 DEF AnchoredAs
    <3> QED
      BY <3>1, <3>2
  <2>4. CASE m.anchor = "rfc3161" /\ Stamped(package, c)
    <3>1. token # Absent /\ m.block = Block(token)
      BY <1>8, <2>4 DEF AnchoredAs
    <3>2. Block(token).digest = package.tsr
      BY <2>4, <3>1 DEF Stamped, HasStamp, TokenMatches
    <3>3. Block(token).digest = token
      BY DEF Block
    <3> QED
      BY <3>2, <3>3
  <2> QED
    BY <2>2, <2>3, <2>4 DEF TimeHolds
<1>12. package = s.package
  <2>1. IsPackage(package) /\ IsPackage(s.package) /\ package.tsr = s.package.tsr
    BY <1>2, <1>6, <1>11 DEF PackageOK, AsSealed
  <2> QED
    BY <1>5, <1>7, <1>9, <1>10, <2>1, SameFields
<1> QED
  BY <1>12

\* What verify_package() accepts for a caller who has our key in mind is, to the last member
\* and the token, a package our key sealed: whatever was replaced, added or removed on the way.
THEOREM AcceptedIsAsSealed ==
  ASSUME NullsAreNoRecords, TokensAreRead
  PROVE  Spec => []AcceptedAsSealed
<1>1. IInv => AcceptedAsSealed
  BY AsItWasSealed DEF AcceptedAsSealed
<1>2. Spec => []IInv
  BY Invariance
<1> QED
  BY <1>1, <1>2, PTL

---------------------------------------------------------------------------
(* What a moment rests on.                                                 *)

LEMMA StampHolds ==
  ASSUME NullsAreNoRecords, IInv, package # Absent, NEW c \in Accepted,
         c.store = <<Anchor>>, HasStamp(package, c.store)
  PROVE  /\ \E t \in tokens : t.imprint = Subject(package.manifest) /\ t.time = Moment(package, TRUE)
         /\ SignerFits(package.tsr)
         /\ c.ring = <<standing>> /\ standing.status = "retired" => Moment(package, TRUE) <= standing.na
<1> DEFINE row == SigningRow(package)
           tsr == package.tsr
<1>1. c \in Callers /\ ~ Abandoned(package) /\ Sound(package) /\ Agreed(package, c)
  BY Verdict DEF Accepted
<1>2. PackageOK(package, sealed, tokens)
  BY DEF IInv, PackageInv
<1>3. VerifyToken(tsr, Subject(package.manifest), Absent, Anchors(<<Anchor>>)).ok
  BY DEF HasStamp, TokenMatches
<1>4. /\ tsr # Garbled /\ tsr.imprint = Subject(package.manifest)
      /\ SignatureState(tsr) = "embedded_cert_only"
      /\ Evaluate(MatchSigner(tsr), tsr.certs, Anchors(<<Anchor>>), tsr.time) # "untrusted"
  BY <1>3, TokenHolds
<1>5. tsr \notin Closed
  BY <1>4 DEF HasStamp, Token, Closed
<1>6. SignerFits(tsr) /\ \E t \in tokens : t.imprint = tsr.imprint /\ t.time = tsr.time
  BY <1>2, <1>4, <1>5 DEF PackageOK, Backed
<1>7. Moment(package, TRUE) = tsr.time
  BY DEF Moment
<1>8. PICK t \in tokens : t.imprint = tsr.imprint /\ t.time = tsr.time
  BY <1>6
<1>9. ASSUME c.ring = <<standing>>, standing.status = "retired"
      PROVE  tsr.time <= standing.na
  <2>1. \A r \in Rows(row, c) : Accepts(r, tsr.time)
    <3>1. Stamped(package, c) = TRUE
      BY DEF Stamped, HasStamp
    <3> QED
      BY <1>1, <1>7, <3>1 DEF Agreed
  <2>2. standing = Row(Ours, "retired", 1, standing.na) /\ standing.key = Ours
        /\ standing.nb = 1 /\ standing.na \in Nat /\ standing.na # 0
    BY <1>9, AttestationAssumption DEF IInv, ClockInv, Row
  <2>3. c.ring \notin Closed /\ c.pubkey = Absent
    <3>1. IsFcn(<<standing>>)
      BY DEF IsFcn
    <3>2. c.ring # Absent /\ c.ring # Unread /\ c.ring # Garbled
      BY <1>9, <3>1, NotNull
    <3> QED
      BY <1>1, <3>2, CallerHas DEF Closed
  <2>4. Fingerprints(c) = {Ours}
    <3>1. { c.ring[k].key : k \in DOMAIN c.ring } = {Ours}
      BY <1>9, <2>2
    <3> QED
      BY <2>3, <3>1, AttestationAssumption, VerifyAssumption DEF Fingerprints
  <2>5. row # NoRow /\ row.key = Ours
    BY <1>1, <2>4 DEF Agreed, TrustState
  <2>6. TrustedRow(c, Ours) = standing
    <3>1. { k \in DOMAIN c.ring : c.ring[k].key = Ours } = {1}
      BY <1>9, <2>2
    <3>2. (CHOOSE k \in {1} : \A j \in {1} : j <= k) = 1
      OBVIOUS
    <3> QED
      BY <1>9, <2>3, <3>1, <3>2 DEF TrustedRow
  <2>7. standing # NoRow
    BY <2>2 DEF NoRow, Row
  <2>8. Accepts(standing, tsr.time)
    BY <2>1, <2>5, <2>6, <2>7 DEF Rows
  <2>9. tsr.time \in Nat
    BY <1>8, AttestationAssumption DEF IInv, TokenInv, ClockInv
  <2> QED
    BY <1>9, <2>2, <2>8, <2>9 DEF Accepts, Standing
<1> QED
  BY <1>4, <1>6, <1>7, <1>9

\* The moment verify_package() takes from a token that chains to the caller's anchor is one
\* the authority wrote over this very manifest, and the window of the key was open then.
THEOREM StampsAreBacked ==
  ASSUME NullsAreNoRecords
  PROVE  Spec => []StampedByThen
<1>1. IInv => StampedByThen
  BY StampHolds DEF StampedByThen
<1>2. Spec => []IInv
  BY Invariance
<1> QED
  BY <1>1, <1>2, PTL

---------------------------------------------------------------------------
(* What was sealed in good standing is accepted.                           *)

\* The package of a seal, before anything happened to it.
Fresh(p, row, body, says, token) ==
    \E files :
        /\ IsFcn(files) /\ Filed(files, row, body, says)
        /\ AsSealed(p, files, Manifest(files, says), token)
        /\ AnchoredAs(p.manifest, files, says, token)

LEMMA FreshPackage ==
  ASSUME NEW p, NEW row, NEW body, NEW says, NEW enveloped, NEW token, NEW files,
         files = Files(row, body, says, enveloped),
         p = Sealed(Ours, files, Manifest(files, says), token)
  PROVE  Fresh(p, row, body, says, token)
<1>1. IsFcn(files) /\ Filed(files, row, body, says)
  BY FilesAreFcn, FilesHold
<1>2. AsSealed(p, files, Manifest(files, says), token)
  BY SealedIs
<1>3. AnchoredAs(p.manifest, files, says, token)
  BY <1>2, AnchoredIs DEF AsSealed
<1> QED
  BY <1>1, <1>2, <1>3 DEF Fresh

\* Its own checks pass, and the row of its ring is the one it was checked with.
LEMMA FreshIsSound ==
  ASSUME NullsAreNoRecords, NEW p, NEW row, row.key = Ours, NEW body \in Bodies, NEW says, NEW token,
         Fresh(p, row, body, says, token)
  PROVE  ~ Abandoned(p) /\ Sound(p) /\ SigningRow(p) = row /\ row # NoRow
<1>1. PICK files :
         /\ IsFcn(files) /\ Filed(files, row, body, says)
         /\ AsSealed(p, files, Manifest(files, says), token)
         /\ AnchoredAs(p.manifest, files, says, token)
  BY DEF Fresh
<1> DEFINE e == [body |-> body, at |-> says, chained |-> TRUE, contract |-> "kept"]
<1>2. /\ p.files = files /\ p.tsr = token /\ p.twice = FALSE
      /\ p.sig = [key |-> Ours, over |-> p.manifest]
  BY <1>1 DEF AsSealed
<1>3. p.manifest.files = files /\ p.manifest.head = files["entries"] /\ p.manifest.root = files["entries"]
      /\ IsFcn(p.manifest)
  BY <1>1 DEF AnchoredAs
<1>4. /\ "entries" \in DOMAIN files /\ "ring" \in DOMAIN files
      /\ DOMAIN files \subseteq {"entries", "ring", "dsse"}
      /\ files["entries"] = e /\ files["ring"] = <<row>>
      /\ "dsse" \in DOMAIN files => files["dsse"] = Envelope(row.key, body)
  BY <1>1 DEF Filed
<1>5. IsFcn(e) /\ IsFcn(<<row>>) /\ IsFcn(Envelope(row.key, body)) /\ IsFcn(p.sig)
  <2>1. IsFcn(e) /\ IsFcn(<<row>>)
    BY DEF IsFcn
  <2>2. IsFcn(Envelope(row.key, body))
    BY DEF IsFcn, Envelope
  <2>3. IsFcn([key |-> Ours, over |-> p.manifest])
    BY DEF IsFcn
  <2> QED
    BY <1>2, <2>1, <2>2, <2>3
<1>6. ~ Abandoned(p)
  <2>1. files["entries"] \notin Closed /\ files["ring"] \notin Closed /\ p.manifest \notin Closed
        /\ p.sig \notin Closed
    <3> HIDE DEF e
    <3> QED
      BY <1>3, <1>4, <1>5, NotNull DEF Closed
  <2> QED
    BY <1>2, <1>4, <2>1 DEF Abandoned
<1>7. row # NoRow
  BY AttestationAssumption, VerifyAssumption DEF NoRow, Row
<1>8. SigningRow(p) = row
  <2> DEFINE ring == p.files["ring"]
             signers == { k \in DOMAIN ring : /\ ring[k].key \in Keys
                                              /\ p.sig = [key |-> ring[k].key, over |-> p.manifest] }
  <2>1. ring = <<row>>
    BY <1>2, <1>4
  <2>2. signers = {1}
    BY <1>2, <2>1, AttestationAssumption
  <2>3. (CHOOSE k \in {1} : \A j \in {1} : k <= j) = 1
    OBVIOUS
  <2>4. SigningRow(p) = (IF signers = {} THEN NoRow ELSE ring[CHOOSE k \in signers : \A j \in signers : k <= j])
    BY DEF SigningRow
  <2> HIDE DEF signers, ring
  <2> QED
    BY <2>1, <2>2, <2>3, <2>4
<1>9. FilesMatch(p)
  <2>1. \A name \in DOMAIN files : files[name] # Unread
    <3> HIDE DEF e
    <3> QED
      BY <1>4, <1>5, NotNull
  <2> QED
    BY <1>2, <1>3, <2>1 DEF FilesMatch
<1>10. \A check \in EnvelopeCheck(p, row) \cup DocumentCheck(p) : check.passed
  <2>1. \A check \in DocumentCheck(p) : check.passed
    <3> DEFINE holds == p.files["entries"].contract = "kept"
    <3>1. holds
      BY <1>2, <1>4
    <3>2. \A check \in DocumentCheck(p) :
             check = Check("sealed_document_is_a_contract_this_tool_knows", holds)
      BY DEF DocumentCheck
    <3> HIDE DEF holds
    <3> QED
      BY <3>1, <3>2, Passed
  <2>2. "dsse" \in DOMAIN files => EnvelopeHolds(files["dsse"], row.key) /\ files["dsse"] # Garbled
    <3> DEFINE v == Envelope(row.key, body)
               one == [key |-> row.key, over |-> body, keyid |-> row.key]
    <3>1. v.typed /\ v.payload = body /\ v.signatures = {one}
      BY DEF Envelope
    <3>2. body # Garbled
      BY AttestationAssumption
    <3>3. v # Garbled
      BY <1>5, NotNull
    <3> HIDE DEF v
    <3>4. EnvelopeHolds(v, row.key)
      BY <3>1, <3>2 DEF EnvelopeHolds
    <3> QED
      BY <1>4, <3>3, <3>4 DEF v
  <2>3. \A check \in EnvelopeCheck(p, row) : check.passed
    <3> DEFINE holds == /\ p.files["dsse"] # Garbled /\ row # NoRow
                        /\ EnvelopeHolds(p.files["dsse"], row.key)
    <3>1. \A check \in EnvelopeCheck(p, row) :
             check = Check("dsse_envelope_valid", holds) /\ "dsse" \in DOMAIN p.files
      BY DEF EnvelopeCheck
    <3>2. "dsse" \in DOMAIN p.files => holds
      BY <1>2, <1>7, <2>2
    <3> HIDE DEF holds
    <3> QED
      BY <3>1, <3>2, Passed
  <2> QED
    BY <2>1, <2>3
<1>11. p.files["entries"].chained /\ p.manifest.head = p.files["entries"] /\ p.manifest.root = p.files["entries"]
  BY <1>2, <1>3, <1>4
<1> QED
  BY <1>6, <1>7, <1>8, <1>9, <1>10, <1>11 DEF Sound

\* Its token, when it has one that the authority made, is found where it is looked for.
Good(token, imprint) ==
    /\ VerifyToken(token, imprint, Absent, <<>>).ok
    /\ token.signer = Authority /\ Vouched(token) /\ token.time \in 1..MaxMoment

LEMMA FreshStamp ==
  ASSUME NullsAreNoRecords, NEW p, NEW row, NEW body, NEW says, NEW token, token # Absent,
         Fresh(p, row, body, says, token), NEW files, p.files = files,
         Good(token, Subject(p.manifest)), NEW store \in {Absent, <<Anchor>>}
  PROVE  HasStamp(p, store) /\ Token(p) # Absent /\ p.manifest.anchor = "rfc3161"
<1>1. p.tsr = token /\ p.manifest.anchor = "rfc3161" /\ p.manifest.block = Block(token)
  BY DEF Fresh, AsSealed, AnchoredAs
<1>2. IsFcn(token) /\ token # Unread /\ token.certs = <<Authority, Anchor>> /\ token.signer = Authority
      /\ token.time \in 1..MaxMoment
  BY VouchedIs, NotNull DEF Good
<1>3. <<Anchor>> # Unread /\ Absent # Unread
  <2>1. IsFcn(<<Anchor>>)
    BY DEF IsFcn
  <2> QED
    BY <2>1, NotNull, TimeStampAssumption
<1>4. Block(token) # Absent /\ Claims(Block(token), token) /\ Block(token).digest = token
  <2>1. IsFcn(Block(token))
    BY DEF IsFcn, Block
  <2>2. Block(token) # Absent
    BY <2>1, NotNull
  <2>3. Block(token).time = token.time /\ Block(token).serial = token.serial /\ Block(token).digest = token
    BY DEF Block
  <2> QED
    BY <2>2, <2>3 DEF Claims
<1>5. MatchSigner(token) = Authority
  BY <1>2 DEF MatchSigner, ToSet
<1>6. Evaluate(MatchSigner(token), token.certs, Anchors(store), token.time) # "untrusted"
  <2>1. CASE store = Absent
    <3>1. Anchors(Absent) = <<>>
      BY DEF Anchors
    <3> QED
      BY <2>1, <3>1, UnknownChain
  <2>2. CASE store = <<Anchor>>
    <3>1. Evaluate(Authority, <<Authority, Anchor>>, Anchors(<<Anchor>>), token.time) = "trusted"
      BY <1>2, AuthorityAssumption
    <3> QED
      BY <1>2, <1>5, <2>2, <3>1
  <2> QED
    BY <2>1, <2>2
<1>7. VerifyToken(token, Subject(p.manifest), Absent, Anchors(store)).ok
  <2>1. VerifyToken(token, Subject(p.manifest), Absent, <<>>).ok
    BY DEF Good
  <2> QED
    BY <1>6, <2>1, TokenHolds
<1> QED
  BY <1>1, <1>2, <1>3, <1>4, <1>7 DEF HasStamp, TokenMatches, Token

LEMMA FreshAccepted ==
  ASSUME NullsAreNoRecords, ClockInv, NEW p, NEW row, NEW body \in Bodies, NEW at \in 1..MaxMoment,
         NEW token, Fresh(p, row, body, at, token),
         token # Absent => Good(token, Subject(p.manifest)),
         NEW judged, judged = (IF token = Absent THEN at ELSE token.time),
         row.key = Ours, Accepts(row, judged),
         NEW c \in {Plain, Caller(Absent, <<standing>>, <<Anchor>>, TRUE)},
         c # Plain => Accepts(standing, judged)
  PROVE  c \in AcceptedBy(p, Callers)
<1>1. ~ Abandoned(p) /\ Sound(p) /\ SigningRow(p) = row /\ row # NoRow
  BY FreshIsSound
<1>2. c.pubkey = Absent /\ c.store \in {Absent, <<Anchor>>}
  BY DEF Plain, Caller
<1>3. at \in Nat /\ at # 0 /\ judged \in Nat /\ judged # 0
  BY AttestationAssumption DEF Good
<1>4. c.store # Unread
  <2>1. IsFcn(<<Anchor>>)
    BY DEF IsFcn
  <2> QED
    BY <1>2, <2>1, NotNull, TimeStampAssumption
<1>5. TimeHolds(p, c) /\ Moment(p, Stamped(p, c)) = judged
  <2>1. CASE token = Absent
    <3>1. p.tsr = Absent /\ p.manifest.anchor = "none" /\ p.manifest.created = at
      BY <2>1 DEF Fresh, AsSealed, AnchoredAs
    <3>2. ~ Stamped(p, c) /\ TimeHolds(p, c)
      BY <3>1, TimeStampAssumption DEF Stamped, HasStamp, TimeHolds, Token
    <3>3. judged = at
      BY <2>1
    <3> QED
      BY <1>3, <3>1, <3>2, <3>3 DEF Moment
  <2>2. CASE token # Absent
    <3>1. p.tsr = token /\ judged = token.time
      BY <2>2 DEF Fresh, AsSealed, Good
    <3>2. HasStamp(p, c.store) /\ Token(p) # Absent /\ p.manifest.anchor = "rfc3161"
      BY <1>2, <2>2, FreshStamp
    <3> QED
      BY <1>4, <3>1, <3>2 DEF Stamped, TimeHolds, Moment
  <2> QED
    BY <2>1, <2>2
<1>6. CASE c = Plain
  <2>0. c.pubkey = Absent /\ c.ring = Absent /\ c.require = FALSE
    BY <1>6 DEF Plain, Caller
  <2>1. TrustedRow(c, row.key) = NoRow
    BY <2>0 DEF TrustedRow, Closed
  <2>2. Rows(row, c) = {row}
    BY <1>1, <2>1 DEF Rows
  <2>3. TrustState(c, row) = "embedded_key_only"
    BY <1>1, <2>0, VerifyAssumption DEF TrustState, Fingerprints, Requested, Closed
  <2>4. c \in Callers
    <3>1. <<Absent, Absent>> \in Bring /\ <<Absent, Absent>>[1] = Absent /\ <<Absent, Absent>>[2] = Absent
      BY DEF Bring
    <3> QED
      BY <1>6, <3>1, CallerMade DEF Plain
  <2> QED
    BY <1>1, <1>5, <2>0, <2>2, <2>3, <2>4, Verdict DEF Agreed
<1>7. CASE c # Plain
  <2>0. c = Caller(Absent, <<standing>>, <<Anchor>>, TRUE)
    BY <1>7
  <2>A. c.ring = <<standing>> /\ c.pubkey = Absent
    BY <2>0 DEF Caller
  <2>1. standing.key = Ours /\ standing # NoRow
    BY DEF ClockInv, Row, NoRow
  <2>2. c.ring \notin Closed
    <3>1. IsFcn(<<standing>>)
      BY DEF IsFcn
    <3> QED
      BY <2>A, <3>1, NotNull DEF Closed
  <2>3. TrustedRow(c, row.key) = standing
    <3>1. { k \in DOMAIN c.ring : c.ring[k].key = Ours } = {1}
      BY <2>A, <2>1
    <3>2. (CHOOSE k \in {1} : \A j \in {1} : j <= k) = 1
      OBVIOUS
    <3> QED
      BY <2>A, <2>2, <3>1, <3>2 DEF TrustedRow
  <2>4. Rows(row, c) = {row, standing}
    BY <1>1, <2>1, <2>3 DEF Rows
  <2>5. TrustState(c, row) = "trusted"
    <3>1. Ours \in { c.ring[k].key : k \in DOMAIN c.ring }
      BY <2>A, <2>1
    <3>2. Ours \in Fingerprints(c)
      BY <2>2, <3>1, AttestationAssumption DEF Fingerprints
    <3> QED
      BY <1>1, <3>2 DEF TrustState
  <2>6. c \in Callers
    <3>1. <<Absent, <<standing>> >> \in Bring /\ <<Absent, <<standing>> >>[1] = Absent
          /\ <<Absent, <<standing>> >>[2] = <<standing>>
      BY DEF Bring, Keyrings
    <3> QED
      BY <2>0, <3>1, CallerMade
  <2> QED
    BY <1>1, <1>5, <1>7, <2>4, <2>5, <2>6, Verdict DEF Agreed
<1> QED
  BY <1>6, <1>7

LEMMA AsGoodAsSealed ==
  ASSUME NullsAreNoRecords, IInv, NEW s \in sealed, package = s.package,
         InGoodStanding(s), ClocksAgree(s),
         NEW c \in {Plain, Caller(Absent, <<standing>>, <<Anchor>>, TRUE)},
         c # Plain => Accepts(standing, JudgedAt(s))
  PROVE  c \in Accepted
<1> DEFINE p == s.package
           token == s.package.tsr
<1>1. s.at \in 1..MaxMoment /\ s.standing.key = Ours
  BY AttestationAssumption DEF IInv, SealInv, ClockInv
<1>2. PICK says \in 1..s.at, body \in Bodies, enveloped \in BOOLEAN :
         \E row \in {s.standing, Row(Ours, "active", says, 0)} : SealedBy(s, row, body, says, enveloped)
  BY DEF IInv, SealInv
<1>3. PICK row \in {s.standing, Row(Ours, "active", says, 0)} : SealedBy(s, row, body, says, enveloped)
  BY <1>2
<1>4. PICK files : files = Files(row, body, says, enveloped)
  OBVIOUS
<1>5. /\ p = Sealed(Ours, files, Manifest(files, says), token)
      /\ token # Absent => Stamping(token, Subject(Manifest(files, says)))
  BY <1>3, <1>4 DEF SealedBy
<1>6. Fresh(p, row, body, says, token)
  <2> HIDE DEF token
  <2> QED
    BY <1>4, <1>5, FreshPackage
<1>7. p.manifest.created = says /\ Subject(p.manifest) = Subject(Manifest(files, says))
  <2>1. AsSealed(p, files, Manifest(files, says), token)
    BY <1>5, SealedIs
  <2>2. AnchoredAs(p.manifest, files, says, token)
    BY <2>1, AnchoredIs DEF AsSealed
  <2> QED
    BY <2>2 DEF AnchoredAs
<1>8. says = s.at
  BY <1>7 DEF InGoodStanding
<1>9. row.key = Ours /\ Accepts(row, s.at)
  <2>1. CASE row = s.standing
    BY <1>1, <2>1 DEF InGoodStanding
  <2>2. CASE row = Row(Ours, "active", says, 0)
    <3>1. row.key = Ours /\ row.status = "active" /\ row.nb = says /\ row.na = 0
      BY <2>2 DEF Row
    <3> QED
      BY <1>1, <1>8, <3>1, AttestationAssumption DEF Accepts, Standing
  <2> QED
    BY <2>1, <2>2
<1>10. token # Absent => Good(token, Subject(p.manifest))
  BY <1>5, <1>7 DEF Stamping, Good, InGoodStanding
<1>11. p.files["ring"] = <<row>>
  <2>1. AsSealed(p, files, Manifest(files, says), token)
    BY <1>5, SealedIs
  <2>2. p.files = files
    BY <2>1 DEF AsSealed
  <2>3. Filed(files, row, body, says)
    BY <1>4, FilesHold
  <2> QED
    BY <2>2, <2>3 DEF Filed
<1>12. JudgedAt(s) = (IF token = Absent THEN s.at ELSE token.time)
  BY DEF JudgedAt
<1>13. Accepts(row, JudgedAt(s))
  <2>1. CASE token = Absent
    BY <1>9, <1>12, <2>1
  <2>2. CASE token # Absent
    <3>1. row \in ToSet(<<row>>)
      BY DEF ToSet
    <3> QED
      BY <1>11, <2>2, <3>1 DEF ClocksAgree
  <2> QED
    BY <2>1, <2>2
<1> HIDE DEF p, token
<1>14. c \in AcceptedBy(p, Callers)
  BY <1>1, <1>6, <1>8, <1>9, <1>10, <1>12, <1>13, FreshAccepted DEF IInv
<1> QED
  BY <1>14 DEF Accepted, p

\* What our key sealed in good standing, saying when, verifies as it is, wherever the
\* authority's clock puts the token inside the window of the row the package carries: a
\* token that stamp() kept is then one that the reader's check of the same token accepts.
\* Nothing in stamp() compares the two clocks, so that much is assumed, as ClocksAgree.
THEOREM SealedIsAsAccepted ==
  ASSUME NullsAreNoRecords
  PROVE  Spec => []SealedIsAccepted
<1>1. IInv => SealedIsAccepted
  <2> DEFINE informed == Caller(Absent, <<standing>>, <<Anchor>>, TRUE)
  <2> SUFFICES ASSUME IInv, NEW s \in sealed, package = s.package,
                      InGoodStanding(s), ClocksAgree(s)
               PROVE  Plain \in Accepted /\ (Accepts(standing, JudgedAt(s)) => informed \in Accepted)
    BY DEF SealedIsAccepted
  <2>1. Plain \in Accepted
    BY AsGoodAsSealed
  <2>2. ASSUME Accepts(standing, JudgedAt(s)) PROVE informed \in Accepted
    BY <2>2, AsGoodAsSealed
  <2> QED
    BY <2>1, <2>2
<1>2. Spec => []IInv
  BY Invariance
<1> QED
  BY <1>1, <1>2, PTL
=============================================================================
