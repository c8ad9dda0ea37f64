---------------------------- MODULE Attestation ----------------------------
(***************************************************************************)
(* A package from the one who seals it to the one who verifies it: the     *)
(* writer of attest/package.py, an authority that stamps, time, a key that *)
(* is retired or revoked while somebody still holds it, and what may       *)
(* happen to the package on its way.  Verify says what a reader makes of   *)
(* it then.                                                                *)
(***************************************************************************)
EXTENDS Verify

CONSTANTS
    Ours,           \* the key readers know, one of Keys
    Bodies,         \* what a log may say
    Authority,      \* the certificate that stamps, issued by Anchor
    Anchor,         \* the time anchor readers have
    Homemade,       \* a time-stamping certificate that chains to nothing
    MayNotBeRead,   \* the members that may be too large to be read
    Skew,           \* how far the authority's clock is from the sealer's, at most
    MaxMoment,      \* bound on either clock
    MaxSeals,       \* bound on the packages sealed
    MaxStamps,      \* bound on the tokens issued
    MaxChanges      \* bound on the changes to one package

ASSUME AttestationAssumption ==
    /\ Ours \in Keys /\ Bodies # {} /\ Garbled \notin Bodies /\ Absent \notin Nat
    /\ MaxMoment \in Nat \ {0} /\ {Skew, MaxSeals, MaxStamps, MaxChanges} \subseteq Nat

\* At every moment the authority's certificate may stamp and chains to the anchor, by way
\* of the certificates its tokens carry, and the home-made one does not chain to it.
ASSUME AuthorityAssumption ==
    /\ Authority \notin {Anchor, Homemade} /\ Authority.stamping
    /\ \A moment \in 1..MaxMoment :
          /\ ValidAt(Authority, moment)
          /\ Evaluate(Authority, <<Authority, Anchor>>, Anchors(<<Anchor>>), moment) = "trusted"
          /\ Evaluate(Homemade, <<Homemade>>, Anchors(<<Anchor>>), moment) = "untrusted"

VARIABLES
    clock,     \* of those who seal, rotate and revoke
    standing,  \* the row of our key in the readers' keyring
    package,   \* the package a reader has, or Absent
    changes,   \* how often it was changed on its way
    sealed,    \* history: the packages our key signed, when, and how it stood then
    tokens     \* history: the tokens the authority issued

vars == <<clock, standing, package, changes, sealed, tokens>>

Init ==
    /\ clock = 1 /\ package = Absent /\ changes = 0 /\ sealed = {} /\ tokens = {}
    /\ standing = Row(Ours, "active", 1, 0)

Tick == clock < MaxMoment /\ clock' = clock + 1 /\ UNCHANGED <<standing, package, changes, sealed, tokens>>

\* keygen --rotate and keygen --revoke, as the readers' keyring comes to say.
Retire ==
    /\ standing.status = "active"
    /\ standing' = [standing EXCEPT !.status = "retired", !.na = clock]
    /\ UNCHANGED <<clock, package, changes, sealed, tokens>>
Revoke ==
    /\ standing.status # "revoked"
    /\ standing' = [standing EXCEPT !.status = "revoked"]
    /\ UNCHANGED <<clock, package, changes, sealed, tokens>>

---------------------------------------------------------------------------
(* Sealing *)

Envelope(key, payload) ==
    [typed |-> TRUE, payload |-> payload, signatures |-> {[key |-> key, over |-> payload, keyid |-> key]}]

\* The members with one more, or with another in the place of one.
Put(files, name, member) ==
    [n \in DOMAIN files \cup {name} |-> IF n = name THEN member ELSE files[n]]

\* A body says when its log began; the ring carries the row of the key.
Files(row, body, says, enveloped) ==
    LET entries == [body |-> body, at |-> says, chained |-> TRUE, contract |-> "kept"]
        listed  == [entries |-> entries, ring |-> <<row>>]
    IN  IF enveloped THEN Put(listed, "dsse", Envelope(row.key, body)) ELSE listed

\* What the authority's clock may say: nobody compares it with the sealer's.
AuthorityMoments == { m \in 1..MaxMoment : m <= clock + Skew /\ clock <= m + Skew }

Genuine(imprint, moment, nonce) ==
    Issue(Authority, <<Authority, Anchor>>, imprint, Cardinality(tokens), moment, nonce)

\* A token whose content was exchanged under its signature.
Exchanged(token, imprint, time) == [token EXCEPT !.imprint = imprint, !.time = time]
Spliced(imprint) == { Exchanged(t, imprint, m) : t \in tokens, m \in 1..MaxMoment }

\* What may come back when a stamp is asked for: the token, the same without its
\* certificate or from an authority of no standing, one that answers an earlier
\* request or was made from it, a refusal, something else, or nothing.
Replies(imprint, moment, nonce) ==
    LET genuine == Genuine(imprint, moment, nonce)
    IN  [status : {"granted"},
         token  : {genuine, [genuine EXCEPT !.certs = <<Anchor>>],
                   Issue(Homemade, <<Homemade>>, imprint, 0, 1, nonce), Absent}
                  \cup tokens \cup { [t EXCEPT !.nonce = nonce] : t \in Spliced(imprint) }]
        \cup {[status |-> "rejection", token |-> Absent], Garbled, Absent}

Publish(p) ==
    /\ package' = p /\ changes' = 0
    /\ sealed' = sealed \cup {[package |-> p, at |-> clock, standing |-> standing]}
    /\ UNCHANGED <<clock, standing>>

\* The holder of our key seals a body and says when, with a ring that says how the key
\* stands or that all is well: a signer says the truth, and somebody who came by a key
\* that is no longer active may say a moment it was good for.
Moments == IF standing.status = "active" THEN {clock} ELSE 1..clock

Seal(row, body, says, enveloped) ==
    /\ Cardinality(sealed) < MaxSeals /\ says \in Moments
    /\ LET files    == Files(row, body, says, enveloped)
           manifest == Manifest(files, says)
           nonce    == Cardinality(tokens)
       IN  \/ Publish(Sealed(Ours, files, manifest, Absent)) /\ UNCHANGED tokens
           \/ /\ Cardinality(tokens) < MaxStamps
              /\ \E moment \in AuthorityMoments :
                    /\ \E reply \in Replies(Subject(manifest), moment, nonce) :
                          /\ Kept(reply, Subject(manifest), nonce)
                          /\ Publish(Sealed(Ours, files, manifest, reply.token))
                    /\ tokens' = tokens \cup {Genuine(Subject(manifest), moment, nonce)}

\* The authority stamps the same manifest once more, or something of somebody else's.
Restamp ==
    /\ changes = 0 /\ Cardinality(tokens) < MaxStamps
    /\ \E imprint \in (IF package \in Closed THEN {} ELSE {Subject(package.manifest)}) \cup {Garbled},
          moment \in AuthorityMoments :
          tokens' = tokens \cup {Genuine(imprint, moment, Cardinality(tokens))}
    /\ UNCHANGED <<clock, standing, package, changes, sealed>>

---------------------------------------------------------------------------
(* On its way.  A member is replaced, removed, added, or spoiled.          *)

Tokens(p) ==
    tokens \cup Spliced(Subject(p.manifest)) \cup {Garbled}
    \cup { Issue(Homemade, <<Homemade>>, Subject(p.manifest), 0, m, Absent) : m \in 1..MaxMoment }

\* Everything said again under the other key, in the place of ours.
Remade(key, body) ==
    LET files == Files(Row(key, "active", 1, 0), body, 1, FALSE)
    IN  Sealed(key, files, Manifest(files, 1), Absent)
Resigned == { Remade(key, body) : key \in Keys \ {Ours}, body \in Bodies }

Entries(p) ==
    LET e == p.files["entries"]
    IN  {[e EXCEPT !.chained = FALSE], [e EXCEPT !.contract = "unknown"], Garbled}
        \cup { [e EXCEPT !.body = b] : b \in Bodies \ {e.body} }

Rings(p) ==
    { Append(p.files["ring"], Row(key, "active", 0, 0)) : key \in Keys }
    \cup { <<Row(Ours, status, 0, 0)>> : status \in {"active", "revoked", "lost"} }

With(p, name, contents) == { [p EXCEPT !.files = Put(p.files, name, content)] : content \in contents }
Without(p, name) == [p EXCEPT !.files = [n \in DOMAIN p.files \ {name} |-> p.files[n]]]

Edits(manifest) ==
    { [manifest EXCEPT !.created = 0], [manifest EXCEPT !.anchor = "none"],
      [manifest EXCEPT !.anchor = "rfc3161"], [manifest EXCEPT !.block = Absent] }

Changed(p) ==
    With(p, "entries", Entries(p)) \cup With(p, "ring", Rings(p))
    \cup With(p, "dsse", {Envelope(key, body) : key \in Keys, body \in Bodies} \cup {Garbled})
    \cup With(p, "extra", {"extra"})
    \cup { Without(p, name) : name \in DOMAIN p.files }
    \cup (UNION { With(p, name, {Unread}) : name \in DOMAIN p.files \cap MayNotBeRead })
    \cup { [p EXCEPT !.manifest = m] : m \in Edits(p.manifest) \cup {Garbled} }
    \cup { [p EXCEPT !.tsr = t] : t \in Tokens(p) \cup {Absent} }
    \cup { [p EXCEPT !.tsr = Unread] : t \in {"tsr"} \cap MayNotBeRead }
    \cup { [p EXCEPT !.twice = TRUE], [p EXCEPT !.sig = Garbled] }
    \cup Resigned

Change ==
    /\ package # Absent /\ changes < MaxChanges
    /\ ~ Abandoned(package)
    /\ package' \in Changed(package) /\ changes' = changes + 1
    /\ UNCHANGED <<clock, standing, sealed, tokens>>

Next ==
    \/ Tick \/ Retire \/ Revoke \/ Restamp \/ Change
    \/ \E body \in Bodies, says \in 1..MaxMoment, enveloped \in BOOLEAN :
          \E row \in {standing, Row(Ours, "active", says, 0)} : Seal(row, body, says, enveloped)

Spec == Init /\ [][Next]_vars

---------------------------------------------------------------------------
(* Properties, of every caller there may be. *)

\* What a caller may bring: a key or something that is none, a keyring that says what
\* the readers know or knew, is about others, is empty or cannot be read, a store of
\* time anchors or one that cannot be read, and the wish to be strict.
Caller(pubkey, ring, store, require) ==
    [pubkey |-> pubkey, ring |-> ring, store |-> store, require |-> require]
Keyrings ==
    {Unread, <<>>, <<standing>>, <<Row(Ours, "active", 1, 0)>>}
    \cup { <<Row(key, "active", 0, 0)>> : key \in Keys \ {Ours} }
Callers ==
    { Caller(who[1], who[2], store, require) :
        who \in ((Keys \cup {Absent, Garbled}) \X {Absent}) \cup ({Absent} \X Keyrings),
        store \in {Absent, Unread, <<Anchor>>}, require \in BOOLEAN }
Plain == Caller(Absent, Absent, Absent, FALSE)

Accepted == AcceptedBy(package, Callers)

\* Whoever asks for our key, or asks for a key and brings none, and accepts, has what
\* our key signed, to the last member: the log, the ring, the statement, the token.
AcceptedAsSealed ==
    package # Absent =>
        \A c \in Accepted :
            (<<c.pubkey, c.ring, c.require>> # <<Absent, Absent, FALSE>>) /\ Fingerprints(c) \subseteq {Ours} =>
                package \in { s.package : s \in sealed }

\* The moment a package is judged by: its token's, on the authority's clock, or the
\* sealer's own.
JudgedAt(s) == IF s.package.tsr = Absent THEN s.at ELSE s.package.tsr.time

\* It says when it was sealed, our key was good then, and the token is the authority's.
InGoodStanding(s) ==
    /\ s.package.manifest.created = s.at /\ Accepts(s.standing, s.at)
    /\ s.package.tsr # Absent => s.package.tsr.signer = Authority

\* The row it carries of our key is good at the token's moment too.
ClocksAgree(s) ==
    s.package.tsr # Absent => \A row \in ToSet(s.package.files["ring"]) : Accepts(row, JudgedAt(s))

\* A package our key sealed when it was good is accepted as it is, by whoever asks
\* nothing more and by whoever brings what the readers know, as long as the authority's
\* clock puts the token where the row of the key is good: stamp() does not see to that.
SealedIsAccepted ==
    \A s \in sealed :
        package = s.package /\ InGoodStanding(s) /\ ClocksAgree(s) =>
            /\ Plain \in Accepted
            /\ Accepts(standing, JudgedAt(s)) => Caller(Absent, <<standing>>, <<Anchor>>, TRUE) \in Accepted

\* "keeping it would put a claim in the manifest that the package itself contradicts"
\* (timestamp.py:1097-1098): a token of an authority whose clock is behind is kept, and the
\* package's own reader refuses it as signed before its key.
StampedIsAccepted ==
    \A s \in sealed : package = s.package /\ InGoodStanding(s) => Plain \in Accepted

Milder(d) ==
    { [c EXCEPT !.store = store] :
        c \in {d, Caller(Absent, Absent, d.store, FALSE)}, store \in {Absent, d.store} }

\* An anchor can only refuse: whatever is accepted for a caller is accepted for one
\* who brings no anchor of time, or none of identity, and is otherwise the same.
AnchorsOnlyRefuse ==
    package # Absent =>
        LET accepted == Accepted
        IN  \A d \in accepted : Milder(d) \subseteq accepted

\* Where a moment is a third party's word to a caller who knows the third party, the
\* content was there at that moment, and the signing key was good at that moment.
StampedByThen ==
    package # Absent =>
        \A c \in Accepted :
            c.store = <<Anchor>> /\ HasStamp(package, c.store) =>
                /\ \E t \in tokens : /\ t.imprint = Subject(package.manifest)
                                     /\ t.time = Moment(package, TRUE)
                /\ SignerFits(package.tsr)
                /\ c.ring = <<standing>> /\ standing.status = "retired" =>
                      Moment(package, TRUE) <= standing.na
=============================================================================
