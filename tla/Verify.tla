------------------------------- MODULE Verify -------------------------------
(***************************************************************************)
(* attest/verify.py, with attest/package.py, dsse.py and keyring.py as far *)
(* as it reads them: what an evidence package is, and the verdict on it    *)
(* for a caller who may bring anchors of identity and of time.  The log    *)
(* inside, and what its chain and its tree establish, is EvidenceLog's     *)
(* subject: here it is one body, which is chained or is not.               *)
(***************************************************************************)
EXTENDS TimeStamp, FiniteSets

CONSTANT Keys   \* the keys that sign packages

ASSUME VerifyAssumption == {Absent, Unread, Garbled, "none"} \cap Keys = {}

\* Moments are numbers and 0 stands for one that is missing or cannot be read.

Row(key, status, nb, na) == [key |-> key, status |-> status, nb |-> nb, na |-> na]

\* evaluate(): what a row of a keyring says of a moment.
Standing(row, moment) ==
    IF row.status = "revoked" THEN "revoked"
    ELSE IF row.status \notin {"active", "retired"} THEN "unknown_status"
    ELSE IF row.nb = 0 /\ row.na = 0 THEN "unconstrained"
    ELSE IF moment = 0 THEN "no_time_evidence"
    ELSE IF row.nb # 0 /\ moment < row.nb THEN "before_validity"
    ELSE IF row.na # 0 /\ moment > row.na THEN "outside_validity"
    ELSE IF row.status = "retired" THEN "retired_within_validity"
    ELSE "active"
Accepts(row, moment) == Standing(row, moment) \in {"unconstrained", "retired_within_validity", "active"}

---------------------------------------------------------------------------
(* write_package().  A package is its listed files by name, the manifest,  *)
(* its signature, the token, and whether a name occurs in it twice.        *)

Subject(manifest) == [manifest EXCEPT !.anchor = "pending", !.block = Absent]

Manifest(files, created) ==
    [files |-> files, head |-> files["entries"], root |-> files["entries"],
     created |-> created, anchor |-> "none", block |-> Absent]

\* Mutant: the token's own digest is left out of the manifest.
BlockByTime(token) == [time |-> token.time, serial |-> token.serial, digest |-> Absent]

Block(token) == [time |-> token.time, serial |-> token.serial, digest |-> token]

Anchored(manifest, token) ==
    IF token = Absent THEN manifest
    ELSE [manifest EXCEPT !.anchor = "rfc3161", !.block = Block(token)]

Sealed(key, files, manifest, token) ==
    LET final == Anchored(manifest, token)
    IN  [files |-> files, manifest |-> final, tsr |-> token, twice |-> FALSE,
         sig |-> [key |-> key, over |-> final]]

---------------------------------------------------------------------------
(* verify_package(): the checks it records. *)

\* A check that was recorded, by its name, and whether it passed; none is recorded twice.
Check(name, passed) == [name |-> name, passed |-> passed]

Closed == {Absent, Unread, Garbled}

\* The returns before anything can be concluded: the verdict stays at failure.
Abandoned(p) ==
    \/ p.twice
    \/ p.manifest \in Closed \/ p.sig \in Closed
    \/ \E name \in {"entries", "ring"} : name \notin DOMAIN p.files \/ p.files[name] \in Closed

\* Every declared member is there with its digest, and no member is undeclared.
FilesMatch(p) ==
    /\ DOMAIN p.files = DOMAIN p.manifest.files
    /\ \A name \in DOMAIN p.files :
          p.files[name] # Unread /\ p.files[name] = p.manifest.files[name]

\* The first row of the carried ring whose key signed the manifest.
NoRow == Row("none", "none", 0, 0)
SigningRow(p) ==
    LET ring    == p.files["ring"]
        signers == { k \in DOMAIN ring : /\ ring[k].key \in Keys
                                         /\ p.sig = [key |-> ring[k].key, over |-> p.manifest] }
    IN  IF signers = {} THEN NoRow ELSE ring[CHOOSE k \in signers : \A j \in signers : k <= j]

\* verify_envelope(): a signature of this key over this payload, one that does not
\* name another key, and a statement whose shape is known.
EnvelopeHolds(envelope, key) ==
    LET over(s) == s.key = key /\ s.over = envelope.payload
    IN  /\ envelope.typed /\ envelope.payload # Garbled
        /\ \E s \in envelope.signatures : over(s)
        /\ \A s \in envelope.signatures : over(s) => s.keyid \in {Absent, key}

EnvelopeCheck(p, row) ==
    IF "dsse" \notin DOMAIN p.files \/ p.files["dsse"] = Unread THEN {}
    ELSE {Check("dsse_envelope_valid", /\ p.files["dsse"] # Garbled /\ row # NoRow
                                       /\ EnvelopeHolds(p.files["dsse"], row.key))}

\* _check_documents(): a body may declare no contract, one that is published and
\* kept to, or one that is neither.
DocumentCheck(p) ==
    IF p.files["entries"].contract = "none" THEN {}
    ELSE {Check("sealed_document_is_a_contract_this_tool_knows", p.files["entries"].contract = "kept")}

Claims(block, token) == block.time = token.time /\ block.serial = token.serial

\* Mutant: the token is known by what the manifest says of it.
MatchesByClaim(p, anchors) ==
    /\ VerifyToken(p.tsr, Subject(p.manifest), Absent, anchors).ok
    /\ p.manifest.block # Absent /\ Claims(p.manifest.block, p.tsr)

\* The token covers this manifest and is the one it was signed over.
TokenMatches(p, anchors) ==
    /\ VerifyToken(p.tsr, Subject(p.manifest), Absent, anchors).ok
    /\ p.manifest.block # Absent
    /\ Claims(p.manifest.block, p.tsr) /\ p.manifest.block.digest = p.tsr

Token(p) == IF p.tsr = Unread THEN Absent ELSE p.tsr

\* A caller's store of time anchors: load_store() raises on one it cannot read.
Anchors(store) == IF store = Absent THEN <<>> ELSE ByKey(store)

HasStamp(p, store) ==
    /\ p.manifest.anchor = "rfc3161" /\ Token(p) # Absent /\ store # Unread
    /\ TokenMatches(p, Anchors(store))

\* _check_timestamp().
TimeCheck(p, caller, stamped) ==
    LET name == "timestamp_matches_manifest"
    IN  IF p.manifest.anchor = "none" /\ Token(p) = Absent THEN {}
        ELSE IF p.manifest.anchor # "rfc3161" \/ Token(p) = Absent THEN {Check(name, FALSE)}
        ELSE {Check(name, stamped)}
             \cup IF caller.store = Absent THEN {}
                  ELSE {Check("tsa_trust_store_loaded", caller.store # Unread)}

\* _signing_moment().
Evidence(p, stamped) ==
    IF stamped THEN "rfc3161"
    ELSE IF p.manifest.created # 0 \/ p.files["entries"].at # 0 THEN "self_asserted" ELSE "none"
Moment(p, stamped) ==
    IF stamped THEN p.tsr.time
    ELSE IF p.manifest.created # 0 THEN p.manifest.created
    ELSE p.files["entries"].at

---------------------------------------------------------------------------
(* The caller: `pubkey` and `ring` as anchors, `store`, `require`. *)

\* _load_trusted_records(): a later row of one key stands for an earlier one.
TrustedRow(caller, key) ==
    IF caller.ring \in Closed THEN NoRow
    ELSE LET rows == { k \in DOMAIN caller.ring : caller.ring[k].key = key }
         IN  IF rows = {} THEN NoRow ELSE caller.ring[CHOOSE k \in rows : \A j \in rows : j <= k]

\* Mutant: the caller's row, when there is one, is the only one asked.
CallersRow(row, caller) ==
    LET own == TrustedRow(caller, row.key)
    IN  (IF own = NoRow THEN {row} ELSE {own}) \ {NoRow}

\* The rows that have a say about the signing key: the stricter decides.
Rows(row, caller) == {row, TrustedRow(caller, row.key)} \ {NoRow}

\* _check_key_validity().
ValidityCheck(p, caller, row, stamped) ==
    IF row = NoRow THEN {}
    ELSE {Check("signing_key_in_validity", \A r \in Rows(row, caller) : Accepts(r, Moment(p, stamped)))}

\* Mutant: a keyring that names no key is no request.
RequestedByContent(caller) == caller.pubkey \in Keys \/ caller.ring \notin {Absent, Unread, <<>>}

Requested(caller) == caller.pubkey # Absent \/ caller.ring # Absent

\* _load_anchors().
Fingerprints(caller) ==
    ({caller.pubkey} \cap Keys)
    \cup (IF caller.ring \in Closed THEN {} ELSE { caller.ring[k].key : k \in DOMAIN caller.ring } \cap Keys)

TrustState(caller, row) ==
    IF row = NoRow THEN "untrusted"
    ELSE IF Fingerprints(caller) # {}
         THEN IF row.key \in Fingerprints(caller) THEN "trusted" ELSE "untrusted"
    ELSE IF Requested(caller) THEN "untrusted"
    ELSE "embedded_key_only"

RequiredChecks == {"files_match_manifest", "chain_intact", "head_matches",
                   "merkle_root_matches", "signature_valid"}
AdvisoryChecks == {"key_trusted"}

PackageChecks(p, row) ==
    {Check("files_match_manifest", FilesMatch(p)),
     Check("chain_intact", p.files["entries"].chained),
     Check("head_matches", p.manifest.head = p.files["entries"]),
     Check("merkle_root_matches", p.manifest.root = p.files["entries"]),
     Check("signature_valid", row # NoRow)}
    \cup EnvelopeCheck(p, row) \cup DocumentCheck(p)

CallerChecks(p, caller, row, stamped) ==
    {Check("key_trusted", TrustState(caller, row) = "trusted")}
    \cup TimeCheck(p, caller, stamped) \cup ValidityCheck(p, caller, row, stamped)

\* settle(): what was not established or failed, and is not advisory, fails.
Settled(checks) ==
    /\ RequiredChecks \subseteq { check.name : check \in checks }
    /\ \A check \in checks : check.name \notin AdvisoryChecks => check.passed

\* verify_package(): the callers whose result is ok.  A check in which the caller has
\* no part settles it for all of them.
AcceptedBy(p, callers) ==
    IF Abandoned(p) THEN {}
    ELSE LET row     == SigningRow(p)
             common  == PackageChecks(p, row)
             stamped == [store \in { c.store : c \in callers } |-> HasStamp(p, store)]
             Positive(c) ==
                 /\ Settled(common \cup CallerChecks(p, c, row, stamped[c.store]))
                 /\ TrustState(c, row) # "untrusted"
                 /\ c.require => TrustState(c, row) = "trusted"
         IN  IF Settled(common) THEN { c \in callers : Positive(c) } ELSE {}
=============================================================================
