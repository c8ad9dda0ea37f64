----------------------------- MODULE TimeStamp -----------------------------
(***************************************************************************)
(* attest/timestamp.py: what a time-stamp token says, what verify_token()  *)
(* makes of it and which reply of an authority stamp() keeps.  A digest is *)
(* the thing it was taken of, and a signature the key and what it covers.  *)
(***************************************************************************)
EXTENDS Trust

CONSTANTS
    Absent,    \* there is none of it
    Unread,    \* it is there, and cannot be read within the size that is allowed
    Garbled    \* it can be read, and is not what it should be

ASSUME TimeStampAssumption == Absent # Unread /\ Absent # Garbled /\ Unread # Garbled

\* What the authority signs: TSTInfo.
Info(token) == [alg |-> token.alg, imprint |-> token.imprint, serial |-> token.serial,
                time |-> token.time, nonce |-> token.nonce]

\* The attributes a signature may cover in place of the TSTInfo itself.
Attributes(digest, content) == [digest |-> digest, content |-> content]

\* The certificate the SignerInfo names, when the token carries it.
MatchSigner(token) == IF token.signer \in ToSet(token.certs) THEN token.signer ELSE NoCert

SignedBytes(token) == IF token.attrs = Absent THEN Info(token) ELSE token.attrs

\* Mutant: the attributes are not compared with what they are about.
TamperedNever(token) == token.attrs # Absent /\ token.attrs.content # "TSTInfo"

\* The attributes contradict the content: it was exchanged under its signature.
Tampered(token) ==
    /\ token.attrs # Absent
    /\ \/ token.attrs.content # "TSTInfo"
       \/ token.attrs.digest \notin {Absent, Info(token)}

\* Something the check needs is missing, or unknown to this build.
Uncheckable(token) ==
    \/ token.attrs # Absent /\ token.attrs.digest = Absent
    \/ MatchSigner(token) = NoCert
    \/ token.scheme # "fits"
    \/ MatchSigner(token).key \notin CheckableKeys

\* _check_signature().
SignatureState(token) ==
    IF ~ token.digestKnown THEN "not_verified"
    ELSE IF Tampered(token) THEN "invalid"
    ELSE IF Uncheckable(token) THEN "not_verified"
    ELSE IF token.signature = [key |-> MatchSigner(token).key, over |-> SignedBytes(token)]
         THEN "embedded_cert_only"
         ELSE "invalid"

\* Neither warning of _check_signer_certificate(): it may stamp, and was valid then.
SignerFits(token) ==
    LET cert == MatchSigner(token)
    IN  cert # NoCert => cert.stamping /\ ValidAt(cert, token.time)

\* verify_token().  expectedNonce is Absent for a reader, who did not ask.
VerifyToken(token, digest, expectedNonce, anchors) ==
    IF token = Garbled \/ ~ token.isTimeStamp THEN [ok |-> FALSE, chain |-> "unknown"]
    ELSE LET chain == Evaluate(MatchSigner(token), token.certs, anchors, token.time)
         IN  [chain |-> chain,
              ok    |-> /\ token.alg = "sha256" /\ token.imprint = digest
                        /\ expectedNonce \in {Absent, token.nonce}
                        /\ SignatureState(token) = "embedded_cert_only"
                        /\ chain # "untrusted"]

---------------------------------------------------------------------------
(* The writer's side. *)

\* PKI_STATUS: only these two come with a token.
GrantedStatuses == {"granted", "grantedWithMods"}

\* Mutant: whatever is granted is kept.
KeptAsGranted(reply, digest, nonce) ==
    reply \notin {Absent, Garbled} /\ reply.status \in GrantedStatuses /\ reply.token # Absent

\* stamp(): a reply that did not arrive, is not granted, or carries a token the
\* reader's own check would refuse, is an error and nothing is written.
Kept(reply, digest, nonce) ==
    /\ reply \notin {Absent, Garbled}
    /\ reply.status \in GrantedStatuses /\ reply.token # Absent
    /\ VerifyToken(reply.token, digest, nonce, <<>>).ok

\* A token as an authority makes it.
Issue(cert, certs, imprint, serial, time, nonce) ==
    LET blank == [isTimeStamp |-> TRUE, alg |-> "sha256", imprint |-> imprint, serial |-> serial,
                  time |-> time, nonce |-> nonce, certs |-> certs, signer |-> cert,
                  digestKnown |-> TRUE, scheme |-> "fits", attrs |-> Absent, signature |-> Absent]
        bound == [blank EXCEPT !.attrs = Attributes(Info(blank), "TSTInfo")]
    IN  [bound EXCEPT !.signature = [key |-> cert.key, over |-> SignedBytes(bound)]]
=============================================================================
