--------------------------- MODULE MCAttestation ---------------------------
(* A bounded instance of Attestation for TLC. *)
EXTENDS Attestation

CONSTANTS said, other

TwoKeys   == {"ours", "theirs"}
TwoBodies == {said, other}
Symmetry  == Permutations(TwoBodies)
AnchorCert    == Cert("root", "kr", "root", "kr")
AuthorityCert == [Cert("tsa", "kt", "root", "kr") EXCEPT !.stamping = TRUE, !.ca = FALSE]
HomemadeCert  == [Cert("tsa", "kh", "root", "kh") EXCEPT !.stamping = TRUE, !.ca = FALSE]
Readable  == {"kr", "kt", "kh"}
Listed    == {"entries", "ring", "dsse"}
Members   == Listed \cup {"tsr"}
=============================================================================
