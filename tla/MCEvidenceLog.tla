--------------------------- MODULE MCEvidenceLog ---------------------------
(* A bounded instance of EvidenceLog for TLC. *)
EXTENDS EvidenceLog
OnePayload == {"said"}
=============================================================================
