---------------------------- MODULE MCTrustWalk ----------------------------
(* A bounded instance of TrustWalk for TLC. *)
EXTENDS TrustWalk

Stamper == [Cert("tsa", "kt", "inter", "ki") EXCEPT !.stamping = TRUE, !.ca = FALSE, !.from = 1]
Server  == [Stamper EXCEPT !.name = "web", !.key = "kw", !.stamping = FALSE]
Inter   == [Cert("inter", "ki", "root", "kr") EXCEPT !.pathLen = 0]
Inter2  == [Cert("inter", "ki", "other", "ko") EXCEPT !.to = 1]          \* cross-signed
Rekeyed == Cert("inter", "kn", "root", "kr")                             \* same name, new key
Root    == Cert("root", "kr", "root", "kr")
Other   == Cert("other", "ko", "inter", "ki")                            \* closes a loop
Odd     == [Stamper EXCEPT !.name = "odd", !.key = "kd", !.signedWith = "kn"]
Deep    == [Stamper EXCEPT !.name = "deep", !.key = "kp", !.issuer = "other", !.signedWith = "ko"]

AllCerts    == {Stamper, Odd, Deep, Server, Inter, Inter2, Rekeyed, Root, Other}
AllLeaves   == {Stamper, Odd, Deep, Server, NoCert}
BothMoments == {1, 2}
Readable    == {"kt", "kw", "kd", "kp", "ki", "kr", "ko"}
=============================================================================
