------------------------------- MODULE MCScan -------------------------------
(* Bounded instances of Scan for TLC: two sessions, the first with a sub-agent, that declare *)
(* one name, or names that meet when they are numbered.                                      *)
EXTENDS Scan
TwoSessions == <<"a", "b">>
ThreeSessions == <<"a", "b", "c">>
OneName == "a" :> "x" @@ "b" :> "x"
NumberedNames == "a" :> "x" @@ "b" :> "x" @@ "c" :> "x-2"
=============================================================================
