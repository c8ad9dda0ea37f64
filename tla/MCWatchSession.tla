-------------------------- MODULE MCWatchSession ---------------------------
(* Bounded instances of WatchSession for TLC. *)
EXTENDS WatchSession
CONSTANTS alpha, zeta, c1, c2
MCNames  == <<alpha, zeta>>
OneName  == <<alpha>>
TwoCalls == <<c1, c2>>

Pair(a, z) == (alpha :> a) @@ (zeta :> z)
Mixed    == << {NoConfig, Pair("absent", "http"), Pair("stdio", "other"), Pair("http", "http")},
               {Pair("stdio", "http"), Pair("absent", "http")} >>
OneStdio == << {NoConfig, alpha :> "stdio"}, {NoConfig, alpha :> "stdio"} >>
=============================================================================
