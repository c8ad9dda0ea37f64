--------------------------- MODULE MCStdioProxy ----------------------------
(* Bounded instances of StdioProxy for TLC: which messages are sent and     *)
(* what the server writes differs per run, the rest is the same.            *)
EXTENDS StdioProxy
CONSTANTS i1, i2, s1
TwoIds     == <<i1, i2>>
OwnIds     == {s1}            \* the server numbers its requests apart
SharedIds  == {i1}            \* the server numbers its requests as the agent does
CallsOnly  == {"call"}
SoundKinds == {"call", "discover", "notify", "garbage"}
OtherKinds == {"call", "ask", "reply", "odd"}
AllLines   == Lines
JustAnswers == {"answer"}
AnswersAndRequests == {"answer", "request"}
=============================================================================
