------------------------------ MODULE Capture ------------------------------
(***************************************************************************)
(* What a transport promises whoever reads its record: calls reach a tool, *)
(* their answers are learnt, and a verdict of "complete" is given at most  *)
(* once, when nothing that reached the tool is unknown.  After it nothing  *)
(* reaches the tool.  A session may also end without a verdict.            *)
(***************************************************************************)
EXTENDS FiniteSets

CONSTANT Calls

VARIABLES
    reached,   \* the calls a tool was handed
    learnt,    \* the calls whose own answer was recorded
    verdict    \* "open" or "complete"

vars == <<reached, learnt, verdict>>

Init == reached = {} /\ learnt = {} /\ verdict = "open"

Reach(c) ==
    /\ verdict = "open" /\ c \notin reached
    /\ reached' = reached \cup {c}
    /\ UNCHANGED <<learnt, verdict>>

Learn(c) ==
    /\ verdict = "open" /\ c \in reached
    /\ learnt' = learnt \cup {c}
    /\ UNCHANGED <<reached, verdict>>

Judge ==
    /\ verdict = "open" /\ learnt = reached
    /\ verdict' = "complete"
    /\ UNCHANGED <<reached, learnt>>

Next == Judge \/ \E c \in Calls : Reach(c) \/ Learn(c)

Spec == Init /\ [][Next]_vars

TypeOK == /\ learnt \subseteq reached /\ reached \subseteq Calls
          /\ verdict \in {"open", "complete"}

\* A complete session is one whose every call is known.
CompleteIsKnown == verdict = "complete" => learnt = reached
=============================================================================
