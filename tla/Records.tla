------------------------------ MODULE Records ------------------------------
(***************************************************************************)
(* The record file a proxy leaves beside the session, and what assembling  *)
(* it says.  A file is a sequence of rows.  Content that no completeness   *)
(* decision reads (tool names, digests of arguments, wording) is left out: *)
(* an event is the JSON-RPC id of the call and the call whose answer it    *)
(* was settled with.                                                       *)
(***************************************************************************)
EXTENDS SequencesExt

NoAnswer == "no_answer"        \* result_sha256 is None
Stranger == "stranger"         \* settled with a message that answers no call
NoAnchor == "no_anchor"        \* Gap.after is None

---------------------------------------------------------------------------
(* Rows, as the recorder's methods build them.                             *)

Event(index, id) == [index |-> index, id |-> id, of |-> NoAnswer]

CallRow(event)   == [kind |-> "call", event |-> event]
ResultRow(event) == [kind |-> "result", event |-> event]
GapRow(reason, after) ==
    [kind |-> "gap", gap |-> [reason |-> reason, after |-> after]]
DiscoverRow      == [kind |-> "discover"]
EndRow           == [kind |-> "end"]
TornRow          == [kind |-> "torn"]    \* a line that will not parse

\* The identity a gap recorded now is anchored to: the last event observed.
Anchor(events) == IF events = <<>> THEN NoAnchor ELSE Last(events).id

\* What a request that carries no `_meta` leaves undeclared.
MetaGaps(after) == << GapRow("protocol_version_unknown", after),
                      GapRow("no_correlation_key", after) >>

---------------------------------------------------------------------------
(* One append.  A refused write leaves nothing; a torn one leaves part of  *)
(* a line, and whatever is appended next lands on that same line.          *)

Outcomes == {"written", "refused", "torn"}

EndsTorn(file) == file # <<>> /\ Last(file) = TornRow

Appended(file, row, outcome) ==
    CASE outcome = "refused" -> file
      [] outcome = "torn"    -> IF EndsTorn(file) THEN file ELSE Append(file, TornRow)
      [] outcome = "written" ->
            IF EndsTorn(file)
            THEN Append(Front(file), [kind |-> "garbled"])
            ELSE Append(file, row)

---------------------------------------------------------------------------
(* Assembling one part.  Rows about one index are merged: the first gives  *)
(* the call, every later one overwrites the result.                        *)

About(file, index) ==
    { k \in DOMAIN file : /\ file[k].kind \in {"call", "result"}
                          /\ file[k].event.index = index }

PartIndices(file) ==
    { file[k].event.index : k \in { n \in DOMAIN file : file[n].kind \in {"call", "result"} } }

PartEvent(file, index) ==
    LET rows  == About(file, index)
        first == CHOOSE k \in rows : \A j \in rows : k <= j
        last  == CHOOSE k \in rows : \A j \in rows : j <= k
    IN  [id |-> file[first].event.id, of |-> file[last].event.of]

PartEnded(file) == \E k \in DOMAIN file : file[k].kind = "end"

PartHoles(file) == { k \in DOMAIN file : file[k].kind \in {"gap", "torn", "garbled"} }

\* `complete: true`: the end was recorded and nothing recorded a hole.
PartComplete(file) ==
    /\ PartEnded(file)
    /\ PartHoles(file) = {}
    /\ \A index \in PartIndices(file) : PartEvent(file, index).of # NoAnswer
=============================================================================
