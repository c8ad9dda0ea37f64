----------------------------- MODULE Transcript -----------------------------
(***************************************************************************)
(* The reader of the session files an agent leaves behind                  *)
(* (trace/claude_code.py) and the trace it makes of them (trace/model.py). *)
(*                                                                         *)
(* A source is a sequence of lines, one tool call or one result on each.   *)
(* A line that is not JSON, or not an object, is "garbage".  A moment of 0 *)
(* is a line without a timestamp; a digest of a value is the value.  Only  *)
(* the last line of a source may lack its "end": it is written in part, or *)
(* it is complete but for its newline, and then it is read like any other. *)
(***************************************************************************)
EXTENDS Naturals, Sequences, FiniteSets, SequencesExt

NoCall == 0
Line(kind, call, value, at) ==
  [kind |-> kind, call |-> call, value |-> value, at |-> at, end |-> "newline"]
Garbage == Line("garbage", NoCall, "none", 0)
Ends == {"newline", "missing", "cut off"}
Parses(line) == line.end # "cut off" /\ line.kind # "garbage"

\* One call of the trace (TraceEvent) and one declared hole of it (Gap), anchored to the call it
\* follows or to none.
Event(line) ==
  [call |-> line.call, args |-> line.value, result |-> "none", at |-> line.at]
Hole(reason, after, about) == [reason |-> reason, after |-> after, about |-> about]

(***************************************************************************)
(* One source                                                              *)
(***************************************************************************)

NothingRead == [events |-> << >>, holes |-> {}, repeats |-> 0]
Known(a, call) == {i \in DOMAIN a.events : a.events[i].call = call}

\* A mutant of CallRead: an event for every record, as before D-260.
CallReadAlways(a, line) == [a EXCEPT !.events = Append(@, Event(line))]

\* The first record of a call is its event; another is counted, and named when it disagrees.
CallRead(a, line) ==
  IF Known(a, line.call) = {} THEN [a EXCEPT !.events = Append(@, Event(line))]
  ELSE LET e == a.events[CHOOSE i \in Known(a, line.call) : TRUE]
       IN [a EXCEPT !.repeats = @ + 1,
                    !.holes = @ \cup {Hole("contradiction", e.call, <<"args", v>>) : v \in {line.value} \ {e.args}}]

\* A mutant of ResultRead: the last record of a result wins.
ResultReadLast(a, line) ==
  [a EXCEPT !.events = [i \in DOMAIN @ |-> IF @[i].call = line.call
                                             THEN [@[i] EXCEPT !.result = line.value] ELSE @[i]]]

\* The first record of a result is the one kept; one for no known call is passed over.
ResultRead(a, line) ==
  LET disagrees == {i \in Known(a, line.call) : a.events[i].result \notin {"none", line.value}}
  IN [a EXCEPT !.events = [i \in DOMAIN @ |->
                             IF i \in Known(a, line.call) \ disagrees
                               THEN [@[i] EXCEPT !.result = line.value] ELSE @[i]],
               !.holes = @ \cup {Hole("contradiction", line.call, <<"result", line.value>>) : i \in disagrees}]

\* One line: a record that does not parse names no call and is a hole of its own.
LineRead(a, line, where) ==
  IF ~Parses(line) THEN [a EXCEPT !.holes = @ \cup {Hole("unparsable", NoCall, where)}]
  ELSE IF line.kind = "call" THEN CallRead(a, line) ELSE ResultRead(a, line)

SourceRead(source, lines) ==
  FoldLeftDomain(LAMBDA a, n : LineRead(a, lines[n], <<source, n>>), NothingRead, lines)

(***************************************************************************)
(* One session                                                             *)
(***************************************************************************)

\* The key the events of a session are sorted by; no moment comes before every moment.
Earlier(r, s) ==
  \/ r.event.at < s.event.at
  \/ r.event.at = s.event.at /\ r.rank < s.rank
  \/ r.event.at = s.event.at /\ r.rank = s.rank /\ r.position < s.position

\* The session file and those of its sub-agents, read one by one and folded into one order.
Trace(sources, files) ==
  LET read == [k \in DOMAIN sources |-> SourceRead(sources[k], files[sources[k]])]
      rows == [k \in DOMAIN sources |->
                 [p \in DOMAIN read[k].events |->
                    [rank |-> k, position |-> p, event |-> read[k].events[p]]]]
      sorted == SortSeq(FlattenSeq(rows), Earlier)
  IN [events |-> [i \in DOMAIN sorted |-> sorted[i].event],
      read |-> FlattenSeq([k \in DOMAIN sources |-> read[k].events]),
      holes |-> UNION {read[k].holes : k \in DOMAIN sources}]

\* The holes of the document: the recorded ones, one for every call without a result, and the
\* end, which this format never records (_all_gaps).
AllHoles(t) ==
  LET last == IF t.events = << >> THEN NoCall ELSE t.events[Len(t.events)].call
  IN t.holes
     \cup {Hole("no result", e.call, << >>) : e \in {f \in Range(t.events) : f.result = "none"}}
     \cup {Hole("no end", last, << >>)}

\* A mutant of Position: where the event stood before the events were put in order.
PositionAsRead(t, call) ==
  LET at == {i \in DOMAIN t.read : t.read[i].call = call}
  IN IF Cardinality(at) = 1 THEN CHOOSE i \in at : TRUE ELSE 0

\* The position an identity resolves to: none when no event or more than one carries it.
Position(t, call) ==
  LET at == {i \in DOMAIN t.events : t.events[i].call = call}
  IN IF Cardinality(at) = 1 THEN CHOOSE i \in at : TRUE ELSE 0

\* The published document (Trace.to_dict).
Document(t) ==
  [events |-> t.events,
   holes |-> {[hole |-> h, index |-> Position(t, h.after)] : h \in AllHoles(t)}]

(***************************************************************************)
(* The directory of a scan                                                 *)
(***************************************************************************)

\* A mutant of FileStem: sessions of one name share a file, as before D-262.
FileStemUnnumbered(names, k) == names[k]

\* The file a session's trace goes to: its declared name, numbered when an earlier session of
\* the same scan had it (_file_stem).
FileStem(names, k) ==
  LET taken == Cardinality({j \in 1..k : names[j] = names[k]})
  IN IF taken = 1 THEN names[k] ELSE names[k] \o "-" \o ToString(taken)
=============================================================================
