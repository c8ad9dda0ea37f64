---------------------------- MODULE StdioProxy -----------------------------
(***************************************************************************)
(* proxy/stdio.py: the process between the agent and one stdio server.     *)
(* Three run at once: the agent, the server, and the proxy, which has two  *)
(* threads of its own: serve(), the only one that records, and _pump(),    *)
(* which reads the server's output.  The deadline of _read_line() may pass *)
(* whenever there is no line to read; a write to the server has none, and  *)
(* waits while the server leaves its input unread and the pipe is full.    *)
(* The agent reads what it is handed.  The record file is written as in    *)
(* Recorder; here every append succeeds.                                   *)
(***************************************************************************)
EXTENDS Records

CONSTANTS
    AgentIds,    \* the ids of the agent's messages, in the order it uses them
    AgentKinds,  \* the kinds of message the agent sends
    ServerKinds, \* the kinds of line the server writes
    ServerIds,   \* the ids of the server's own requests
    Chatty,      \* whether the server may write notifications without end
    MaxSaid,     \* bound on the lines the server writes
    MaxLaunches  \* bound on the times the agent launches the proxy

NoId == "no_id"
Requests == {"call", "ask", "discover", "reply"}
Kinds    == Requests \cup {"notify", "garbage", "odd"}
Relayed  == Requests \cup {"notify", "garbage"}
Lines    == {"answer", "request", "note", "junk", "undecodable"}

ASSUME StdioAssumption ==
    /\ AgentKinds \subseteq Kinds /\ ServerKinds \subseteq Lines
    /\ Chatty \in BOOLEAN
    /\ MaxSaid \in Nat /\ MaxLaunches \in Nat \ {0}
    /\ AgentIds \in Seq(ToSet(AgentIds)) /\ IsInjective(AgentIds)
    /\ {NoId, NoAnswer, Stranger} \cap ToSet(AgentIds) = {}

VARIABLES
    agent,     \* "open", "quiet" (closed its output) or "gone" (both ends)
    toProxy,   \* the agent's lines serve() has not read
    toAgent,   \* every line the agent was handed
    used,      \* how many messages the agent has sent
    server,    \* [alive, reads, writes, half, full]: the process and its two pipes
    reached,   \* the messages delivered to a server, with the launch it belongs to
    taken,     \* the messages serve() has read in this launch
    said,      \* every whole line the server wrote
    pipe,      \* the server's output not yet read by _pump()
    partial,   \* self._partial is not empty
    pumping,   \* the _pump() thread is running
    lines,     \* self._lines
    pc,        \* where serve() is
    current,   \* the message being written to the server, or the request being answered
    outOfBand, \* self.out_of_band
    events,    \* recorder.events
    file,      \* the record file
    launch     \* which launch of the proxy this is

agentVars  == <<agent, used>>
serverVars == <<server, said>>
pumpVars   == <<pipe, partial, pumping>>
vars == <<agentVars, toProxy, toAgent, serverVars, reached, taken, pumpVars, lines,
          pc, current, outOfBand, events, file, launch>>

NoMessage == [kind |-> "none", id |-> NoId]
Half      == [kind |-> "half"]      \* bytes of a line whose end is still to come
Eof       == [kind |-> "eof"]       \* the None _pump() leaves last
Leftover  == [kind |-> "leftover"]  \* a last line without its newline

Running == [alive |-> TRUE, reads |-> TRUE, writes |-> TRUE, half |-> FALSE, full |-> FALSE]
Exited  == [alive |-> FALSE, reads |-> FALSE, writes |-> FALSE, half |-> FALSE, full |-> FALSE]

Init ==
    /\ agent = "open" /\ toProxy = <<>> /\ toAgent = <<>> /\ used = 0
    /\ server = Exited /\ reached = {} /\ taken = {} /\ said = <<>>
    /\ pipe = <<>> /\ partial = FALSE /\ pumping = FALSE /\ lines = <<>>
    /\ pc = "start" /\ current = NoMessage /\ outOfBand = <<>>
    /\ events = <<>> /\ file = <<>> /\ launch = 1

---------------------------------------------------------------------------
(* The agent. *)

AgentSends(kind) ==
    /\ agent = "open" /\ used < Len(AgentIds)
    /\ used' = used + 1
    /\ toProxy' = Append(toProxy,
                     [kind |-> kind,
                      id   |-> IF kind \in Requests THEN AgentIds[used + 1] ELSE NoId])
    /\ UNCHANGED <<agent, taken, toAgent, serverVars, reached, pumpVars, lines, pc,
                   current, outOfBand, events, file, launch>>

AgentCloses ==
    /\ \/ agent = "open"  /\ agent' \in {"quiet", "gone"}
       \/ agent = "quiet" /\ agent' = "gone"
    /\ UNCHANGED <<used, taken, toProxy, toAgent, serverVars, reached, pumpVars, lines,
                   pc, current, outOfBand, events, file, launch>>

---------------------------------------------------------------------------
(* The server.  It answers what reached it in any order, late, twice or    *)
(* never; it may stop reading, stop writing, or exit.                      *)

Sayable ==
    [kind : ServerKinds \cap {"answer"}, 
     id : {m.id : m \in {r \in reached : /\ r.launch = launch
                                         /\ r.kind \in Requests \ {"reply"}}}]
    \cup [kind : ServerKinds \cap {"request"}, id : ServerIds]
    \cup [kind : ServerKinds \cap {"note", "junk", "undecodable"}, id : {NoId}]

ServerSays(line) ==
    /\ server.writes /\ Len(said) < MaxSaid
    /\ said' = Append(said, line)
    /\ pipe' = Append(pipe, [kind |-> line.kind, id |-> line.id, n |-> Len(said) + 1])
    /\ server' = [server EXCEPT !.half = FALSE]
    /\ UNCHANGED <<agentVars, taken, toProxy, toAgent, reached, partial, pumping, lines,
                   pc, current, outOfBand, events, file, launch>>

\* A notification that is not counted, written when the one before it was read.
ServerChats ==
    /\ Chatty /\ server.writes /\ ~server.half /\ pipe = <<>> /\ lines = <<>>
    /\ pipe' = <<[kind |-> "note", id |-> NoId, n |-> 0]>>
    /\ UNCHANGED <<agentVars, taken, toProxy, toAgent, serverVars, reached, partial, pumping,
                   lines, pc, current, outOfBand, events, file, launch>>

ServerWritesHalf ==
    /\ server.writes /\ ~server.half /\ Len(said) < MaxSaid
    /\ server' = [server EXCEPT !.half = TRUE]
    /\ pipe' = Append(pipe, Half)
    /\ UNCHANGED <<agentVars, taken, toProxy, toAgent, said, reached, partial, pumping,
                   lines, pc, current, outOfBand, events, file, launch>>

ServerStops ==
    /\ server.alive
    /\ \/ server.reads  /\ server' = [server EXCEPT !.reads = FALSE, !.full = FALSE]
       \/ server.writes /\ server' = [server EXCEPT !.writes = FALSE]
       \/ server' = Exited
    /\ UNCHANGED <<agentVars, taken, toProxy, toAgent, said, reached, pumpVars, lines,
                   pc, current, outOfBand, events, file, launch>>

\* The server leaves no room in its input for what is being written to it, or reads on.
ServerLags ==
    /\ pc = "sending" /\ server.reads
    /\ server' = [server EXCEPT !.full = ~@]
    /\ UNCHANGED <<agentVars, taken, toProxy, toAgent, said, reached, pumpVars, lines,
                   pc, current, outOfBand, events, file, launch>>

---------------------------------------------------------------------------
\* _pump(): the next thing in the server's output, or the end of it.
Pump ==
    /\ pumping
    /\ \/ /\ pipe # <<>>
          /\ pipe' = Tail(pipe)
          /\ CASE Head(pipe) = Half ->
                     partial' = TRUE /\ UNCHANGED <<lines, pumping>>
               [] Head(pipe).kind = "undecodable" ->
                     lines' = Append(lines, Eof) /\ pumping' = FALSE /\ UNCHANGED partial
               [] OTHER ->
                     lines' = Append(lines, Head(pipe)) /\ partial' = FALSE /\ UNCHANGED pumping
       \/ /\ pipe = <<>> /\ ~server.writes
          /\ lines' = lines \o (IF partial THEN <<Leftover, Eof>> ELSE <<Eof>>)
          /\ partial' = FALSE /\ pumping' = FALSE
          /\ UNCHANGED pipe
    /\ UNCHANGED <<agentVars, taken, toProxy, toAgent, serverVars, reached, pc, current,
                   outOfBand, events, file, launch>>

---------------------------------------------------------------------------
(* serve(), and the recorder it calls. *)

Gap(reason) == GapRow(reason, Anchor(events))

\* start(): without a server serve() returns, and close() is never reached.
Start ==
    /\ pc = "start"
    /\ \/ /\ server' = Running /\ pumping' = TRUE /\ pc' = "idle"
          /\ UNCHANGED file
       \/ /\ file' = Append(file, Gap("proxy_start_failed")) /\ pc' = "failed"
          /\ UNCHANGED <<server, pumping>>
    /\ UNCHANGED <<agentVars, taken, toProxy, toAgent, said, reached, pipe, partial, lines,
                   current, outOfBand, events, launch>>

\* Mutant: the answer overtakes what the server said before it.
OutAnswerFirst(pending, answer) == answer \o pending

\* What is written to the agent: first what was set aside, then the answer.
Out(pending, answer) == pending \o answer

\* _drain(), then the answer if there is one.  Writing to an agent that is
\* gone raises out of the loop and into its `finally`.
HandOver(pending, answer) ==
    LET out == Out(pending, answer) IN
    IF agent = "gone" /\ out # <<>>
    THEN pc' = "closing" /\ UNCHANGED <<toAgent, outOfBand>>
    ELSE pc' = "idle" /\ toAgent' = toAgent \o out /\ outOfBand' = <<>>

Message == Head(toProxy)

Reads(kinds) ==
    /\ pc = "idle" /\ toProxy # <<>> /\ Message.kind \in kinds
    /\ toProxy' = Tail(toProxy)
    /\ taken' = taken \cup {Message}

\* Mutant: a line that cannot be read is not worth a gap.
UnreadSilent == <<>>

\* What is recorded of a line that was forwarded unread.
Unread == <<Gap("unparsable_record")>>

\* JSON that is not an object, or a tools/call whose params are not one:
\* `.get` raises out of the loop before anything is recorded or forwarded.
ChokeOnOdd ==
    /\ Reads({"odd"})
    /\ pc' = "closing"
    /\ UNCHANGED <<agentVars, toAgent, serverVars, reached, pumpVars, lines, current,
                   outOfBand, events, file, launch>>

\* The event recorder.call() builds of a tools/call.
Observed(message) == Event(Len(events), message.id)

\* request(), notify() or a line that is not JSON, up to the write to the server: a
\* call is recorded before it is written.
Forward ==
    /\ Reads(Relayed)
    /\ IF Message.kind = "call"
       THEN LET event == Observed(Message)
            IN  events' = Append(events, event) /\ file' = Append(file, CallRow(event))
       ELSE UNCHANGED <<events, file>>
    /\ current' = Message /\ pc' = "sending"
    /\ UNCHANGED <<agentVars, toAgent, serverVars, reached, pumpVars, lines, outOfBand, launch>>

\* The write goes through.  A request is waited for; a notification is not; a line
\* that is not JSON went untouched, and is a hole.
Sent ==
    /\ pc = "sending" /\ server.reads /\ ~server.full
    /\ reached' = reached \cup {[kind |-> current.kind, id |-> current.id, launch |-> launch]}
    /\ \/ /\ current.kind \in Requests /\ pc' = "waiting"
          /\ UNCHANGED <<current, toAgent, outOfBand, file>>
       \/ /\ current.kind = "notify" /\ current' = NoMessage /\ HandOver(outOfBand, <<>>)
          /\ UNCHANGED file
       \/ /\ current.kind = "garbage" /\ current' = NoMessage /\ pc' = "idle"
          /\ file' = file \o Unread
          /\ UNCHANGED <<toAgent, outOfBand>>
    /\ UNCHANGED <<agentVars, taken, toProxy, serverVars, pumpVars, lines, events, launch>>

\* The server does not read any more: a hole, whatever was being written.
Refused ==
    /\ pc = "sending" /\ ~server.reads
    /\ file' = Append(file, Gap("transport_closed"))
    /\ current' = NoMessage
    /\ IF current.kind = "garbage"
       THEN pc' = "idle" /\ UNCHANGED <<toAgent, outOfBand>>
       ELSE HandOver(outOfBand, <<>>)
    /\ UNCHANGED <<agentVars, taken, toProxy, serverVars, reached, pumpVars, lines, events,
                   launch>>

\* Mutant: no gap is recorded.
UnansweredSilent(reason) ==
    /\ current' = NoMessage
    /\ HandOver(outOfBand, <<>>)
    /\ UNCHANGED <<events, file>>

\* request() hands back None: a gap is written, and the agent gets no answer.
Unanswered(reason) ==
    /\ file' = Append(file, Gap(reason))
    /\ current' = NoMessage
    /\ HandOver(outOfBand, <<>>)
    /\ UNCHANGED events

\* Mutant: the next message of the server is the answer.
IsNextMessage(line, message) == line.kind \in {"answer", "request"}

\* The reply to this message: by its id, whatever else the server said before.
IsAnswerTo(line, message) == line.kind \in {"answer", "request"} /\ line.id = message.id

\* The answer is recorded, as a result or an inventory, and handed over.
Answered(line) ==
    /\ IF current.kind = "call"
       THEN LET settled == [Last(events) EXCEPT
                               !.of = IF line.kind = "answer" THEN line.id ELSE Stranger]
            IN  /\ events' = Append(Front(events), settled)
                /\ file' = Append(file, ResultRow(settled))
       ELSE /\ UNCHANGED events
            /\ file' = IF current.kind = "discover" /\ line.kind = "answer"
                       THEN Append(file, DiscoverRow) ELSE file
    /\ current' = NoMessage
    /\ HandOver(outOfBand, <<line>>)

\* Kept for the agent; a note past the count is not, so that notes can be endless.
SetAside(line) ==
    /\ outOfBand' = IF line.n = 0 THEN outOfBand ELSE Append(outOfBand, line)
    /\ UNCHANGED <<pc, current, toAgent, events, file>>

\* _read_line() and _answer_to(), for one thing read.
ReadLine ==
    /\ pc = "waiting" /\ lines # <<>>
    /\ lines' = Tail(lines)
    /\ LET line == Head(lines) IN
       CASE line = Eof -> Unanswered(IF server.alive THEN "output_closed" ELSE "upstream_exited")
         [] line = Leftover \/ line.kind = "junk" -> Unanswered("response_truncated")
         [] line.kind \in {"answer", "request", "note"} ->
               IF IsAnswerTo(line, current) THEN Answered(line) ELSE SetAside(line)
    /\ UNCHANGED <<agentVars, taken, toProxy, serverVars, reached, pumpVars, launch>>

\* Mutant: half a message counts as an answer that is on its way.
DeadlineUnlessPartial ==
    /\ pc = "waiting" /\ lines = <<>> /\ ~partial
    /\ Unanswered("upstream_timeout")
    /\ UNCHANGED <<agentVars, taken, toProxy, serverVars, reached, pumpVars, lines, launch>>

\* The deadline passes with nothing to read.
Deadline ==
    /\ pc = "waiting" /\ lines = <<>>
    /\ Unanswered(IF partial THEN "response_truncated" ELSE "upstream_timeout")
    /\ UNCHANGED <<agentVars, taken, toProxy, serverVars, reached, pumpVars, lines, launch>>

EndOfInput ==
    /\ pc = "idle" /\ toProxy = <<>> /\ agent # "open"
    /\ pc' = "closing"
    /\ UNCHANGED <<agentVars, taken, toProxy, toAgent, serverVars, reached, pumpVars, lines,
                   current, outOfBand, events, file, launch>>

\* Mutant: the server is asked to end and never killed.
ClosePolitely ==
    /\ pc = "closing" /\ ~server.alive
    /\ pc' = "closed"
    /\ pumping' = FALSE
    /\ file' = Append(file, EndRow)
    /\ UNCHANGED <<agentVars, taken, toProxy, toAgent, serverVars, reached, pipe, partial,
                   lines, current, outOfBand, events, launch>>

\* close(): the server ends by itself or is killed, and the recorder says so.
Close ==
    /\ pc = "closing"
    /\ pc' = "closed"
    /\ server' = Exited /\ pumping' = FALSE
    /\ file' = Append(file, EndRow)
    /\ UNCHANGED <<agentVars, taken, toProxy, toAgent, said, reached, pipe, partial, lines,
                   current, outOfBand, events, launch>>

Kill ==
    /\ pc \notin {"closed", "failed", "killed"}
    /\ pc' = "killed" /\ pumping' = FALSE
    /\ UNCHANGED <<agentVars, taken, toProxy, toAgent, serverVars, reached, pipe, partial,
                   lines, current, outOfBand, events, file, launch>>

\* The agent starts the same command again: a new process, which opens the
\* record file afresh.
Relaunch ==
    /\ pc \in {"closed", "failed", "killed"} /\ agent = "open" /\ launch < MaxLaunches
    /\ launch' = launch + 1
    /\ toProxy' = <<>> /\ taken' = {} /\ outOfBand' = <<>> /\ current' = NoMessage
    /\ server' = Exited /\ pipe' = <<>> /\ partial' = FALSE /\ pumping' = FALSE
    /\ lines' = <<>> /\ events' = <<>> /\ file' = <<>> /\ pc' = "start"
    /\ UNCHANGED <<agentVars, toAgent, said, reached>>

Serve == \/ Start \/ ChokeOnOdd \/ Forward \/ Sent \/ Refused
         \/ ReadLine \/ Deadline \/ EndOfInput \/ Close

Environment ==
    \/ \E kind \in AgentKinds : AgentSends(kind)
    \/ AgentCloses
    \/ \E line \in Sayable : ServerSays(line)
    \/ ServerChats \/ ServerWritesHalf \/ ServerStops \/ ServerLags
    \/ Kill \/ Relaunch

Next == Serve \/ Pump \/ Environment

\* The proxy's two threads are scheduled, and a deadline that stays due passes.
Fairness == WF_vars(Serve) /\ WF_vars(Pump)

Spec     == Init /\ [][Next]_vars
FairSpec == Spec /\ Fairness
---------------------------------------------------------------------------
TypeOK ==
    /\ agent \in {"open", "quiet", "gone"} /\ used \in 0..Len(AgentIds)
    /\ pc \in {"start", "idle", "sending", "waiting", "closing", "closed", "failed", "killed"}
    /\ (current # NoMessage) <=> (current.kind \in Relayed)
    /\ {server.half, server.full} \subseteq BOOLEAN /\ (server.full => server.reads)
    /\ (server.reads \/ server.writes => server.alive)
    /\ partial \in BOOLEAN /\ pumping \in BOOLEAN
    /\ reached \subseteq [kind : Kinds, id : ToSet(AgentIds) \cup {NoId}, launch : 1..launch]
    /\ taken \subseteq [kind : Kinds, id : ToSet(AgentIds) \cup {NoId}]
    /\ \A i \in DOMAIN events : events[i].index = i - 1
    /\ launch \in 1..MaxLaunches

\* No call carries another call's answer, in whatever order answers come, late,
\* twice, or among notifications and requests of the server's own.
SettledByOwnAnswer ==
    \A i \in DOMAIN events : events[i].of \in {NoAnswer, events[i].id}

\* A record that assembles as complete has every call that reached this launch's
\* server, with the answer to it, and nothing reached the server unread.
CompleteCapture ==
    PartComplete(file) =>
        \A m \in reached :
            m.launch = launch =>
                /\ m.kind # "garbage"
                /\ m.kind = "call" =>
                      \E i \in PartIndices(file) :
                          PartEvent(file, i) = [id |-> m.id, of |-> m.id]

\* Every request that got nothing back has a hole of its own in the record.
Silent == { m \in taken : /\ m.kind \in Requests /\ m # current
                          /\ \A k \in DOMAIN toAgent : toAgent[k].id # m.id }
UnansweredIsDeclared ==
    agent # "gone" => Cardinality(Silent) <= Cardinality(PartHoles(file))

\* What the agent reads, the server wrote, and in that order: nothing is
\* invented, repeated or overtaken, not even by the answer it came before.
AgentReadsTheServer ==
    \A k \in DOMAIN toAgent :
        /\ toAgent[k].n \in DOMAIN said
        /\ said[toAgent[k].n] = [kind |-> toAgent[k].kind, id |-> toAgent[k].id]
        /\ \A j \in 1..k-1 : toAgent[j].n < toAgent[k].n

\* A wait for an answer ends, with the answer or with the deadline.
EveryWaitEnds == (pc = "waiting") ~> (pc # "waiting")

\* Once the agent closes its output the proxy ends, whatever the server does, unless
\* again and again it is writing to a server that leaves its input full: such a write
\* has no deadline.
Ended == pc \in {"closed", "failed", "killed"}
SessionEnds == (agent # "open") ~> (Ended \/ (pc = "sending" /\ server.full))

\* "A proxy that blocks forever blocks the agent - which breaks the one promise that
\* makes this thing installable at all" (stdio.py:66-67): a server that leaves its input
\* full does block it.
EverySessionEnds == (agent # "open") ~> Ended

\* The proxy keeps the promise of Capture: a verdict of complete is given once,
\* over calls that are all known, and no call reaches the server after it.
ReachedCalls == { m.id : m \in { r \in reached : r.kind = "call" /\ r.launch = launch } }
LearntCalls  == { events[i].id : i \in { n \in DOMAIN events : events[n].of = events[n].id } }
Promise == INSTANCE Capture WITH
    Calls   <- ToSet(AgentIds),
    reached <- ReachedCalls,
    learnt  <- LearntCalls,
    verdict <- IF PartComplete(file) THEN "complete" ELSE "open"
ImplementsCapture == Promise!Spec

=============================================================================
