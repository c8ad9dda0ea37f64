----------------------------- MODULE HttpProxy -----------------------------
(***************************************************************************)
(* proxy/http.py: the loopback endpoint `watch` binds for one remote       *)
(* server.  Every POST runs on a daemon thread of its own; the main thread *)
(* binds, waits for the agent to exit, shuts the endpoint, writes `end`    *)
(* and assembles the record, and does not wait for those threads.  A POST  *)
(* arrives whole, and the agent reads the reply it is sent.                *)
(***************************************************************************)
EXTENDS Records

CONSTANTS
    Posts,       \* the POSTs of the session, each with a JSON-RPC id of its own
    PostKinds,   \* what the agent posts
    AgentWaits   \* whether the agent exits only when it has had its replies

NoId == "no_id"
Requests == {"call", "ask", "discover"}
Kinds    == Requests \cup {"notify", "garbage", "odd"}

ASSUME HttpAssumption ==
    PostKinds \subseteq Kinds /\ AgentWaits \in BOOLEAN /\ NoId \notin Posts

VARIABLES
    agent,     \* the child process is running
    main,      \* where the main thread is
    state,     \* per POST: where its thread is
    kind,      \* per POST: what it carries
    reply,     \* per POST: what the agent got: "none", 200, 400, 502, "cut"
    upstream,  \* the POSTs the remote server was handed
    arriving,  \* the POSTs for which bytes of the remote server wait to be read
    events,    \* recorder.events, the POST being the id
    file,      \* the record file
    verdict    \* what was assembled: "none", "complete" or "incomplete"

vars == <<agent, main, state, kind, reply, upstream, arriving, events, file, verdict>>

Init ==
    /\ agent = FALSE /\ main = "binding"
    /\ state = [p \in Posts |-> "unsent"]
    /\ kind = [p \in Posts |-> "none"]
    /\ reply = [p \in Posts |-> "none"]
    /\ upstream = {} /\ arriving = {} /\ events = <<>> /\ file = <<>> /\ verdict = "none"

---------------------------------------------------------------------------
(* The main thread. *)

\* start(): an endpoint that will not bind leaves its hole, and is closed at once.
Bind ==
    /\ main = "binding"
    /\ \/ main' = "serving" /\ agent' = TRUE /\ UNCHANGED file
       \/ /\ main' = "closed" /\ UNCHANGED agent
          /\ file' = Append(file, GapRow("proxy_start_failed", Anchor(events))) \o <<EndRow>>
    /\ UNCHANGED <<state, kind, reply, upstream, arriving, events, verdict>>

\* close(), first half: no POST is accepted after this, and those that were
\* waiting to be are cut off.
Shutdown ==
    /\ main = "serving" /\ ~agent
    /\ main' = "shut"
    /\ state' = [p \in Posts |-> IF state[p] = "sent" THEN "done" ELSE state[p]]
    /\ reply' = [p \in Posts |-> IF state[p] = "sent" THEN "cut" ELSE reply[p]]
    /\ UNCHANGED <<agent, kind, upstream, arriving, events, file, verdict>>

\* close(), second half: recorder.close().
CloseRecorder ==
    /\ main = "shut"
    /\ main' = "closed"
    /\ file' = Append(file, EndRow)
    /\ UNCHANGED <<agent, state, kind, reply, upstream, arriving, events, verdict>>

Assemble ==
    /\ main = "closed"
    /\ main' = "assembled"
    /\ verdict' = IF PartComplete(file) THEN "complete" ELSE "incomplete"
    /\ UNCHANGED <<agent, state, kind, reply, upstream, arriving, events, file>>

\* The process ends, and its daemon threads with it.
Exit ==
    /\ main = "assembled"
    /\ main' = "exited"
    /\ UNCHANGED <<agent, state, kind, reply, upstream, arriving, events, file, verdict>>

---------------------------------------------------------------------------
(* The agent. *)

Send(p, k) ==
    /\ agent /\ state[p] = "unsent"
    /\ state' = [state EXCEPT ![p] = "sent"]
    /\ kind' = [kind EXCEPT ![p] = k]
    /\ UNCHANGED <<agent, main, reply, upstream, arriving, events, file, verdict>>

AgentExits ==
    /\ agent
    /\ AgentWaits => \A p \in Posts : state[p] \in {"unsent", "done"}
    /\ agent' = FALSE
    /\ UNCHANGED <<main, state, kind, reply, upstream, arriving, events, file, verdict>>

---------------------------------------------------------------------------
(* A handler thread: do_POST() and request(). *)

Running(p, at) == main # "exited" /\ state[p] = at

Reply(p, status) ==
    /\ state' = [state EXCEPT ![p] = "done"]
    /\ reply' = [reply EXCEPT ![p] = status]

\* request() returns None; a gap was recorded, except for an empty notification.
Refuse(p, rows) ==
    /\ file' = file \o rows
    /\ Reply(p, "502")
    /\ UNCHANGED events

Hole(reason) == <<GapRow(reason, Anchor(events))>>

Accept(p) ==
    /\ main = "serving" /\ state[p] = "sent"
    /\ state' = [state EXCEPT ![p] = "accepted"]
    /\ UNCHANGED <<agent, main, kind, reply, upstream, arriving, events, file, verdict>>

\* The body is not JSON (400), or not a shape `.get` can be asked of.
Reject(p) ==
    /\ Running(p, "accepted")
    /\ \/ kind[p] = "garbage" /\ Reply(p, "400")
       \/ kind[p] = "odd"     /\ Reply(p, "cut")
    /\ UNCHANGED <<agent, main, kind, upstream, arriving, events, file, verdict>>

\* The event recorder.call() builds of a tools/call.
Observed(p) == Event(Len(events), p)

\* A tools/call is recorded before it is forwarded.
Observe(p) ==
    /\ Running(p, "accepted") /\ kind[p] \in Requests \cup {"notify"}
    /\ IF kind[p] = "call"
       THEN LET event == Observed(p)
            IN  events' = Append(events, event) /\ file' = Append(file, CallRow(event))
       ELSE UNCHANGED <<events, file>>
    /\ state' = [state EXCEPT ![p] = "observed"]
    /\ UNCHANGED <<agent, main, kind, reply, upstream, arriving, verdict>>

\* An exception of http.client - no status line, a chunk that ends too soon - is none
\* that request() catches: the handler ends with it, and no hole is recorded.
Escape(p) == Reply(p, "cut") /\ UNCHANGED <<events, file>>

\* urlopen(): headers arrive, or a status instead of them, or nothing, in which
\* case the server may have been handed the message or not, or no HTTP.
Open(p) ==
    /\ Running(p, "observed")
    /\ \/ /\ state' = [state EXCEPT ![p] = "opened"]
          /\ upstream' = upstream \cup {p}
          /\ UNCHANGED <<reply, events, file>>
       \/ Refuse(p, Hole("upstream_error")) /\ upstream' = upstream \cup {p}
       \/ Refuse(p, Hole("transport_closed")) /\ upstream' \in {upstream, upstream \cup {p}}
       \/ Escape(p) /\ upstream' = upstream \cup {p}
    /\ arriving' = arriving \ {p}
    /\ UNCHANGED <<agent, main, kind, verdict>>

\* Mutant: an answer is settled under the call observed last.
EventLast(p) == Len(events)

\* Where the event of this POST is, whatever other threads appended since.
EventOf(p) == CHOOSE j \in DOMAIN events : events[j].id = p

\* The answer, recorded as a result or an inventory, goes back with a 200.
Answered(p, q) ==
    /\ IF kind[p] = "call"
       THEN LET i       == EventOf(p)
                settled == [events[i] EXCEPT !.of = q]
            IN  /\ events' = [events EXCEPT ![i] = settled]
                /\ file' = Append(file, ResultRow(settled))
       ELSE /\ UNCHANGED events
            /\ file' = IF kind[p] = "discover" THEN Append(file, DiscoverRow) ELSE file
    /\ Reply(p, "200")

\* Mutant: only a call is worth a gap.
BrokenCall(p) == IF kind[p] = "call" THEN Hole("stream_broken") ELSE <<>>

\* _stream_broken(): what is recorded of a body that ended too soon.
Broken(p) == IF kind[p] = "call" THEN Hole("stream_broken") ELSE Hole("response_truncated")

\* Mutant: whatever comes back is the answer.
AnswersAny(p, q) == TRUE

\* Whether a message with the id of q is the answer to p.
AnswersTo(p, q) == q = p \/ kind[p] = "notify"

\* The body: cut short or not JSON, empty, too large, badly chunked, or a message
\* that carries the id of this POST or of another.
Receive(p) ==
    /\ Running(p, "opened")
    /\ \/ Refuse(p, Broken(p))
       \/ Refuse(p, IF kind[p] = "notify" THEN <<>> ELSE Broken(p))
       \/ Refuse(p, Hole("response_truncated"))
       \/ \E q \in Posts : IF AnswersTo(p, q)
                           THEN Answered(p, q)
                           ELSE Refuse(p, Hole("response_truncated"))
       \/ Escape(p)
    /\ arriving' = arriving \ {p}
    /\ UNCHANGED <<agent, main, kind, upstream, verdict>>

\* Some bytes of the headers or of the body arrive, and the thread reads on.
Drip(p) ==
    /\ state[p] \in {"observed", "opened"} /\ p \notin arriving
    /\ arriving' = arriving \cup {p}
    /\ UNCHANGED <<agent, main, state, kind, reply, upstream, events, file, verdict>>

ReadOn(p) ==
    /\ main # "exited" /\ p \in arriving
    /\ arriving' = arriving \ {p}
    /\ UNCHANGED <<agent, main, state, kind, reply, upstream, events, file, verdict>>

\* Mutant: the timeout is on the connection only.
TimeOutConnecting(p) ==
    /\ Running(p, "observed") /\ p \notin arriving
    /\ Refuse(p, Hole("transport_closed"))
    /\ upstream' \in {upstream, upstream \cup {p}}
    /\ UNCHANGED <<agent, main, kind, arriving, verdict>>

\* The timeout of urlopen() is the socket's, for one operation: it runs while
\* nothing arrives, and starts again with every byte.
TimeOut(p) ==
    /\ p \notin arriving
    /\ \/ /\ Running(p, "observed") /\ Refuse(p, Hole("transport_closed"))
          /\ upstream' \in {upstream, upstream \cup {p}}
       \/ /\ Running(p, "opened") /\ Refuse(p, Broken(p))
          /\ UNCHANGED upstream
    /\ UNCHANGED <<agent, main, kind, arriving, verdict>>

Local(p)   == Accept(p) \/ Reject(p) \/ Observe(p)
Handler(p) == Local(p) \/ Open(p) \/ Receive(p) \/ ReadOn(p) \/ TimeOut(p)
Main       == Bind \/ Shutdown \/ CloseRecorder \/ Assemble \/ Exit

Next ==
    \/ Main
    \/ \E p \in Posts : Handler(p) \/ Drip(p)
    \/ \E p \in Posts, k \in PostKinds : Send(p, k)
    \/ AgentExits

\* The threads are scheduled, and a socket on which nothing arrives times out.
\* Nothing is assumed of what the remote server sends.
Fairness ==
    /\ WF_vars(Main)
    /\ \A p \in Posts : WF_vars(Local(p)) /\ WF_vars(ReadOn(p)) /\ WF_vars(TimeOut(p))

Spec     == Init /\ [][Next]_vars
FairSpec == Spec /\ Fairness

---------------------------------------------------------------------------
TypeOK ==
    /\ agent \in BOOLEAN
    /\ main \in {"binding", "serving", "shut", "closed", "assembled", "exited"}
    /\ \A p \in Posts :
          /\ state[p] \in {"unsent", "sent", "accepted", "observed", "opened", "done"}
          /\ kind[p] \in Kinds \cup {"none"} /\ (kind[p] = "none" <=> state[p] = "unsent")
          /\ reply[p] \in {"none", "200", "400", "502", "cut"}
          /\ reply[p] # "none" <=> state[p] = "done"
    /\ upstream \subseteq Posts /\ arriving \subseteq Posts
    /\ \A i \in DOMAIN events : events[i].index = i - 1
    /\ verdict \in {"none", "complete", "incomplete"}

\* What the agent was told, the record holds: a 200 to a call is in the file with
\* that call's own answer, although other threads were recording at the same time.
AnsweredIsRecorded ==
    \A p \in Posts :
        kind[p] = "call" /\ reply[p] = "200" =>
            \E i \in PartIndices(file) : PartEvent(file, i) = [id |-> p, of |-> p]

\* Every request refused with a 502 has a hole of its own in the record.
RefusalIsDeclared ==
    Cardinality({p \in Posts : reply[p] = "502" /\ kind[p] \in Requests})
        <= Cardinality(PartHoles(file))

\* A session published as complete has every call its server was handed, with the
\* answer: "the session ended and this recorder saw it end".
CompleteSession ==
    verdict = "complete" =>
        \A p \in upstream :
            kind[p] = "call" =>
                \E i \in PartIndices(file) : PartEvent(file, i) = [id |-> p, of |-> p]

\* A POST that is accepted is replied to, unless the process ends first or the remote
\* server keeps sending: whenever it has stopped, with the reply unfinished, the POST
\* ends.  One that goes on sending, however slowly, is read without a bound on time.
EveryPostEnds ==
    \A p \in Posts :
        (state[p] \in {"accepted", "observed", "opened"})
            ~> (state[p] = "done" \/ main = "exited" \/ p \in arriving)

\* "The agent gets an error it can act on rather than a hang" (http.py:108-109): a
\* remote server that goes on sending leaves the POST without an answer.
EveryPostIsAnswered ==
    \A p \in Posts : (state[p] = "accepted") ~> (state[p] = "done" \/ main = "exited")

\* "The gap is already recorded" (http.py:108): every request that reached the remote
\* server and brought the agent no answer has a hole of its own.
LossIsDeclared ==
    Cardinality({p \in upstream : reply[p] \in {"502", "cut"} /\ kind[p] \in Requests})
        <= Cardinality(PartHoles(file))
=============================================================================
