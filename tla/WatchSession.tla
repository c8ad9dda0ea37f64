--------------------------- MODULE WatchSession ----------------------------
(***************************************************************************)
(* proxy/session.py: one `watch` run after another over one record         *)
(* directory.  A run reads the agent's MCP configuration, binds endpoints  *)
(* for the remote servers, rewrites the configuration, writes the          *)
(* manifest, runs the agent, and assembles whatever the directory holds    *)
(* into a trace.  A stdio proxy is a process of the agent's: it truncates  *)
(* its record when it starts, may end before the agent does, and may       *)
(* outlive the run.  A transport is reduced to what it leaves in its       *)
(* record: a call, later its result or a hole, an inventory, an end        *)
(* (StdioProxy, HttpProxy).                                                *)
(***************************************************************************)
EXTENDS Records, FiniteSets

CONSTANTS
    Names,     \* the servers' names, in the order file names sort
    Configs,   \* per run: the configurations it may find, NoConfig for none at all
    CallIds,   \* the calls agents make, in the order they are made
    MaxRuns,   \* bound on the runs over the directory
    MaxMoment  \* bound on the moments of calls

Servers == ToSet(Names)
Rank(s) == CHOOSE i \in DOMAIN Names : Names[i] = s

\* "stdio" has a command, "http" a url, "both" the two, "other" neither.
AllShapes == {"absent", "stdio", "http", "both", "other"}
NoConfig  == [s \in Servers |-> "no_config"]

ASSUME WatchAssumption ==
    /\ Names \in Seq(Servers) /\ CallIds \in Seq(ToSet(CallIds))
    /\ Configs \in [1..MaxRuns -> SUBSET ([Servers -> AllShapes] \cup {NoConfig})]
    /\ MaxRuns \in Nat \ {0} /\ MaxMoment \in Nat \ {0}

VARIABLES
    run,        \* the number of this run, which is its run_id
    pc,         \* where run() and assemble() are
    config,     \* the configuration read: a shape per server, or NoConfig
    listeners,  \* the remote servers with an endpoint bound
    manifest,   \* interposition.json, or NoManifest
    files,      \* per server: its record, or Absent
    proxy,      \* per server: its stdio proxy in this run, "none", "running" or "gone"
    stray,      \* per server: the run whose proxy outlived it, or 0
    open,       \* the calls recorded whose outcome is still out
    clock,      \* the moment of the last call recorded
    made,       \* history: every call the agents made, in order
    hasty,      \* history: the runs whose agent started a server again, or left on a post
    published   \* per run: the trace it published, or NoTrace

setup == <<run, config, listeners, manifest>>
vars  == <<setup, pc, files, proxy, stray, open, clock, made, hasty, published>>

NoManifest == [run |-> 0, interposed |-> {}, direct |-> {}]
Absent     == << [row |-> [kind |-> "absent"], run |-> 0, at |-> 0] >>
NoTrace    == [events |-> <<>>, complete |-> FALSE]

Init ==
    /\ run = 1 /\ pc = "start" /\ config = NoConfig /\ listeners = {}
    /\ manifest = NoManifest /\ files = [s \in Servers |-> Absent]
    /\ proxy = [s \in Servers |-> "none"] /\ stray = [s \in Servers |-> 0]
    /\ open = {} /\ clock = 1 /\ made = <<>> /\ hasty = {}
    /\ published = [r \in 1..MaxRuns |-> NoTrace]

With(shapes) == { s \in Servers : config[s] \in shapes }

\* A row carries the run that wrote it, and one about a call the moment of the call.
Stamped(row, r, moment) == [row |-> row, run |-> r, at |-> moment]
Plain(row, r)           == Stamped(row, r, 0)

---------------------------------------------------------------------------
(* WatchSession.run *)

\* Without a configuration the agent runs untouched, and nothing is written.
ReadConfig ==
    /\ pc = "start"
    /\ config' \in Configs[run]
    /\ \/ config' # NoConfig /\ pc' = "listen"
       \/ config' = NoConfig /\ pc' = "child"
    /\ UNCHANGED <<run, listeners, manifest, files, proxy, stray, open, clock, made, hasty, published>>

\* The servers _listen_for_http() binds for: those with a url.
Remote == With({"http", "both"})

\* _listen_for_http(): a recorder per url, and an endpoint if it binds.
Listen(bound) ==
    /\ pc = "listen"
    /\ bound \subseteq Remote
    /\ listeners' = bound
    /\ files' = [s \in Servers |->
                    IF s \in bound THEN <<>>
                    ELSE IF s \in Remote
                    THEN << Plain(GapRow("proxy_start_failed", NoAnchor), run),
                            Plain(EndRow, run) >>
                    ELSE files[s]]
    /\ pc' = "rewrite"
    /\ UNCHANGED <<run, config, manifest, proxy, stray, open, clock, made, hasty, published>>

\* `finally`: closing a listener writes its recorder's `end`.
CloseListeners ==
    files' = [s \in Servers |->
                 IF s \in listeners THEN Append(files[s], Plain(EndRow, run)) ELSE files[s]]

\* A url that has no port to be pointed at: a KeyError, unless no listener bound.
Unpointable == listeners # {} /\ ~ (With({"http"}) \subseteq listeners)

\* rewrite_config() and _write_manifest().
Rewrite ==
    /\ pc = "rewrite"
    /\ IF Unpointable
       THEN /\ pc' = "aborted"
            /\ CloseListeners
            /\ UNCHANGED manifest
       ELSE /\ pc' = "child"
            /\ LET interposed == With({"stdio", "both"}) \cup (With({"http"}) \cap listeners)
               IN  manifest' = [run |-> run, interposed |-> interposed,
                                direct |-> Servers \ (interposed \cup With({"absent"}))]
            /\ UNCHANGED files
    /\ UNCHANGED <<run, config, listeners, proxy, stray, open, clock, made, hasty, published>>

---------------------------------------------------------------------------
(* The agent, and what the transports leave in the records. *)

\* The agent starts a stdio server, or starts it again: its proxy opens the record afresh,
\* and goes no further than a hole in it if the server itself will not start.
Launch(s) ==
    /\ pc = "child" /\ s \in With({"stdio", "both"})
    /\ proxy[s] # "running"
    /\ hasty' = hasty \cup (IF proxy[s] = "gone" THEN {run} ELSE {})
    /\ \/ /\ proxy' = [proxy EXCEPT ![s] = "running"]
          /\ files' = [files EXCEPT ![s] = <<>>]
       \/ /\ UNCHANGED proxy
          /\ files' = [files EXCEPT ![s] =
                          << Plain(GapRow("proxy_start_failed", NoAnchor), run) >>]
    /\ UNCHANGED <<setup, pc, stray, open, clock, made, published>>

\* A server the agent reaches by itself.
Direct(s) == \/ config[s] \in {"no_config", "other", "both"}
             \/ config[s] = "http" /\ s \notin listeners

\* A recorder of run r still takes what an agent sent to s: a proxy reads on after the
\* agent has gone, and after its run; an endpoint's threads are not waited for and end with `watch`.
Proxying(s, r) == \/ r = run /\ proxy[s] = "running"
                  \/ r # 0 /\ r = stray[s]
Serving(s, r)  == /\ r = run /\ s \in listeners /\ config[s] = "http"
                  /\ pc \in {"child", "ended"}

\* The calls of a recorder whose outcome is still out.
Out(s, r) == { c \in open : c.server = s /\ c.run = r }

Make(s, r) ==
    /\ Len(made) < Len(CallIds)
    /\ made' = Append(made, [run |-> r, server |-> s, id |-> CallIds[Len(made) + 1]])

\* A call through a recorder is recorded first.  A proxy has one at a time, an endpoint a
\* thread for each.  The numbers tell the calls apart, in one recorder as in any other.
CallObserved(s, r, moment) ==
    /\ (Proxying(s, r) /\ Out(s, r) = {}) \/ Serving(s, r)
    /\ Make(s, r)
    /\ clock' = moment
    /\ hasty' = hasty \cup (IF Serving(s, r) /\ pc # "child" THEN {run} ELSE {})
    /\ LET event == Event(Len(made), CallIds[Len(made) + 1])
       IN  /\ files' = [files EXCEPT ![s] = Append(@, Stamped(CallRow(event), r, moment))]
           /\ open' = open \cup {[server |-> s, run |-> r, at |-> moment, event |-> event]}
    /\ UNCHANGED <<setup, pc, proxy, stray, published>>

\* ... and then answered or lost, whatever else has happened since.
Settle(c, answered) ==
    /\ files' = [files EXCEPT ![c.server] = Append(@,
           IF answered THEN Stamped(ResultRow([c.event EXCEPT !.of = c.event.id]), c.run, c.at)
                       ELSE Plain(GapRow("transport", c.event.id), c.run))]
    /\ open' = open \ {c}
    /\ UNCHANGED <<setup, pc, proxy, stray, clock, made, hasty, published>>

CallDirect(s) ==
    /\ pc = "child" /\ Direct(s) /\ Make(s, run)
    /\ UNCHANGED <<setup, pc, files, proxy, stray, open, clock, hasty, published>>

DiscoverTools(s) ==
    /\ Proxying(s, run) \/ Serving(s, run)
    /\ ~ \E k \in DOMAIN files[s] : files[s][k].row.kind = "discover"
    /\ files' = [files EXCEPT ![s] = Append(@, Plain(DiscoverRow, run))]
    /\ UNCHANGED <<setup, pc, proxy, stray, open, clock, made, hasty, published>>

\* A stdio proxy ends when it finds its agent gone, or its agent is done with it, and says
\* so in whatever is at its path by then.
ProxyEnds(s, r) ==
    /\ Out(s, r) = {}
    /\ \/ r = run /\ proxy[s] = "running" /\ proxy' = [proxy EXCEPT ![s] = "gone"] /\ UNCHANGED stray
       \/ r # 0 /\ stray[s] = r /\ stray' = [stray EXCEPT ![s] = 0] /\ UNCHANGED proxy
    /\ files' = [files EXCEPT ![s] = Append(@, Plain(EndRow, r))]
    /\ UNCHANGED <<setup, pc, open, clock, made, hasty, published>>

\* It is killed and says nothing: after the agent, no different from one that does no more.
ProxyKilled(s) ==
    /\ pc = "child" /\ proxy[s] = "running"
    /\ proxy' = [proxy EXCEPT ![s] = "gone"]
    /\ open' = open \ Out(s, run)
    /\ UNCHANGED <<setup, pc, files, stray, clock, made, hasty, published>>

AgentExits ==
    /\ pc = "child"
    /\ pc' = "ended"
    /\ CloseListeners
    /\ UNCHANGED <<setup, proxy, stray, open, clock, made, hasty, published>>

---------------------------------------------------------------------------
(* WatchSession.assemble *)

\* Mutant: the rows of a file are taken for this run's.
IsForeignNever(row) == FALSE

\* _rows(): a row of another run is foreign, if the manifest names a run at all.
IsForeign(row) == manifest # NoManifest /\ row.run # manifest.run
Ours(s)        == { k \in DOMAIN files[s] : ~IsForeign(files[s][k]) }
Foreign(s)     == Ours(s) # DOMAIN files[s]
\* The rows of this run, at their places in the file.
Part(s)        == [k \in Ours(s) |-> files[s][k].row]

Parts   == { s \in Servers : files[s] # Absent }
\* A part that holds another run's rows and none of this one's is not read.
PartsRead == { s \in Parts : ~ (Foreign(s) /\ Ours(s) = {}) }

\* Every event read: the first row about it, in the file it is in.
FirstRows(part) ==
    { k \in DOMAIN part : /\ part[k].kind \in {"call", "result"}
                          /\ \A m \in About(part, part[k].event.index) : k <= m }
Placed == UNION { { [server |-> s, row |-> k] : k \in FirstRows(Part(s)) } : s \in PartsRead }

Moment(x) == files[x.server][x.row].at
Id(x)     == files[x.server][x.row].row.event.id

\* Mutant: one record after the other.
EarlierByName(x, y) ==
    \/ Rank(x.server) < Rank(y.server)
    \/ x.server = y.server /\ x.row < y.row

\* The moment decides; then the file's name and the row's place in it.
Earlier(x, y) ==
    \/ Moment(x) < Moment(y)
    \/ Moment(x) = Moment(y) /\ Rank(x.server) < Rank(y.server)
    \/ Moment(x) = Moment(y) /\ x.server = y.server /\ x.row < y.row

\* A finite set as a sequence, each element after all that come before it.
InOrder(set, before) ==
    [n \in 1..Cardinality(set) |->
        CHOOSE x \in set : Cardinality({ y \in set : <<y, x>> \in before }) = n - 1]

Ordered == InOrder(Placed, { xy \in Placed \X Placed : Earlier(xy[1], xy[2]) })

OrderNotObserved ==
    \E k \in 1..Len(Ordered) - 1 :
        /\ Moment(Ordered[k]) = Moment(Ordered[k+1])
        /\ Ordered[k].server # Ordered[k+1].server

\* Mutant: a server left alone is not held against the run.
NotInterposedAbsent ==
    \/ manifest = NoManifest
    \/ \E s \in manifest.interposed : files[s] = Absent

\* _interposition() and _inventory_gaps(), against the manifest.
NotInterposed ==
    \/ manifest = NoManifest
    \/ manifest.direct # {}
    \/ \E s \in manifest.interposed : files[s] = Absent

InventoryMissing ==
    \E s \in manifest.interposed :
        ~ (s \in PartsRead /\ \E k \in Ours(s) : Part(s)[k].kind = "discover")

WholeTrace ==
    /\ PartsRead # {}
    /\ \A s \in Parts : ~Foreign(s)
    /\ \A s \in PartsRead : PartComplete(Part(s))
    /\ ~OrderNotObserved /\ ~NotInterposed /\ ~InventoryMissing

Assemble ==
    /\ pc = "ended"
    /\ pc' = "assembled"
    /\ published' = [published EXCEPT ![run] =
                        [events |-> [k \in DOMAIN Ordered |-> Id(Ordered[k])],
                         complete |-> WholeTrace]]
    /\ open' = { c \in open : Proxying(c.server, c.run) }
    /\ UNCHANGED <<setup, files, proxy, stray, clock, made, hasty>>

NextRun ==
    /\ pc \in {"assembled", "aborted"} /\ run < MaxRuns
    /\ run' = run + 1 /\ pc' = "start"
    /\ config' = NoConfig /\ listeners' = {}
    /\ stray' = [s \in Servers |-> IF proxy[s] = "running" THEN run ELSE stray[s]]
    /\ proxy' = [s \in Servers |-> "none"]
    /\ open' = { c \in open : c.run = stray'[c.server] }
    /\ UNCHANGED <<manifest, files, clock, made, hasty, published>>

Next ==
    \/ ReadConfig \/ Rewrite \/ AgentExits \/ Assemble \/ NextRun
    \/ \E bound \in SUBSET Servers : Listen(bound)
    \/ \E s \in Servers :
          \/ Launch(s) \/ CallDirect(s) \/ DiscoverTools(s) \/ ProxyKilled(s)
          \/ \E r \in 1..run : ProxyEnds(s, r) \/ \E moment \in clock..MaxMoment : CallObserved(s, r, moment)
    \/ \E c \in open, answered \in BOOLEAN : Settle(c, answered)

Spec == Init /\ [][Next]_vars

---------------------------------------------------------------------------
TypeOK ==
    /\ run \in 1..MaxRuns /\ clock \in 1..MaxMoment
    /\ pc \in {"start", "listen", "rewrite", "child", "ended", "assembled", "aborted"}
    /\ config \in [Servers -> AllShapes \cup {"no_config"}]
    /\ listeners \subseteq With({"http", "both"})
    /\ manifest.run \in 0..run
    /\ \A s \in Servers : /\ stray[s] \in 0..run-1
                          /\ proxy[s] \in {"none", "running", "gone"}
                          /\ proxy[s] # "none" => config[s] \in {"stdio", "both"}
    /\ hasty \subseteq 1..run
    /\ \A c \in open : c.event.index < Len(made)
    /\ DOMAIN published = 1..MaxRuns

CallsOf(r) == { made[k].id : k \in { n \in DOMAIN made : made[n].run = r } }

\* A run publishes its own calls: what another run left in the directory, before
\* it or while it was running, is never read as this one's.
PublishedIsThisRun ==
    \A r \in 1..MaxRuns : ToSet(published[r].events) \subseteq CallsOf(r)

\* A trace published as complete has every call the agent made in that run, through
\* whichever server and however far its proxy is behind when the trace is assembled: of an
\* agent that starts each server once and waits for its posts to be answered, where no
\* server has both a command and a url and a run finds a configuration if an earlier did.
CompleteIsWhole ==
    \A r \in (1..MaxRuns) \ hasty :
        published[r].complete => CallsOf(r) \subseteq ToSet(published[r].events)

\* The same of every agent.  proxy/__init__.py:4-11 names what must not happen: "a trace
\* that simply has one fewer event in it".  A proxy started again opens its record afresh
\* (line 110), and so it does.
CompleteIsEverything ==
    \A r \in 1..MaxRuns :
        published[r].complete => CallsOf(r) \subseteq ToSet(published[r].events)

\* A complete trace tells the calls in the order they were made: where two
\* records do not say which came first, the trace is not complete.
OrderIsObserved ==
    \A r \in 1..MaxRuns :
        published[r].complete =>
            \A i, j \in DOMAIN made :
                i < j /\ made[i].run = r /\ made[j].run = r =>
                    \A m, n \in DOMAIN published[r].events :
                        /\ published[r].events[m] = made[i].id
                        /\ published[r].events[n] = made[j].id
                        => m < n
=============================================================================
