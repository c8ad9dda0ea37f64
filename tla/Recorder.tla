----------------------------- MODULE Recorder ------------------------------
(***************************************************************************)
(* proxy/__init__.py: the recorder, reached by several handler threads at  *)
(* once.  Every method runs under one reentrant lock, and inside it the    *)
(* rows are appended to the record file one by one: a write may be refused *)
(* or torn, and the process may be killed between two rows.                *)
(***************************************************************************)
EXTENDS Records

CONSTANTS
    Threads,     \* the handler threads that share the recorder
    Ids,         \* JSON-RPC ids; two calls may carry the same one
    Bare,        \* the ids of requests that carry no `_meta`
    Answers,     \* what an answer may turn out to be the answer to
    NoThread,
    MaxEvents,   \* bound on the calls observed
    MaxExtras,   \* bound on the holes and inventories the transports record
    MaxLosses    \* bound on the writes that fail

ASSUME RecorderAssumption ==
    /\ Bare \subseteq Ids
    /\ NoThread \notin Threads
    /\ NoAnswer \notin Ids \cup Answers
    /\ {MaxEvents, MaxExtras, MaxLosses} \subseteq Nat

VARIABLES
    alive,         \* the process has not been killed
    events,        \* self.events
    gaps,          \* self.gaps, a set because gap() drops repetitions
    closed,        \* self.closed
    writesFailed,  \* self.writes_failed
    holder,        \* who holds self._writing
    draft,         \* per thread: the event built and not yet appended
    todo,          \* per thread: the rows its method has still to append
    awaiting,      \* per thread: the call (1-based) it waits an answer to, or 0
    file,          \* the record file
    sealed,        \* history: how much had been observed when close() ran
    extras,        \* counter for MaxExtras
    losses         \* counter for MaxLosses

vars == <<alive, events, gaps, closed, writesFailed, holder, draft, todo,
          awaiting, file, sealed, extras, losses>>

NoDraft == [index |-> 0, id |-> NoAnswer, of |-> NoAnswer]
NoSeal  == [events |-> 0, gaps |-> {}]

Reasons == {"transport", "input_state_absent", "unparsable_record",
            "protocol_version_unknown", "no_correlation_key"}
Gaps    == [reason : Reasons, after : Ids \cup {NoAnchor}]
Events  == [index : Nat, id : Ids, of : Answers \cup {NoAnswer}]
Rows    == [kind : {"call", "result"}, event : Events]
           \cup [kind : {"gap"}, gap : Gaps]
           \cup [kind : {"discover", "end", "torn", "garbled"}]

Init ==
    /\ alive = TRUE
    /\ events = <<>>
    /\ gaps = {}
    /\ closed = FALSE
    /\ writesFailed = FALSE
    /\ holder = NoThread
    /\ draft = [t \in Threads |-> NoDraft]
    /\ todo = [t \in Threads |-> <<>>]
    /\ awaiting = [t \in Threads |-> 0]
    /\ file = <<>>
    /\ sealed = NoSeal
    /\ extras = 0
    /\ losses = 0

---------------------------------------------------------------------------
\* Mutant: a method that does not take the lock.
AcquireUnlocked(t, rows) ==
    /\ alive
    /\ holder' = t
    /\ todo' = [todo EXCEPT ![t] = rows]

\* `with self._writing` at the top of a method: the thread enters with rows to append.
Acquire(t, rows) ==
    /\ alive /\ holder = NoThread
    /\ holder' = t
    /\ todo' = [todo EXCEPT ![t] = rows]

\* call(): the event is built from the number of events seen so far ...
BeginCall(t, id) ==
    /\ awaiting[t] = 0
    /\ Len(events) < MaxEvents
    /\ Acquire(t, <<>>)
    /\ draft' = [draft EXCEPT ![t] = Event(Len(events), id)]
    /\ UNCHANGED <<alive, events, gaps, closed, writesFailed, awaiting, file, sealed, extras, losses>>

\* The position, from one, of the call being appended.
Outstanding == Len(events) + 1

\* ... appended to the list, and its rows are due.
ObserveCall(t) ==
    /\ alive /\ draft[t] # NoDraft
    /\ LET event == draft[t] IN
       /\ events' = Append(events, event)
       /\ todo' = [todo EXCEPT ![t] =
                      IF event.id \in Bare
                      THEN <<CallRow(event)>> \o MetaGaps(event.id)
                      ELSE <<CallRow(event)>>]
    /\ draft' = [draft EXCEPT ![t] = NoDraft]
    /\ awaiting' = [awaiting EXCEPT ![t] = Outstanding]
    /\ UNCHANGED <<alive, gaps, closed, writesFailed, holder, file, sealed, extras, losses>>

\* settle(): the answer, and a gap if it is an `input_required` with no handle.
Settle(t, of, paused) ==
    /\ awaiting[t] # 0
    /\ LET settled == [events[awaiting[t]] EXCEPT !.of = of]
           now     == [events EXCEPT ![awaiting[t]] = settled]
       IN  /\ events' = now
           /\ Acquire(t, IF paused
                         THEN <<ResultRow(settled), GapRow("input_state_absent", Anchor(now))>>
                         ELSE <<ResultRow(settled)>>)
    /\ awaiting' = [awaiting EXCEPT ![t] = 0]
    /\ UNCHANGED <<alive, gaps, closed, writesFailed, draft, file, sealed, extras, losses>>

\* gap(): a transport lost the answer it waited for, or never had one to wait for.
Declare(t) ==
    /\ extras < MaxExtras
    /\ extras' = extras + 1
    /\ Acquire(t, <<GapRow("transport", Anchor(events))>>)
    /\ awaiting' = [awaiting EXCEPT ![t] = 0]
    /\ UNCHANGED <<alive, events, gaps, closed, writesFailed, draft, file, sealed, losses>>

\* discover(): an inventory went past; it is a row and never an event.
Discover(t) ==
    /\ awaiting[t] = 0
    /\ extras < MaxExtras
    /\ extras' = extras + 1
    /\ Acquire(t, <<DiscoverRow>>)
    /\ UNCHANGED <<alive, events, gaps, closed, writesFailed, draft, awaiting, file, sealed, losses>>

\* Mutant: `end` is written whatever became of the writes before it.
MayEndAlways == ~closed

\* A recorder that has lost a write does not say the session ended.  Each
\* transport closes its recorder once.
MayEnd == ~closed /\ ~writesFailed

\* close(): an `end`; writing the reference map may then fail.
Close(t, mapWritten) ==
    /\ awaiting[t] = 0
    /\ MayEnd
    /\ Acquire(t, IF mapWritten
                  THEN <<EndRow>>
                  ELSE <<EndRow, GapRow("unparsable_record", Anchor(events))>>)
    /\ closed' = TRUE
    /\ sealed' = [events |-> Len(events), gaps |-> gaps]
    /\ UNCHANGED <<alive, events, gaps, writesFailed, draft, awaiting, file, extras, losses>>

\* Mutant: the lock is taken again for a row, and left once too few.
HolderKept(t) == holder

\* The lock after one more row of t's: free when its method returns.
HolderAfter(t) == IF Len(todo[t]) = 1 THEN NoThread ELSE holder

\* _append(): one row, by the thread that holds the lock.  Every row can be encoded: one that
\* cannot, for a lone surrogate, raises out of the method (_append catches OSError only), and
\* neither writesFailed nor a hole would tell of it.
Write(t, outcome) ==
    /\ alive /\ todo[t] # <<>>
    /\ LET row      == Head(todo[t])
           declared == IF row.kind = "gap" THEN {row.gap} ELSE {}
           lost     == IF outcome = "written" THEN {}
                       ELSE {[reason |-> "unparsable_record", after |-> Anchor(events)]}
       IN  /\ gaps' = gaps \cup declared \cup lost
           /\ file' = Appended(file, row, outcome)
    /\ writesFailed' = (writesFailed \/ outcome # "written")
    /\ losses' = IF outcome = "written" THEN losses ELSE losses + 1
    /\ losses' <= MaxLosses
    /\ todo' = [todo EXCEPT ![t] = Tail(todo[t])]
    /\ holder' = HolderAfter(t)
    /\ UNCHANGED <<alive, events, closed, draft, awaiting, sealed, extras>>

\* The process is killed, possibly half way through a line.
Kill ==
    /\ alive
    /\ alive' = FALSE
    /\ \/ file' = file
       \/ \E t \in Threads : /\ todo[t] # <<>>
                             /\ file' = Appended(file, Head(todo[t]), "torn")
    /\ UNCHANGED <<events, gaps, closed, writesFailed, holder, draft, todo,
                   awaiting, sealed, extras, losses>>

Next ==
    \/ \E t \in Threads :
          \/ \E id \in Ids : BeginCall(t, id)
          \/ ObserveCall(t)
          \/ \E of \in Answers, paused \in BOOLEAN : Settle(t, of, paused)
          \/ Declare(t)
          \/ Discover(t)
          \/ \E mapWritten \in BOOLEAN : Close(t, mapWritten)
          \/ \E outcome \in Outcomes : Write(t, outcome)
    \/ Kill

\* A thread inside the lock is scheduled until it leaves it.
Progress(t) == ObserveCall(t) \/ \E outcome \in Outcomes : Write(t, outcome)
Fairness == \A t \in Threads : WF_vars(Progress(t))

Spec     == Init /\ [][Next]_vars
FairSpec == Spec /\ Fairness

---------------------------------------------------------------------------
TypeOK ==
    /\ alive \in BOOLEAN
    /\ events \in Seq(Events)
    /\ gaps \subseteq Gaps
    /\ closed \in BOOLEAN
    /\ writesFailed \in BOOLEAN
    /\ holder \in Threads \cup {NoThread}
    /\ draft \in [Threads -> Events \cup {NoDraft}]
    /\ todo \in [Threads -> Seq(Rows)]
    /\ awaiting \in [Threads -> Nat]
    /\ \A t \in Threads : awaiting[t] <= Len(events)
    /\ file \in Seq(Rows)
    /\ sealed \in [events : Nat, gaps : SUBSET Gaps]
    /\ extras \in Nat
    /\ losses \in Nat

\* A file that assembles as complete has all of what the recorder had seen when
\* it was closed: every call, each with the answer it was settled with, and no
\* hole.  Whatever was refused, torn or cut short by a kill keeps it incomplete.
CompleteVouches ==
    PartComplete(file) =>
        /\ closed
        /\ sealed.gaps = {}
        /\ \A i \in 1..sealed.events :
              /\ i - 1 \in PartIndices(file)
              /\ events[i].of # NoAnswer
              /\ PartEvent(file, i - 1) = [id |-> events[i].id, of |-> events[i].of]

\* An index in the file names one call: two threads that call at the same time
\* never write under one position, so no answer is merged into another's call.
RowsNameTheirCall ==
    \A k \in DOMAIN file :
        file[k].kind \in {"call", "result"} =>
            /\ file[k].event.index < Len(events)
            /\ file[k].event.id = events[file[k].event.index + 1].id

\* No thread keeps the others out for ever, whatever becomes of its writes.
LockIsReleased == \A t \in Threads : (holder = t) ~> (holder # t \/ ~alive)
=============================================================================
