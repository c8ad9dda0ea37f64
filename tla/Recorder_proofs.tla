-------------------------- MODULE Recorder_proofs ---------------------------
(***************************************************************************)
(* Theorems about Recorder, for any number of threads, calls, ids and lost *)
(* writes.  The inductive invariant IInv says who may be inside the lock,  *)
(* that every row is about the event it names, and that what the recorder  *)
(* has seen is in the file, or on its way there, until a write is lost.    *)
(***************************************************************************)
EXTENDS Recorder, TLAPS, FiniteSetTheorems, SequenceTheorems, WellFoundedInduction

----------------------------------------------------------------------------
(* Positions.                                                              *)

\* A set of positions has a first one.
LEMMA FirstExists ==
  ASSUME NEW S, S \subseteq Nat, S # {}
  PROVE  \E m \in S : \A n \in S : m <= n
<1>1. PICK m \in S : \A n \in S : ~ (<<n, m>> \in OpToRel(<, Nat))
  BY NatLessThanWellFounded, WFMin
<1>2. OpToRel(<, Nat) = { pair \in Nat \X Nat : pair[1] < pair[2] }
  BY DEF OpToRel
<1>3. ASSUME NEW n \in S PROVE m <= n
  <2>1. <<n, m>> \in Nat \X Nat /\ ~ (n < m)
    BY <1>1, <1>2
  <2> QED
    BY <2>1
<1> QED
  BY <1>3

\* A set of positions in a sequence has a last one.
LEMMA LastExists ==
  ASSUME NEW N \in Nat, NEW S, S \subseteq 1..N, S # {}
  PROVE  \E m \in S : \A n \in S : n <= m
<1> DEFINE D == { N - k : k \in S }
<1>1. D \subseteq Nat /\ D # {}
  <2>1. \A k \in S : N - k \in Nat
    OBVIOUS
  <2> QED
    BY <2>1
<1>2. PICK d \in D : \A e \in D : d <= e
  BY <1>1, FirstExists
<1>3. PICK m \in S : d = N - m
  OBVIOUS
<1>4. \A n \in S : n \in Nat /\ d <= N - n
  BY <1>2
<1>5. \A n \in S : n <= m
  BY <1>3, <1>4
<1> QED
  BY <1>5

\* A sequence without its last element.
LEMMA FrontOfSeq ==
  ASSUME NEW S, NEW f \in Seq(S), Len(f) \in Nat \ {0}
  PROVE  /\ Front(f) \in Seq(S)
         /\ Len(Front(f)) = Len(f) - 1
         /\ \A k \in 1..Len(Front(f)) : Front(f)[k] = f[k]
<1>1. Len(SubSeq(f, 1, Len(f) - 1)) = Len(f) - 1
  OBVIOUS
<1>2. SubSeq(f, 1, Len(f) - 1) \in Seq(S)
  OBVIOUS
<1>3. ASSUME NEW k \in 1..(Len(f) - 1) PROVE SubSeq(f, 1, Len(f) - 1)[k] = f[k]
  OBVIOUS
<1> QED
  BY <1>1, <1>2, <1>3 DEF Front


---------------------------------------------------------------------------
(* The inductive invariant.                                                *)

\* Only the holder of the lock has an event to append or rows to write.
LockInv ==
    \A t \in Threads :
        /\ draft[t] # NoDraft => /\ holder = t
                                 /\ draft[t].index = Len(events)
                                 /\ draft[t].of = NoAnswer
                                 /\ todo[t] = <<>>
        /\ todo[t] # <<>> => holder = t

\* Events know their position; a call that is waited for has no answer, and one
\* thread waits for it.
EventInv ==
    /\ \A i \in DOMAIN events : events[i].index = i - 1
    /\ \A t \in Threads : awaiting[t] # 0 =>
          /\ events[awaiting[t]].of = NoAnswer
          /\ \A u \in Threads \ {t} : awaiting[u] # awaiting[t]

\* Of a recorder that has `seen` these events and is `done` or not: a call or result
\* row is about the event at its index, a result row has the answer of that event,
\* and an `end` was written by close().
RowOK(row, seen, done) ==
    /\ row.kind \in {"call", "result"} =>
          /\ row.event.index < Len(seen)
          /\ row.event.id = seen[row.event.index + 1].id
    /\ row.kind = "call" => row.event.of = NoAnswer
    /\ row.kind = "result" =>
          /\ row.event.of # NoAnswer
          /\ row.event.of = seen[row.event.index + 1].of
    /\ row.kind = "end" => done

RowsInv ==
    /\ \A k \in DOMAIN file : RowOK(file[k], events, closed)
    /\ \A t \in Threads : \A k \in DOMAIN todo[t] : RowOK(todo[t][k], events, closed)

\* A row about the call at index i is in the file, or its thread has it to write.
OnItsWay(i) ==
    \/ i \in PartIndices(file)
    \/ \E t \in Threads : \E k \in DOMAIN todo[t] :
          todo[t][k].kind = "call" /\ todo[t][k].event.index = i

\* Until a write is lost the file has what the recorder has.
WrittenInv ==
    ~writesFailed =>
        /\ \A i \in DOMAIN events : OnItsWay(i - 1)
        /\ gaps # {} => PartHoles(file) # {}
        /\ alive => \A k \in DOMAIN file : file[k].kind # "torn"

\* What was sealed stays in the file.
SealInv ==
    closed =>
        /\ sealed.events <= Len(events)
        /\ \A i \in 1..sealed.events : i - 1 \in PartIndices(file)
        /\ sealed.gaps # {} => PartHoles(file) # {}

\* Nobody sets out to write a torn line.
WholeInv == \A t \in Threads : \A k \in DOMAIN todo[t] : todo[t][k].kind # "torn"

IInv == TypeOK /\ LockInv /\ EventInv /\ RowsInv /\ WholeInv /\ WrittenInv /\ SealInv
---------------------------------------------------------------------------
(* Lemmas about what the model is built from.                              *)

\* What one append leaves: every whole row that was there, at its place, and at
\* most one row more, which is the one appended unless the write was lost or landed
\* on a torn line.
LEMMA AppendedRows ==
  ASSUME NEW f \in Seq(Rows), NEW row \in Rows, NEW outcome \in Outcomes
  PROVE  LET g == Appended(f, row, outcome) IN
         /\ g \in Seq(Rows)
         /\ \A k \in DOMAIN f : f[k].kind # "torn" => k \in DOMAIN g /\ g[k] = f[k]
         /\ \A k \in DOMAIN g : \/ k \in DOMAIN f /\ g[k] = f[k]
                                \/ g[k] = row /\ outcome = "written"
                                \/ g[k].kind = "torn" /\ outcome = "torn"
                                \/ g[k].kind = "garbled"
         /\ outcome = "written" /\ ~EndsTorn(f) => g = Append(f, row)
         /\ EndsTorn(f) => PartHoles(g) # {}
<1>1. TornRow \in Rows /\ TornRow.kind = "torn" /\ [kind |-> "garbled"] \in Rows
  BY DEF TornRow, Rows
<1>2. CASE ~EndsTorn(f)
  BY <1>1, <1>2 DEF Appended, Outcomes, EndsTorn
<1>3. CASE EndsTorn(f)
  <2>1. f # <<>> /\ Len(f) \in Nat \ {0} /\ f[Len(f)] = TornRow
    BY <1>3 DEF EndsTorn, Last
  <2>2. CASE outcome = "written"
    <3> DEFINE h == Front(f)
    <3>1. h \in Seq(Rows) /\ Len(h) = Len(f) - 1 /\ \A k \in 1..Len(h) : h[k] = f[k]
      BY <2>1, FrontOfSeq
    <3>2. Appended(f, row, outcome) = Append(h, [kind |-> "garbled"])
      BY <1>3, <2>2 DEF Appended
    <3> HIDE DEF h
    <3> QED
      BY <1>1, <1>3, <2>1, <3>1, <3>2 DEF PartHoles
  <2>3. CASE outcome # "written"
    <3>1. Appended(f, row, outcome) = f
      BY <1>3, <2>3 DEF Appended, Outcomes
    <3> QED
      BY <1>1, <1>3, <2>1, <2>3, <3>1 DEF PartHoles
  <2> QED
    BY <2>2, <2>3
<1> QED
  BY <1>2, <1>3

\* Rows are not lost: an index once in the file stays there, and so does a hole.
LEMMA AppendedKeeps ==
  ASSUME NEW f \in Seq(Rows), NEW row \in Rows, NEW outcome \in Outcomes
  PROVE  /\ PartIndices(f) \subseteq PartIndices(Appended(f, row, outcome))
         /\ PartHoles(f) # {} => PartHoles(Appended(f, row, outcome)) # {}
<1> DEFINE g == Appended(f, row, outcome)
<1>1. \A k \in DOMAIN f : f[k].kind # "torn" => k \in DOMAIN g /\ g[k] = f[k]
  BY AppendedRows
<1>2. EndsTorn(f) => PartHoles(g) # {}
  BY AppendedRows
<1>3. ~EndsTorn(f) => \A k \in DOMAIN f : k \in DOMAIN g /\ g[k] = f[k]
  <2> SUFFICES ASSUME ~EndsTorn(f)
               PROVE  \A k \in DOMAIN f : k \in DOMAIN g /\ g[k] = f[k]
    OBVIOUS
  <2> QED
    BY DEF Appended, Outcomes, TornRow, Rows
<1> HIDE DEF g
<1>4. PartIndices(f) \subseteq PartIndices(g)
  BY <1>1 DEF PartIndices
<1>5. PartHoles(f) # {} => PartHoles(g) # {}
  BY <1>2, <1>3 DEF PartHoles
<1> QED
  BY <1>4, <1>5 DEF g

\* A call's row and the two gaps of a request without `_meta`, one after the other.
LEMMA ThreeRows ==
  ASSUME NEW c, NEW x, NEW y PROVE <<c>> \o <<x, y>> = <<c, x, y>>
<1> DEFINE S == {c, x, y}
<1>1. /\ <<c>> \in Seq(S) /\ Len(<<c>>) = 1 /\ <<c>>[1] = c
      /\ <<x, y>> \in Seq(S) /\ Len(<<x, y>>) = 2 /\ <<x, y>>[1] = x /\ <<x, y>>[2] = y
      /\ <<c, x, y>> \in Seq(S) /\ Len(<<c, x, y>>) = 3
      /\ <<c, x, y>>[1] = c /\ <<c, x, y>>[2] = x /\ <<c, x, y>>[3] = y
  OBVIOUS
<1>2. <<c>> \o <<x, y>> \in Seq(S) /\ Len(<<c>> \o <<x, y>>) = 3
  BY <1>1, ConcatProperties
<1>3. \A i \in 1..3 : (<<c>> \o <<x, y>>)[i] = <<c, x, y>>[i]
  BY <1>1, ConcatProperties
<1> QED
  BY <1>1, <1>2, <1>3, SeqEqual

\* A kill half way through a line loses nothing that was there.
LEMMA KillKeeps ==
  ASSUME TypeOK, Kill
  PROVE  /\ PartIndices(file) \subseteq PartIndices(file')
         /\ PartHoles(file) # {} => PartHoles(file') # {}
<1>1. CASE file' = file
  BY <1>1
<1>2. ASSUME NEW t \in Threads, todo[t] # <<>>, file' = Appended(file, Head(todo[t]), "torn")
      PROVE  /\ PartIndices(file) \subseteq PartIndices(file')
             /\ PartHoles(file) # {} => PartHoles(file') # {}
  <2>1. Head(todo[t]) \in Rows /\ file \in Seq(Rows) /\ "torn" \in Outcomes
    BY <1>2 DEF TypeOK, Outcomes
  <2> QED
    BY <1>2, <2>1, AppendedKeeps
<1> QED
  BY <1>1, <1>2 DEF Kill

\* What an assembled event is read from: two rows about its index.
LEMMA PartEventRows ==
  ASSUME NEW f \in Seq(Rows), NEW index \in PartIndices(f)
  PROVE  \E j, k \in About(f, index) :
            PartEvent(f, index) = [id |-> f[j].event.id, of |-> f[k].event.of]
<1> DEFINE rows == About(f, index)
<1>1. rows \subseteq 1..Len(f) /\ rows # {} /\ Len(f) \in Nat
  BY DEF About, PartIndices
<1>2. \E m \in rows : \A n \in rows : m <= n
  BY <1>1, FirstExists
<1>3. \E m \in rows : \A n \in rows : n <= m
  BY <1>1, LastExists
<1> DEFINE first == CHOOSE m \in rows : \A n \in rows : m <= n
           last  == CHOOSE m \in rows : \A n \in rows : n <= m
<1>4. first \in rows /\ last \in rows
  BY <1>2, <1>3
<1>5. PartEvent(f, index) = [id |-> f[first].event.id, of |-> f[last].event.of]
  BY DEF PartEvent
<1> QED
  BY <1>4, <1>5
---------------------------------------------------------------------------
(* Type correctness.                                                       *)

\* Rows, as the recorder builds them.
LEMMA RowTypes ==
  /\ \A e \in Events : CallRow(e) \in Rows /\ ResultRow(e) \in Rows
  /\ \A r \in Reasons, a \in Ids \cup {NoAnchor} : GapRow(r, a) \in Rows
  /\ DiscoverRow \in Rows /\ EndRow \in Rows
  BY DEF CallRow, ResultRow, GapRow, DiscoverRow, EndRow, Rows, Gaps

\* A hole is anchored to an id that was observed.
LEMMA AnchorType ==
  ASSUME NEW s \in Seq(Events) PROVE Anchor(s) \in Ids \cup {NoAnchor}
<1>1. CASE s = <<>>
  BY <1>1 DEF Anchor
<1>2. CASE s # <<>>
  <2>1. s[Len(s)] \in Events
    BY <1>2
  <2>2. s[Len(s)].id \in Ids
    BY <2>1 DEF Events
  <2> QED
    BY <1>2, <2>2 DEF Anchor, Last
<1> QED
  BY <1>1, <1>2

LEMMA InitType == Init => TypeOK
<1> SUFFICES ASSUME Init PROVE TypeOK
  OBVIOUS
<1>1. events \in Seq(Events) /\ file \in Seq(Rows) /\ todo \in [Threads -> Seq(Rows)]
  BY DEF Init
<1>2. sealed \in [events : Nat, gaps : SUBSET Gaps]
  BY DEF Init, NoSeal
<1>3. draft \in [Threads -> Events \cup {NoDraft}]
  BY DEF Init
<1>4. awaiting \in [Threads -> Nat] /\ \A t \in Threads : awaiting[t] <= Len(events)
  BY DEF Init
<1> QED
  BY <1>1, <1>2, <1>3, <1>4 DEF Init, TypeOK

\* Entering the lock with rows keeps what Acquire touches typed.
LEMMA AcquireType ==
  ASSUME TypeOK, NEW t \in Threads, NEW rows \in Seq(Rows), Acquire(t, rows)
  PROVE  holder' \in Threads \cup {NoThread} /\ todo' \in [Threads -> Seq(Rows)]
  BY DEF TypeOK, Acquire

LEMMA NextType == TypeOK /\ [Next]_vars => TypeOK'
<1> SUFFICES ASSUME TypeOK, [Next]_vars PROVE TypeOK'
  OBVIOUS
<1>1. ASSUME NEW t \in Threads, NEW id \in Ids, BeginCall(t, id) PROVE TypeOK'
  <2>1. Event(Len(events), id) \in Events
    BY DEF Event, Events, TypeOK
  <2>2. holder' \in Threads \cup {NoThread} /\ todo' \in [Threads -> Seq(Rows)]
    <3>1. <<>> \in Seq(Rows) /\ Acquire(t, <<>>)
      BY <1>1 DEF BeginCall
    <3> QED
      BY <3>1, AcquireType
  <2> QED
    BY <1>1, <2>1, <2>2 DEF BeginCall, TypeOK
<1>2. ASSUME NEW t \in Threads, ObserveCall(t) PROVE TypeOK'
  <2>1. draft[t] \in Events /\ draft[t].id \in Ids
    BY <1>2 DEF ObserveCall, TypeOK, Events
  <2>2. CallRow(draft[t]) \in Rows
    BY <2>1, RowTypes
  <2>3. MetaGaps(draft[t].id) \in Seq(Rows)
    <3>1. \A r \in {"protocol_version_unknown", "no_correlation_key"} : GapRow(r, draft[t].id) \in Rows
      BY <2>1, RowTypes DEF Reasons
    <3> QED
      BY <3>1 DEF MetaGaps
  <2>4. <<CallRow(draft[t])>> \o MetaGaps(draft[t].id) \in Seq(Rows)
    BY <2>2, <2>3
  <2>5. todo' \in [Threads -> Seq(Rows)]
    BY <1>2, <2>2, <2>4 DEF ObserveCall, TypeOK
  <2>6. events' \in Seq(Events) /\ Len(events') = Len(events) + 1
    BY <1>2, <2>1 DEF ObserveCall, TypeOK
  <2>7. draft' \in [Threads -> Events \cup {NoDraft}]
    BY <1>2 DEF ObserveCall, TypeOK
  <2>8. awaiting' \in [Threads -> Nat] /\ \A u \in Threads : awaiting'[u] <= Len(events')
    BY <1>2, <2>6 DEF ObserveCall, TypeOK, Outstanding
  <2> QED
    BY <1>2, <2>5, <2>6, <2>7, <2>8 DEF ObserveCall, TypeOK
<1>3. ASSUME NEW t \in Threads, NEW of \in Answers, NEW paused \in BOOLEAN, Settle(t, of, paused)
      PROVE  TypeOK'
  <2> DEFINE settled == [events[awaiting[t]] EXCEPT !.of = of]
             now     == [events EXCEPT ![awaiting[t]] = settled]
  <2>1. awaiting[t] \in 1..Len(events)
    BY <1>3 DEF Settle, TypeOK
  <2>2. settled \in Events
    <3>1. events[awaiting[t]] \in Events
      BY <2>1 DEF TypeOK
    <3> QED
      BY <3>1 DEF Events
  <2>3. now \in Seq(Events) /\ Len(now) = Len(events)
    BY <2>1, <2>2, ExceptSeq DEF TypeOK
  <2>4. ResultRow(settled) \in Rows /\ GapRow("input_state_absent", Anchor(now)) \in Rows
    BY <2>2, <2>3, AnchorType, RowTypes DEF Reasons
  <2> DEFINE rows == IF paused
                     THEN <<ResultRow(settled), GapRow("input_state_absent", Anchor(now))>>
                     ELSE <<ResultRow(settled)>>
  <2>5. rows \in Seq(Rows)
    BY <2>4
  <2>6. Acquire(t, rows) /\ events' = now
    BY <1>3 DEF Settle
  <2> HIDE DEF rows, now
  <2>7. holder' \in Threads \cup {NoThread} /\ todo' \in [Threads -> Seq(Rows)]
    BY <2>5, <2>6, AcquireType
  <2>8. awaiting' \in [Threads -> Nat] /\ \A u \in Threads : awaiting'[u] <= Len(events')
    BY <1>3, <2>3, <2>6 DEF Settle, TypeOK
  <2> QED
    BY <1>3, <2>3, <2>6, <2>7, <2>8 DEF Settle, TypeOK
<1>4. ASSUME NEW t \in Threads, Declare(t) PROVE TypeOK'
  <2>1. GapRow("transport", Anchor(events)) \in Rows
    BY AnchorType, RowTypes DEF Reasons, TypeOK
  <2>2. holder' \in Threads \cup {NoThread} /\ todo' \in [Threads -> Seq(Rows)]
    <3>1. <<GapRow("transport", Anchor(events))>> \in Seq(Rows)
      BY <2>1
    <3>2. Acquire(t, <<GapRow("transport", Anchor(events))>>)
      BY <1>4 DEF Declare
    <3> QED
      BY <3>1, <3>2, AcquireType
  <2>3. awaiting' \in [Threads -> Nat] /\ \A u \in Threads : awaiting'[u] <= Len(events)
    BY <1>4 DEF Declare, TypeOK
  <2> QED
    BY <1>4, <2>2, <2>3 DEF Declare, TypeOK
<1>5. ASSUME NEW t \in Threads, Discover(t) PROVE TypeOK'
  <2>1. holder' \in Threads \cup {NoThread} /\ todo' \in [Threads -> Seq(Rows)]
    <3>1. <<DiscoverRow>> \in Seq(Rows)
      BY RowTypes
    <3>2. Acquire(t, <<DiscoverRow>>)
      BY <1>5 DEF Discover
    <3> QED
      BY <3>1, <3>2, AcquireType
  <2> QED
    BY <1>5, <2>1 DEF Discover, TypeOK
<1>6. ASSUME NEW t \in Threads, NEW mapWritten \in BOOLEAN, Close(t, mapWritten) PROVE TypeOK'
  <2>1. EndRow \in Rows /\ GapRow("unparsable_record", Anchor(events)) \in Rows
    BY AnchorType, RowTypes DEF Reasons, TypeOK
  <2> DEFINE rows == IF mapWritten THEN <<EndRow>>
                     ELSE <<EndRow, GapRow("unparsable_record", Anchor(events))>>
  <2>2. rows \in Seq(Rows)
    BY <2>1
  <2>3. Acquire(t, rows)
    BY <1>6 DEF Close
  <2> HIDE DEF rows
  <2>4. holder' \in Threads \cup {NoThread} /\ todo' \in [Threads -> Seq(Rows)]
    BY <2>2, <2>3, AcquireType
  <2>5. sealed' \in [events : Nat, gaps : SUBSET Gaps]
    BY <1>6 DEF Close, TypeOK
  <2> QED
    BY <1>6, <2>4, <2>5 DEF Close, TypeOK
<1>7. ASSUME NEW t \in Threads, NEW outcome \in Outcomes, Write(t, outcome) PROVE TypeOK'
  <2>1. todo[t] \in Seq(Rows) /\ todo[t] # <<>>
    BY <1>7 DEF Write, TypeOK
  <2>2. Head(todo[t]) \in Rows /\ Tail(todo[t]) \in Seq(Rows)
    BY <2>1
  <2>3. Head(todo[t]).kind = "gap" => Head(todo[t]).gap \in Gaps
    BY <2>2 DEF Rows
  <2>4. [reason |-> "unparsable_record", after |-> Anchor(events)] \in Gaps
    BY AnchorType DEF TypeOK, Gaps, Reasons
  <2>5. gaps' \subseteq Gaps
    BY <1>7, <2>3, <2>4 DEF Write, TypeOK
  <2>6. file' \in Seq(Rows)
    BY <1>7, <2>2, AppendedRows DEF Write, TypeOK
  <2>7. todo' \in [Threads -> Seq(Rows)]
    BY <1>7, <2>2 DEF Write, TypeOK
  <2>8. holder' \in Threads \cup {NoThread}
    BY <1>7 DEF Write, TypeOK, HolderAfter
  <2>9. writesFailed' \in BOOLEAN /\ losses' \in Nat
    BY <1>7 DEF Write, TypeOK
  <2> QED
    BY <1>7, <2>5, <2>6, <2>7, <2>8, <2>9 DEF Write, TypeOK
<1>8. CASE Kill
  <2>1. file' \in Seq(Rows)
    <3>1. ASSUME NEW t \in Threads, todo[t] # <<>>,
                 file' = Appended(file, Head(todo[t]), "torn")
          PROVE  file' \in Seq(Rows)
      <4>1. Head(todo[t]) \in Rows
        BY <3>1 DEF TypeOK
      <4>2. file \in Seq(Rows) /\ "torn" \in Outcomes
        BY DEF TypeOK, Outcomes
      <4> QED
        BY <3>1, <4>1, <4>2, AppendedRows
    <3> QED
      BY <1>8, <3>1 DEF Kill, TypeOK
  <2> QED
    BY <1>8, <2>1 DEF Kill, TypeOK
<1>9. CASE UNCHANGED vars
  BY <1>9 DEF vars, TypeOK
<1> QED
  BY <1>1, <1>2, <1>3, <1>4, <1>5, <1>6, <1>7, <1>8, <1>9 DEF Next

\* Every variable keeps to its type, and no thread waits for a call that was not
\* observed: Recorder's type invariant, for any number of threads and calls.
THEOREM TypeCorrect == Spec => []TypeOK
  BY InitType, NextType, PTL DEF Spec
---------------------------------------------------------------------------
(* Who may be inside the lock.                                             *)

\* Nobody holds the lock: nobody has anything to append or to write.
LEMMA Idle ==
  ASSUME TypeOK, LockInv, holder = NoThread
  PROVE  \A t \in Threads : draft[t] = NoDraft /\ todo[t] = <<>>
  BY RecorderAssumption DEF LockInv

\* Entering the lock keeps everyone else out of it.
LEMMA AcquireLock ==
  ASSUME TypeOK, LockInv, NEW t \in Threads, NEW rows, Acquire(t, rows),
         draft' = draft
  PROVE  LockInv'
<1>1. \A u \in Threads : draft'[u] = NoDraft
  BY Idle DEF Acquire
<1>2. holder' = t /\ \A u \in Threads \ {t} : todo'[u] = <<>>
  BY Idle DEF Acquire, TypeOK
<1> QED
  BY <1>1, <1>2 DEF LockInv

LEMMA NextLock == TypeOK /\ LockInv /\ [Next]_vars => LockInv'
<1> SUFFICES ASSUME TypeOK, LockInv, [Next]_vars PROVE LockInv'
  OBVIOUS
<1>1. ASSUME NEW t \in Threads, NEW id \in Ids, BeginCall(t, id) PROVE LockInv'
  <2>1. holder' = t /\ \A u \in Threads : todo'[u] = <<>>
    BY <1>1, Idle DEF BeginCall, Acquire, TypeOK
  <2>2. \A u \in Threads \ {t} : draft'[u] = NoDraft
    BY <1>1, Idle DEF BeginCall, Acquire, TypeOK
  <2>3. draft'[t] = Event(Len(events), id) /\ events' = events
    BY <1>1 DEF BeginCall, TypeOK
  <2> QED
    BY <2>1, <2>2, <2>3 DEF LockInv, Event
<1>2. ASSUME NEW t \in Threads, ObserveCall(t) PROVE LockInv'
  <2>1. holder' = t /\ \A u \in Threads \ {t} : todo'[u] = <<>>
    BY <1>2 DEF ObserveCall, LockInv, TypeOK
  <2>2. \A u \in Threads : draft'[u] = NoDraft
    BY <1>2 DEF ObserveCall, LockInv, TypeOK
  <2> QED
    BY <2>1, <2>2 DEF LockInv
<1>3. ASSUME NEW t \in Threads, NEW of \in Answers, NEW paused \in BOOLEAN, Settle(t, of, paused)
      PROVE  LockInv'
  <2>1. draft' = draft /\ \E rows : Acquire(t, rows)
    BY <1>3 DEF Settle
  <2> QED
    BY <2>1, AcquireLock
<1>4. ASSUME NEW t \in Threads, Declare(t) PROVE LockInv'
  BY <1>4, AcquireLock DEF Declare
<1>5. ASSUME NEW t \in Threads, Discover(t) PROVE LockInv'
  BY <1>5, AcquireLock DEF Discover
<1>6. ASSUME NEW t \in Threads, NEW mapWritten \in BOOLEAN, Close(t, mapWritten) PROVE LockInv'
  <2>1. draft' = draft /\ \E rows : Acquire(t, rows)
    BY <1>6 DEF Close
  <2> QED
    BY <2>1, AcquireLock
<1>7. ASSUME NEW t \in Threads, NEW outcome \in Outcomes, Write(t, outcome) PROVE LockInv'
  <2>1. holder = t /\ \A u \in Threads \ {t} : todo[u] = <<>>
    BY <1>7 DEF Write, LockInv
  <2>2. \A u \in Threads : draft'[u] = NoDraft
    BY <1>7, <2>1 DEF Write, LockInv
  <2>3. todo[t] \in Seq(Rows) /\ todo[t] # <<>>
    BY <1>7 DEF Write, TypeOK
  <2>4. Len(todo[t]) = 1 => Tail(todo[t]) = <<>>
    <3>1. Tail(todo[t]) \in Seq(Rows) /\ Len(Tail(todo[t])) = Len(todo[t]) - 1
      BY <2>3, HeadTailProperties
    <3>2. Tail(todo[t]) # <<>> => Len(Tail(todo[t])) \in Nat \ {0}
      BY <3>1, EmptySeq
    <3> QED
      BY <3>1, <3>2
  <2>5. todo'[t] = Tail(todo[t]) /\ \A u \in Threads \ {t} : todo'[u] = <<>>
    BY <1>7, <2>1 DEF Write, TypeOK
  <2>6. holder' = t \/ \A u \in Threads : todo'[u] = <<>>
    BY <1>7, <2>1, <2>4, <2>5 DEF Write, HolderAfter
  <2> QED
    BY <2>2, <2>5, <2>6 DEF LockInv
<1>8. CASE Kill
  BY <1>8 DEF Kill, LockInv
<1>9. CASE UNCHANGED vars
  BY <1>9 DEF vars, LockInv
<1> QED
  BY <1>1, <1>2, <1>3, <1>4, <1>5, <1>6, <1>7, <1>8, <1>9 DEF Next
---------------------------------------------------------------------------
(* Events know their position, and one thread waits for each.              *)

LEMMA NextEvents == TypeOK /\ LockInv /\ EventInv /\ [Next]_vars => EventInv'
<1> SUFFICES ASSUME TypeOK, LockInv, EventInv, [Next]_vars PROVE EventInv'
  OBVIOUS
<1>1. ASSUME NEW t \in Threads, NEW id \in Ids, BeginCall(t, id) PROVE EventInv'
  BY <1>1 DEF BeginCall, EventInv
<1>2. ASSUME NEW t \in Threads, ObserveCall(t) PROVE EventInv'
  <2>1. draft[t].index = Len(events) /\ draft[t].of = NoAnswer
    BY <1>2 DEF ObserveCall, LockInv
  <2>2. events \in Seq(Events) /\ draft[t] \in Events /\ events' = Append(events, draft[t])
    BY <1>2 DEF ObserveCall, TypeOK
  <2>3. /\ Len(events') = Len(events) + 1 /\ Len(events) \in Nat
        /\ DOMAIN events' = 1..(Len(events) + 1) /\ DOMAIN events = 1..Len(events)
        /\ events'[Len(events) + 1] = draft[t]
        /\ \A i \in 1..Len(events) : events'[i] = events[i]
    BY <2>2
  <2>4. \A i \in DOMAIN events' : events'[i].index = i - 1
    BY <2>1, <2>3 DEF EventInv
  <2>5. /\ awaiting'[t] = Len(events) + 1
        /\ \A u \in Threads \ {t} : awaiting'[u] = awaiting[u]
        /\ \A u \in Threads : awaiting[u] \in Nat /\ awaiting[u] <= Len(events)
    BY <1>2 DEF ObserveCall, Outstanding, TypeOK
  <2>6. \A u \in Threads : awaiting'[u] # 0 => events'[awaiting'[u]].of = NoAnswer
    BY <2>1, <2>3, <2>5 DEF EventInv
  <2>7. \A u \in Threads : awaiting'[u] # 0 =>
            \A v \in Threads \ {u} : awaiting'[v] # awaiting'[u]
    BY <2>3, <2>5 DEF EventInv
  <2> QED
    BY <2>4, <2>6, <2>7 DEF EventInv
<1>3. ASSUME NEW t \in Threads, NEW of \in Answers, NEW paused \in BOOLEAN, Settle(t, of, paused)
      PROVE  EventInv'
  <2>1. awaiting[t] \in 1..Len(events) /\ awaiting[t] # 0
    BY <1>3 DEF Settle, TypeOK
  <2>2. events' = [events EXCEPT ![awaiting[t]] = [events[awaiting[t]] EXCEPT !.of = of]]
    BY <1>3 DEF Settle
  <2>3. events[awaiting[t]] \in Events
    BY <2>1 DEF TypeOK
  <2>4. /\ DOMAIN events' = DOMAIN events
        /\ \A i \in DOMAIN events : /\ events'[i].index = events[i].index
                                    /\ i # awaiting[t] => events'[i] = events[i]
    BY <2>2, <2>3 DEF Events
  <2>5. /\ awaiting'[t] = 0
        /\ \A u \in Threads \ {t} : awaiting'[u] = awaiting[u] /\ awaiting[u] # awaiting[t]
        /\ \A u \in Threads : awaiting[u] # 0 => awaiting[u] \in DOMAIN events
    BY <1>3, <2>1 DEF Settle, TypeOK, EventInv
  <2>6. \A i \in DOMAIN events' : events'[i].index = i - 1
    BY <2>4 DEF EventInv
  <2>7. \A u \in Threads : awaiting'[u] # 0 => events'[awaiting'[u]].of = NoAnswer
    BY <2>4, <2>5 DEF EventInv
  <2>8. \A u \in Threads : awaiting'[u] # 0 =>
            \A v \in Threads \ {u} : awaiting'[v] # awaiting'[u]
    BY <2>5 DEF EventInv
  <2> QED
    BY <2>6, <2>7, <2>8 DEF EventInv
<1>4. ASSUME NEW t \in Threads, Declare(t) PROVE EventInv'
  <2>1. /\ events' = events /\ awaiting'[t] = 0
        /\ \A u \in Threads \ {t} : awaiting'[u] = awaiting[u]
    BY <1>4 DEF Declare, TypeOK
  <2> QED
    BY <2>1 DEF EventInv
<1>5. ASSUME NEW t \in Threads, Discover(t) PROVE EventInv'
  BY <1>5 DEF Discover, EventInv
<1>6. ASSUME NEW t \in Threads, NEW mapWritten \in BOOLEAN, Close(t, mapWritten) PROVE EventInv'
  BY <1>6 DEF Close, EventInv
<1>7. ASSUME NEW t \in Threads, NEW outcome \in Outcomes, Write(t, outcome) PROVE EventInv'
  BY <1>7 DEF Write, EventInv
<1>8. CASE Kill
  BY <1>8 DEF Kill, EventInv
<1>9. CASE UNCHANGED vars
  BY <1>9 DEF vars, EventInv
<1> QED
  BY <1>1, <1>2, <1>3, <1>4, <1>5, <1>6, <1>7, <1>8, <1>9 DEF Next
---------------------------------------------------------------------------
(* Every row is about the event it names.                                  *)

\* What a step may do to the events and keep a row right.
LEMMA RowStays ==
  ASSUME NEW row \in Rows,
         NEW seen \in Seq(Events), NEW later \in Seq(Events), NEW done, NEW doneLater,
         RowOK(row, seen, done), done => doneLater, Len(seen) <= Len(later),
         \A i \in 1..Len(seen) : /\ later[i].id = seen[i].id
                                 /\ seen[i].of # NoAnswer => later[i].of = seen[i].of
  PROVE  RowOK(row, later, doneLater)
<1>1. CASE row.kind \in {"call", "result"}
  <2>1. row.event \in Events /\ row.event.index \in Nat
    BY <1>1 DEF Rows, Events
  <2>2. row.event.index + 1 \in 1..Len(seen)
    BY <1>1, <2>1 DEF RowOK
  <2> QED
    BY <1>1, <2>1, <2>2 DEF RowOK
<1>2. CASE row.kind \notin {"call", "result"}
  BY <1>2 DEF RowOK
<1> QED
  BY <1>1, <1>2

\* The same of all the rows there are, when the rows do not change.
LEMMA RowsStay ==
  ASSUME TypeOK, TypeOK', RowsInv, closed => closed', Len(events) <= Len(events'),
         \A i \in 1..Len(events) : /\ events'[i].id = events[i].id
                                   /\ events[i].of # NoAnswer => events'[i].of = events[i].of
  PROVE  /\ \A k \in DOMAIN file : RowOK(file[k], events', closed')
         /\ \A t \in Threads : \A k \in DOMAIN todo[t] : RowOK(todo[t][k], events', closed')
<1>1. events \in Seq(Events) /\ events' \in Seq(Events)
  BY DEF TypeOK
<1>2. \A k \in DOMAIN file : file[k] \in Rows
  BY DEF TypeOK
<1>3. \A t \in Threads : \A k \in DOMAIN todo[t] : todo[t][k] \in Rows
  <2>1. \A t \in Threads : todo[t] \in Seq(Rows)
    BY DEF TypeOK
  <2> QED
    BY <2>1
<1> QED
  BY <1>1, <1>2, <1>3, RowStays DEF RowsInv

LEMMA NextRows ==
  ASSUME TypeOK, TypeOK', LockInv, EventInv, RowsInv, [Next]_vars
  PROVE  RowsInv'
<1>1. ASSUME NEW t \in Threads, NEW id \in Ids, BeginCall(t, id) PROVE RowsInv'
  <2>1. /\ file' = file /\ events' = events /\ closed' = closed
        /\ todo'[t] = <<>> /\ \A u \in Threads \ {t} : todo'[u] = todo[u]
    BY <1>1 DEF BeginCall, Acquire, TypeOK
  <2> QED
    BY <2>1 DEF RowsInv
<1>2. ASSUME NEW t \in Threads, ObserveCall(t) PROVE RowsInv'
  <2>1. /\ draft[t] \in Events /\ draft[t].index = Len(events)
        /\ draft[t].of = NoAnswer /\ events \in Seq(Events)
    BY <1>2 DEF ObserveCall, LockInv, TypeOK
  <2>2. events' = Append(events, draft[t]) /\ file' = file /\ closed' = closed
    BY <1>2 DEF ObserveCall
  <2>3. /\ Len(events') = Len(events) + 1 /\ events'[Len(events) + 1] = draft[t]
        /\ \A i \in 1..Len(events) : events'[i] = events[i]
    BY <2>1, <2>2
  <2>4. /\ \A k \in DOMAIN file : RowOK(file[k], events', closed')
        /\ \A u \in Threads : \A k \in DOMAIN todo[u] : RowOK(todo[u][k], events', closed')
    BY <2>1, <2>2, <2>3, RowsStay
  <2>5. RowOK(CallRow(draft[t]), events', closed')
    BY <2>1, <2>3 DEF RowOK, CallRow
  <2>6. /\ DOMAIN MetaGaps(draft[t].id) = 1..2 /\ Len(MetaGaps(draft[t].id)) = 2
        /\ \A k \in 1..2 : RowOK(MetaGaps(draft[t].id)[k], events', closed')
    BY DEF RowOK, MetaGaps, GapRow
  <2>7. \A k \in DOMAIN todo'[t] : RowOK(todo'[t][k], events', closed')
    <3> DEFINE c == CallRow(draft[t])
               m == MetaGaps(draft[t].id)
    <3>1. todo'[t] = <<c>> \o m \/ todo'[t] = <<c>>
      BY <1>2 DEF ObserveCall, TypeOK
    <3>2. m = <<m[1], m[2]>>
      BY DEF MetaGaps
    <3>3. RowOK(c, events', closed') /\ RowOK(m[1], events', closed') /\ RowOK(m[2], events', closed')
      BY <2>5, <2>6
    <3> DEFINE x == m[1]
               y == m[2]
    <3>4. m = <<x, y>>
      BY <3>2
    <3> HIDE DEF c, m, x, y
    <3>5. <<c>> \o <<x, y>> = <<c, x, y>>
      BY ThreeRows
    <3>6. todo'[t] = <<c, x, y>> \/ todo'[t] = <<c>>
      BY <3>1, <3>4, <3>5
    <3>7. RowOK(c, events', closed') /\ RowOK(x, events', closed') /\ RowOK(y, events', closed')
      BY <3>3 DEF x, y
    <3> QED
      BY <3>6, <3>7
  <2>8. \A u \in Threads \ {t} : todo'[u] = todo[u]
    BY <1>2 DEF ObserveCall, TypeOK
  <2> QED
    BY <2>2, <2>4, <2>7, <2>8 DEF RowsInv
<1>3. ASSUME NEW t \in Threads, NEW of \in Answers, NEW paused \in BOOLEAN, Settle(t, of, paused)
      PROVE  RowsInv'
  <2> DEFINE settled == [events[awaiting[t]] EXCEPT !.of = of]
             now     == [events EXCEPT ![awaiting[t]] = settled]
             gap     == GapRow("input_state_absent", Anchor(now))
  <2>1. awaiting[t] \in 1..Len(events) /\ events \in Seq(Events)
    BY <1>3 DEF Settle, TypeOK
  <2>2. events[awaiting[t]] \in Events /\ events[awaiting[t]].index = awaiting[t] - 1
    BY <2>1 DEF EventInv
  <2>3. /\ settled.index = awaiting[t] - 1 /\ settled.id = events[awaiting[t]].id
        /\ settled.of = of /\ of # NoAnswer
    BY <2>2, RecorderAssumption DEF Events
  <2>4. events' = now /\ closed' = closed /\ file' = file
    BY <1>3 DEF Settle
  <2>5. events[awaiting[t]].of = NoAnswer
    BY <1>3 DEF Settle, EventInv
  <2> HIDE DEF settled
  <2>6. /\ Len(events') = Len(events) /\ events'[awaiting[t]] = settled
        /\ \A i \in 1..Len(events) : i # awaiting[t] => events'[i] = events[i]
    BY <2>1, <2>4
  <2>7. \A i \in 1..Len(events) : /\ events'[i].id = events[i].id
                                  /\ events[i].of # NoAnswer => events'[i].of = events[i].of
    BY <2>3, <2>5, <2>6
  <2>8. /\ \A k \in DOMAIN file : RowOK(file[k], events', closed')
        /\ \A u \in Threads : \A k \in DOMAIN todo[u] : RowOK(todo[u][k], events', closed')
    <3>1. (closed => closed') /\ Len(events) <= Len(events')
      BY <2>1, <2>4, <2>6
    <3> QED
      BY <2>7, <3>1, RowsStay
  <2>9. RowOK(ResultRow(settled), events', closed') /\ RowOK(gap, events', closed')
    BY <2>1, <2>3, <2>6 DEF RowOK, ResultRow, GapRow
  <2>10. /\ todo'[t] = <<ResultRow(settled), gap>> \/ todo'[t] = <<ResultRow(settled)>>
         /\ \A u \in Threads \ {t} : todo'[u] = todo[u]
    BY <1>3 DEF Settle, Acquire, TypeOK, settled
  <2> HIDE DEF gap
  <2>11. \A k \in DOMAIN todo'[t] : RowOK(todo'[t][k], events', closed')
    BY <2>9, <2>10
  <2> QED
    BY <2>4, <2>8, <2>10, <2>11 DEF RowsInv
<1>4. ASSUME NEW t \in Threads, Declare(t) PROVE RowsInv'
  <2> DEFINE gap == GapRow("transport", Anchor(events))
  <2>1. /\ file' = file /\ events' = events /\ closed' = closed
        /\ todo'[t] = <<gap>> /\ \A u \in Threads \ {t} : todo'[u] = todo[u]
    BY <1>4 DEF Declare, Acquire, TypeOK
  <2>2. RowOK(gap, events, closed)
    BY DEF RowOK, GapRow
  <2> HIDE DEF gap
  <2> QED
    BY <2>1, <2>2 DEF RowsInv
<1>5. ASSUME NEW t \in Threads, Discover(t) PROVE RowsInv'
  <2>1. /\ file' = file /\ events' = events /\ closed' = closed
        /\ todo'[t] = <<DiscoverRow>> /\ \A u \in Threads \ {t} : todo'[u] = todo[u]
    BY <1>5 DEF Discover, Acquire, TypeOK
  <2>2. RowOK(DiscoverRow, events, closed)
    BY DEF RowOK, DiscoverRow
  <2> QED
    BY <2>1, <2>2 DEF RowsInv
<1>6. ASSUME NEW t \in Threads, NEW mapWritten \in BOOLEAN, Close(t, mapWritten) PROVE RowsInv'
  <2> DEFINE gap == GapRow("unparsable_record", Anchor(events))
  <2>1. /\ file' = file /\ events' = events /\ closed' = TRUE
        /\ todo'[t] = <<EndRow>> \/ todo'[t] = <<EndRow, gap>>
        /\ \A u \in Threads \ {t} : todo'[u] = todo[u]
    BY <1>6 DEF Close, Acquire, TypeOK
  <2>2. RowOK(gap, events', closed') /\ RowOK(EndRow, events', closed')
    BY <2>1 DEF RowOK, GapRow, EndRow
  <2>3. /\ \A k \in DOMAIN file : RowOK(file[k], events', closed')
        /\ \A u \in Threads : \A k \in DOMAIN todo[u] : RowOK(todo[u][k], events', closed')
    <3>1. (closed => closed') /\ Len(events) <= Len(events')
      BY <2>1 DEF TypeOK
    <3>2. \A i \in 1..Len(events) : /\ events'[i].id = events[i].id
                                    /\ events[i].of # NoAnswer => events'[i].of = events[i].of
      BY <2>1
    <3> QED
      BY <3>1, <3>2, RowsStay
  <2> HIDE DEF gap
  <2>4. \A k \in DOMAIN todo'[t] : RowOK(todo'[t][k], events', closed')
    <3>1. CASE todo'[t] = <<EndRow>>
      BY <2>2, <3>1
    <3>2. CASE todo'[t] = <<EndRow, gap>>
      BY <2>2, <3>2
    <3> QED
      BY <2>1, <3>1, <3>2
  <2> QED
    BY <2>1, <2>3, <2>4 DEF RowsInv
<1>7. ASSUME NEW t \in Threads, NEW outcome \in Outcomes, Write(t, outcome) PROVE RowsInv'
  <2>1. todo[t] \in Seq(Rows) /\ todo[t] # <<>>
    BY <1>7 DEF Write, TypeOK
  <2>2. Head(todo[t]) \in Rows /\ Head(todo[t]) = todo[t][1] /\ 1 \in DOMAIN todo[t]
    BY <2>1
  <2>3. RowOK(Head(todo[t]), events, closed)
    BY <2>2 DEF RowsInv
  <2>4. file' = Appended(file, Head(todo[t]), outcome) /\ file \in Seq(Rows)
    BY <1>7 DEF Write, TypeOK
  <2>5. \A k \in DOMAIN file' : \/ k \in DOMAIN file /\ file'[k] = file[k]
                                \/ file'[k] = Head(todo[t])
                                \/ file'[k].kind = "torn"
                                \/ file'[k].kind = "garbled"
    BY <2>2, <2>4, AppendedRows
  <2>6. events' = events /\ closed' = closed
    BY <1>7 DEF Write
  <2>7. \A k \in DOMAIN file' : RowOK(file'[k], events', closed')
    BY <2>3, <2>5, <2>6 DEF RowsInv, RowOK
  <2>8. todo'[t] = Tail(todo[t]) /\ \A u \in Threads \ {t} : todo'[u] = todo[u]
    BY <1>7 DEF Write, TypeOK
  <2>9. \A k \in DOMAIN todo'[t] : k + 1 \in DOMAIN todo[t] /\ todo'[t][k] = todo[t][k + 1]
    BY <2>1, <2>8, HeadTailProperties
  <2>10. \A u \in Threads : \A k \in DOMAIN todo'[u] : RowOK(todo'[u][k], events', closed')
    BY <2>6, <2>8, <2>9 DEF RowsInv
  <2> QED
    BY <2>7, <2>10 DEF RowsInv
<1>8. CASE Kill
  <2>1. events' = events /\ closed' = closed /\ todo' = todo
    BY <1>8 DEF Kill
  <2>2. ASSUME NEW t \in Threads, todo[t] # <<>>, file' = Appended(file, Head(todo[t]), "torn")
        PROVE  \A k \in DOMAIN file' : RowOK(file'[k], events, closed)
    <3>1. Head(todo[t]) \in Rows /\ file \in Seq(Rows) /\ "torn" \in Outcomes
      BY <2>2 DEF TypeOK, Outcomes
    <3> DEFINE g == Appended(file, Head(todo[t]), "torn")
    <3>2. \A k \in DOMAIN g : \/ k \in DOMAIN file /\ g[k] = file[k]
                              \/ g[k] = Head(todo[t]) /\ "torn" = "written"
                              \/ g[k].kind = "torn"
                              \/ g[k].kind = "garbled"
      BY <3>1, AppendedRows
    <3> HIDE DEF g
    <3>3. \A k \in DOMAIN file' : \/ k \in DOMAIN file /\ file'[k] = file[k]
                                  \/ file'[k].kind = "torn"
                                  \/ file'[k].kind = "garbled"
      BY <2>2, <3>2 DEF g
    <3> QED
      BY <3>3 DEF RowsInv, RowOK
  <2>3. \A k \in DOMAIN file' : RowOK(file'[k], events, closed)
    BY <1>8, <2>2 DEF Kill, RowsInv
  <2> QED
    BY <2>1, <2>3 DEF RowsInv
<1>9. CASE UNCHANGED vars
  BY <1>9 DEF vars, RowsInv
<1> QED
  BY <1>1, <1>2, <1>3, <1>4, <1>5, <1>6, <1>7, <1>8, <1>9 DEF Next
---------------------------------------------------------------------------
(* What the recorder has seen is in the file, until a write is lost.       *)

LEMMA NextWhole == ASSUME TypeOK, WholeInv, [Next]_vars PROVE WholeInv'
<1>1. ASSUME NEW t \in Threads, NEW id \in Ids, BeginCall(t, id) PROVE WholeInv'
  BY <1>1 DEF BeginCall, Acquire, TypeOK, WholeInv
<1>2. ASSUME NEW t \in Threads, ObserveCall(t) PROVE WholeInv'
  <2> DEFINE c == CallRow(draft[t])
             x == MetaGaps(draft[t].id)[1]
             y == MetaGaps(draft[t].id)[2]
  <2>1. c.kind # "torn" /\ x.kind # "torn" /\ y.kind # "torn" /\ MetaGaps(draft[t].id) = <<x, y>>
    BY DEF CallRow, MetaGaps, GapRow
  <2>2. todo'[t] = <<c>> \o MetaGaps(draft[t].id) \/ todo'[t] = <<c>>
    BY <1>2 DEF ObserveCall, TypeOK
  <2>3. \A u \in Threads \ {t} : todo'[u] = todo[u]
    BY <1>2 DEF ObserveCall, TypeOK
  <2> HIDE DEF c, x, y
  <2>4. todo'[t] = <<c>> \o <<x, y>> \/ todo'[t] = <<c>>
    BY <2>1, <2>2
  <2>5. \A k \in DOMAIN todo'[t] : todo'[t][k].kind # "torn"
    BY <2>1, <2>4, ThreeRows
  <2> QED
    BY <2>3, <2>5 DEF WholeInv
<1>3. ASSUME NEW t \in Threads, NEW of \in Answers, NEW paused \in BOOLEAN, Settle(t, of, paused)
      PROVE  WholeInv'
  BY <1>3 DEF Settle, Acquire, TypeOK, WholeInv, ResultRow, GapRow
<1>4. ASSUME NEW t \in Threads, Declare(t) PROVE WholeInv'
  BY <1>4 DEF Declare, Acquire, TypeOK, WholeInv, GapRow
<1>5. ASSUME NEW t \in Threads, Discover(t) PROVE WholeInv'
  BY <1>5 DEF Discover, Acquire, TypeOK, WholeInv, DiscoverRow
<1>6. ASSUME NEW t \in Threads, NEW mapWritten \in BOOLEAN, Close(t, mapWritten) PROVE WholeInv'
  BY <1>6 DEF Close, Acquire, TypeOK, WholeInv, EndRow, GapRow
<1>7. ASSUME NEW t \in Threads, NEW outcome \in Outcomes, Write(t, outcome) PROVE WholeInv'
  <2>1. todo[t] \in Seq(Rows) /\ todo[t] # <<>>
    BY <1>7 DEF Write, TypeOK
  <2>2. todo'[t] = Tail(todo[t]) /\ \A u \in Threads \ {t} : todo'[u] = todo[u]
    BY <1>7 DEF Write, TypeOK
  <2>3. \A k \in DOMAIN todo'[t] : k + 1 \in DOMAIN todo[t] /\ todo'[t][k] = todo[t][k + 1]
    BY <2>1, <2>2, HeadTailProperties
  <2> QED
    BY <2>2, <2>3 DEF WholeInv
<1>8. CASE Kill
  BY <1>8 DEF Kill, WholeInv
<1>9. CASE UNCHANGED vars
  BY <1>9 DEF vars, WholeInv
<1> QED
  BY <1>1, <1>2, <1>3, <1>4, <1>5, <1>6, <1>7, <1>8, <1>9 DEF Next

\* While nobody has a row to write, the file has every call.
LEMMA AllWritten ==
  ASSUME TypeOK, WrittenInv, ~writesFailed, \A t \in Threads : todo[t] = <<>>
  PROVE  \A i \in DOMAIN events : i - 1 \in PartIndices(file)
  BY DEF WrittenInv, OnItsWay

\* A step of a thread that enters the lock: the file has every call before it, and
\* has it after.
LEMMA AcquireWritten ==
  ASSUME TypeOK, LockInv, WrittenInv, NEW t \in Threads, holder = NoThread,
         file' = file, gaps' = gaps, alive' = alive, writesFailed' = writesFailed,
         DOMAIN events' = DOMAIN events
  PROVE  WrittenInv'
<1> SUFFICES ASSUME ~writesFailed' PROVE WrittenInv'
  BY DEF WrittenInv
<1>1. \A i \in DOMAIN events' : OnItsWay(i - 1)'
  BY Idle, AllWritten DEF OnItsWay
<1> QED
  BY <1>1 DEF WrittenInv

LEMMA NextWritten ==
  ASSUME TypeOK, TypeOK', LockInv, WholeInv, WrittenInv, [Next]_vars
  PROVE  WrittenInv'
<1>1. ASSUME NEW t \in Threads, NEW id \in Ids, BeginCall(t, id) PROVE WrittenInv'
  BY <1>1, AcquireWritten DEF BeginCall, Acquire
<1>2. ASSUME NEW t \in Threads, ObserveCall(t) PROVE WrittenInv'
  <2> SUFFICES ASSUME ~writesFailed' PROVE WrittenInv'
    BY DEF WrittenInv
  <2>1. /\ file' = file /\ gaps' = gaps /\ alive' = alive /\ ~writesFailed
        /\ events \in Seq(Events) /\ draft[t] \in Events /\ draft[t].index = Len(events)
        /\ events' = Append(events, draft[t])
    BY <1>2 DEF ObserveCall, TypeOK, LockInv
  <2>2. \A u \in Threads : todo[u] = <<>>
    BY <1>2 DEF ObserveCall, LockInv
  <2>3. \A i \in DOMAIN events : i - 1 \in PartIndices(file)
    BY <2>1, <2>2, AllWritten
  <2>4. ASSUME NEW i \in Nat, i = Len(events) PROVE OnItsWay(i)'
    <3> DEFINE c == CallRow(draft[t])
    <3>1. c.kind = "call" /\ c.event.index = Len(events)
      BY <2>1 DEF CallRow
    <3>2. 1 \in DOMAIN todo'[t] /\ todo'[t][1] = c
      <4> DEFINE x == MetaGaps(draft[t].id)[1]
                 y == MetaGaps(draft[t].id)[2]
      <4>1. MetaGaps(draft[t].id) = <<x, y>>
        BY DEF MetaGaps
      <4>2. todo'[t] = <<c>> \o MetaGaps(draft[t].id) \/ todo'[t] = <<c>>
        BY <1>2 DEF ObserveCall, TypeOK
      <4> HIDE DEF c, x, y
      <4> QED
        BY <4>1, <4>2, ThreeRows
    <3> HIDE DEF c
    <3>3. todo'[t][1].kind = "call" /\ todo'[t][1].event.index = i
      BY <2>4, <3>1, <3>2
    <3> QED
      BY <3>2, <3>3 DEF OnItsWay
  <2>5. \A i \in DOMAIN events' : i \in DOMAIN events \/ i - 1 = Len(events)
    BY <2>1
  <2>6. ASSUME NEW i \in DOMAIN events' PROVE OnItsWay(i - 1)'
    <3>1. CASE i \in DOMAIN events
      BY <2>1, <2>3, <3>1 DEF OnItsWay
    <3>2. CASE i - 1 = Len(events)
      BY <2>1, <2>4, <3>2
    <3> QED
      BY <2>5, <3>1, <3>2
  <2> QED
    BY <2>1, <2>6 DEF WrittenInv
<1>3. ASSUME NEW t \in Threads, NEW of \in Answers, NEW paused \in BOOLEAN, Settle(t, of, paused)
      PROVE  WrittenInv'
  <2>1. DOMAIN events' = DOMAIN events
    BY <1>3 DEF Settle, TypeOK
  <2>2. /\ holder = NoThread /\ file' = file /\ gaps' = gaps /\ alive' = alive
        /\ writesFailed' = writesFailed
    BY <1>3 DEF Settle, Acquire
  <2> QED
    BY <2>1, <2>2, AcquireWritten
<1>4. ASSUME NEW t \in Threads, Declare(t) PROVE WrittenInv'
  BY <1>4, AcquireWritten DEF Declare, Acquire
<1>5. ASSUME NEW t \in Threads, Discover(t) PROVE WrittenInv'
  BY <1>5, AcquireWritten DEF Discover, Acquire
<1>6. ASSUME NEW t \in Threads, NEW mapWritten \in BOOLEAN, Close(t, mapWritten) PROVE WrittenInv'
  BY <1>6, AcquireWritten DEF Close, Acquire
<1>7. ASSUME NEW t \in Threads, NEW outcome \in Outcomes, Write(t, outcome) PROVE WrittenInv'
  <2> SUFFICES ASSUME ~writesFailed' PROVE WrittenInv'
    BY DEF WrittenInv
  <2> DEFINE row == Head(todo[t])
  <2>1. ~writesFailed /\ outcome = "written" /\ alive /\ alive' = alive /\ events' = events
    BY <1>7 DEF Write
  <2>2. todo[t] \in Seq(Rows) /\ todo[t] # <<>>
    BY <1>7 DEF Write, TypeOK
  <2>3. row \in Rows /\ row = todo[t][1] /\ 1 \in DOMAIN todo[t]
    BY <2>2
  <2>4. file \in Seq(Rows) /\ ~EndsTorn(file)
    BY <2>1 DEF TypeOK, WrittenInv, EndsTorn, Last, TornRow
  <2>5. file' = Append(file, row)
    BY <1>7, <2>1, <2>4 DEF Write, Appended
  <2>6. /\ DOMAIN file' = 1..(Len(file) + 1) /\ DOMAIN file = 1..Len(file)
        /\ file'[Len(file) + 1] = row /\ \A k \in DOMAIN file : file'[k] = file[k]
    BY <2>3, <2>4, <2>5
  <2>7. todo'[t] = Tail(todo[t]) /\ \A u \in Threads \ {t} : todo'[u] = todo[u]
    BY <1>7 DEF Write, TypeOK
  <2>8. \A k \in DOMAIN todo[t] : k # 1 => k - 1 \in DOMAIN todo'[t] /\ todo'[t][k - 1] = todo[t][k]
    BY <2>2, <2>7
  <2>9. gaps' \subseteq gaps \cup {row.gap} /\ (row.kind # "gap" => gaps' = gaps)
    BY <1>7, <2>1 DEF Write
  <2>10. row.kind # "torn"
    BY <2>3 DEF WholeInv
  <2> HIDE DEF row
  <2>11. PartIndices(file) \subseteq PartIndices(file')
    BY <2>6 DEF PartIndices
  <2>12. row.kind = "call" => row.event.index \in PartIndices(file')
    <3>1. Len(file) + 1 \in DOMAIN file'
      BY <2>4, <2>6
    <3> QED
      BY <2>6, <3>1 DEF PartIndices
  <2>13. ASSUME NEW i \in DOMAIN events PROVE OnItsWay(i - 1)'
    <3>1. CASE i - 1 \in PartIndices(file)
      BY <2>11, <3>1 DEF OnItsWay
    <3>2. ASSUME NEW u \in Threads, NEW k \in DOMAIN todo[u],
                 todo[u][k].kind = "call", todo[u][k].event.index = i - 1
          PROVE  OnItsWay(i - 1)'
      <4>1. CASE u # t
        BY <2>7, <3>2, <4>1 DEF OnItsWay
      <4>2. CASE u = t /\ k = 1
        BY <2>3, <2>12, <3>2, <4>2 DEF OnItsWay
      <4>3. CASE u = t /\ k # 1
        BY <2>8, <3>2, <4>3 DEF OnItsWay
      <4> QED
        BY <4>1, <4>2, <4>3
    <3> QED
      BY <2>1, <3>1, <3>2 DEF WrittenInv, OnItsWay
  <2>14. gaps' # {} => PartHoles(file') # {}
    <3>1. CASE row.kind = "gap"
      BY <2>4, <2>6, <3>1 DEF PartHoles
    <3>2. CASE row.kind # "gap"
      BY <2>1, <2>6, <2>9, <3>2 DEF PartHoles, WrittenInv
    <3> QED
      BY <3>1, <3>2
  <2>15. \A k \in DOMAIN file' : file'[k].kind # "torn"
    BY <2>1, <2>4, <2>6, <2>10 DEF WrittenInv
  <2> QED
    BY <2>1, <2>13, <2>14, <2>15 DEF WrittenInv
<1>8. CASE Kill
  <2> SUFFICES ASSUME ~writesFailed' PROVE WrittenInv'
    BY DEF WrittenInv
  <2>1. /\ ~writesFailed /\ alive' = FALSE /\ events' = events /\ gaps' = gaps /\ todo' = todo
    BY <1>8 DEF Kill
  <2>2. /\ PartIndices(file) \subseteq PartIndices(file')
        /\ PartHoles(file) # {} => PartHoles(file') # {}
    BY <1>8, KillKeeps
  <2>3. \A i \in DOMAIN events' : OnItsWay(i - 1)'
    BY <2>1, <2>2 DEF WrittenInv, OnItsWay
  <2> QED
    BY <2>1, <2>2, <2>3 DEF WrittenInv
<1>9. CASE UNCHANGED vars
  BY <1>9 DEF vars, WrittenInv, OnItsWay
<1> QED
  BY <1>1, <1>2, <1>3, <1>4, <1>5, <1>6, <1>7, <1>8, <1>9 DEF Next
---------------------------------------------------------------------------
(* What was sealed stays in the file.                                      *)

\* A step that loses no row, forgets no event and seals nothing.
LEMMA SealStays ==
  ASSUME TypeOK, SealInv, closed' = closed, sealed' = sealed, Len(events) <= Len(events'),
         TypeOK', PartIndices(file) \subseteq PartIndices(file'),
         PartHoles(file) # {} => PartHoles(file') # {}
  PROVE  SealInv'
<1>1. /\ sealed.events \in Nat /\ Len(events) \in Nat /\ Len(events') \in Nat
  BY DEF TypeOK
<1> QED
  BY <1>1 DEF SealInv

LEMMA NextSeal ==
  ASSUME TypeOK, TypeOK', LockInv, WrittenInv, SealInv, [Next]_vars
  PROVE  SealInv'
<1>1. ASSUME NEW t \in Threads, NEW id \in Ids, BeginCall(t, id) PROVE SealInv'
  BY <1>1 DEF BeginCall, SealInv
<1>2. ASSUME NEW t \in Threads, ObserveCall(t) PROVE SealInv'
  <2>1. closed' = closed /\ sealed' = sealed /\ file' = file
    BY <1>2 DEF ObserveCall
  <2>2. Len(events) <= Len(events')
    BY <1>2 DEF ObserveCall, TypeOK
  <2> QED
    BY <2>1, <2>2, SealStays
<1>3. ASSUME NEW t \in Threads, NEW of \in Answers, NEW paused \in BOOLEAN, Settle(t, of, paused)
      PROVE  SealInv'
  <2>1. closed' = closed /\ sealed' = sealed /\ file' = file
    BY <1>3 DEF Settle
  <2>2. Len(events) <= Len(events')
    BY <1>3 DEF Settle, TypeOK
  <2> QED
    BY <2>1, <2>2, SealStays
<1>4. ASSUME NEW t \in Threads, Declare(t) PROVE SealInv'
  BY <1>4 DEF Declare, SealInv
<1>5. ASSUME NEW t \in Threads, Discover(t) PROVE SealInv'
  BY <1>5 DEF Discover, SealInv
<1>6. ASSUME NEW t \in Threads, NEW mapWritten \in BOOLEAN, Close(t, mapWritten) PROVE SealInv'
  <2>1. ~writesFailed /\ holder = NoThread /\ file' = file /\ events' = events
    BY <1>6 DEF Close, MayEnd, Acquire
  <2>2. sealed' = [events |-> Len(events), gaps |-> gaps]
    BY <1>6 DEF Close
  <2>3. \A i \in DOMAIN events : i - 1 \in PartIndices(file)
    BY <2>1, Idle, AllWritten
  <2>4. gaps # {} => PartHoles(file) # {}
    BY <2>1 DEF WrittenInv
  <2>5. Len(events) \in Nat /\ DOMAIN events = 1..Len(events)
    BY DEF TypeOK
  <2> QED
    BY <2>1, <2>2, <2>3, <2>4, <2>5 DEF SealInv
<1>7. ASSUME NEW t \in Threads, NEW outcome \in Outcomes, Write(t, outcome) PROVE SealInv'
  <2>1. Head(todo[t]) \in Rows /\ file \in Seq(Rows)
    BY <1>7 DEF Write, TypeOK
  <2>2. /\ closed' = closed /\ sealed' = sealed /\ events' = events
        /\ file' = Appended(file, Head(todo[t]), outcome)
    BY <1>7 DEF Write
  <2>3. /\ PartIndices(file) \subseteq PartIndices(file')
        /\ PartHoles(file) # {} => PartHoles(file') # {}
    BY <2>1, <2>2, AppendedKeeps
  <2>4. Len(events) <= Len(events')
    BY <2>2 DEF TypeOK
  <2> QED
    BY <2>2, <2>3, <2>4, SealStays
<1>8. CASE Kill
  <2>1. closed' = closed /\ sealed' = sealed /\ events' = events
    BY <1>8 DEF Kill
  <2>2. Len(events) <= Len(events')
    BY <2>1 DEF TypeOK
  <2> QED
    BY <1>8, <2>1, <2>2, KillKeeps, SealStays
<1>9. CASE UNCHANGED vars
  BY <1>9 DEF vars, SealInv
<1> QED
  BY <1>1, <1>2, <1>3, <1>4, <1>5, <1>6, <1>7, <1>8, <1>9 DEF Next
---------------------------------------------------------------------------
(* The invariant, and what follows from it.                                *)

LEMMA InitInv == Init => IInv
<1> SUFFICES ASSUME Init PROVE IInv
  OBVIOUS
<1>1. TypeOK
  BY InitType
<1>2. LockInv /\ WholeInv
  BY DEF Init, LockInv, WholeInv
<1>3. EventInv /\ RowsInv
  BY DEF Init, EventInv, RowsInv
<1>4. WrittenInv /\ SealInv
  BY DEF Init, WrittenInv, SealInv
<1> QED
  BY <1>1, <1>2, <1>3, <1>4 DEF IInv

LEMMA NextInv == IInv /\ [Next]_vars => IInv'
<1> SUFFICES ASSUME IInv, [Next]_vars PROVE IInv'
  OBVIOUS
<1>1. TypeOK'
  BY NextType DEF IInv
<1>2. LockInv' /\ EventInv'
  BY NextLock, NextEvents DEF IInv
<1>3. RowsInv' /\ WholeInv'
  BY <1>1, NextRows, NextWhole DEF IInv
<1>4. WrittenInv' /\ SealInv'
  BY <1>1, NextWritten, NextSeal DEF IInv
<1> QED
  BY <1>1, <1>2, <1>3, <1>4 DEF IInv

LEMMA InvNamesCalls == IInv => RowsNameTheirCall
<1> SUFFICES ASSUME IInv, NEW k \in DOMAIN file, file[k].kind \in {"call", "result"}
             PROVE  /\ file[k].event.index < Len(events)
                    /\ file[k].event.id = events[file[k].event.index + 1].id
  BY DEF RowsNameTheirCall
<1> QED
  BY DEF IInv, RowsInv, RowOK

LEMMA InvVouches == IInv => CompleteVouches
<1> SUFFICES ASSUME IInv, PartComplete(file)
             PROVE  /\ closed
                    /\ sealed.gaps = {}
                    /\ \A i \in 1..sealed.events :
                          /\ i - 1 \in PartIndices(file)
                          /\ events[i].of # NoAnswer
                          /\ PartEvent(file, i - 1) = [id |-> events[i].id, of |-> events[i].of]
  BY DEF CompleteVouches
<1>1. closed
  BY DEF PartComplete, PartEnded, IInv, RowsInv, RowOK
<1>2. sealed.gaps = {}
  BY <1>1 DEF PartComplete, IInv, SealInv
<1>3. ASSUME NEW i \in 1..sealed.events
      PROVE  /\ i - 1 \in PartIndices(file)
             /\ events[i].of # NoAnswer
             /\ PartEvent(file, i - 1) = [id |-> events[i].id, of |-> events[i].of]
  <2>1. i - 1 \in PartIndices(file)
    BY <1>1 DEF IInv, SealInv
  <2>2. PartEvent(file, i - 1).of # NoAnswer
    BY <2>1 DEF PartComplete
  <2>3. PICK j, k \in About(file, i - 1) :
           PartEvent(file, i - 1) = [id |-> file[j].event.id, of |-> file[k].event.of]
    BY <2>1, PartEventRows DEF IInv, TypeOK
  <2>4. /\ j \in DOMAIN file /\ file[j].kind \in {"call", "result"} /\ file[j].event.index = i - 1
        /\ k \in DOMAIN file /\ file[k].kind \in {"call", "result"} /\ file[k].event.index = i - 1
    BY DEF About
  <2>5. file[j].event.id = events[i].id
    BY <2>4 DEF IInv, RowsInv, RowOK
  <2>6. file[k].event.of # NoAnswer
    BY <2>2, <2>3
  <2>7. file[k].event.of = events[i].of
    BY <2>4, <2>6 DEF IInv, RowsInv, RowOK
  <2> QED
    BY <2>1, <2>3, <2>5, <2>6, <2>7
<1> QED
  BY <1>1, <1>2, <1>3

\* An index in the record file names one call, however many threads call at once:
\* what the lock around call() and settle() is for.
THEOREM IndexNamesCall == Spec => []RowsNameTheirCall
  BY InitInv, NextInv, InvNamesCalls, PTL DEF Spec

\* A record that assembles as complete has every call the recorder had seen when it
\* was closed, each with its own answer, and stands for a session with no hole:
\* whatever was refused, torn or cut short, for any number of threads and calls.
THEOREM CompleteIsVouchedFor == Spec => []CompleteVouches
  BY InitInv, NextInv, InvVouches, PTL DEF Spec
=============================================================================
