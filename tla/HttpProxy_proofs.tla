-------------------------- MODULE HttpProxy_proofs --------------------------
(***************************************************************************)
(* Theorems about HttpProxy, for any number of POSTs.  The inductive       *)
(* invariant IInv says which event a row is about, that the row of an      *)
(* answer comes after the row of its call, that a hole was written for     *)
(* every refusal, that a call whose handler died has no answer in the      *)
(* record, and what an agent that waits has left behind.                   *)
(***************************************************************************)
EXTENDS HttpProxy, TLAPS, FiniteSetTheorems, SequenceTheorems, WellFoundedInduction

----------------------------------------------------------------------------
(* Positions.                                                              *)

\* A set of positions has a first one.
LEMMA FirstExists ==
  ASSUME NEW S, S \subseteq Nat, S # {}
  PROVE  \E m \in S : \A n \in S : m <= n
<1>1. PICK m \in S : \A n \in S : ~ (<<n, m>> \in OpToRel(<, Nat))
  BY NatLessThanWellFounded, WFMin
<1>2. OpToRel(<, Nat) = { pair \in Nat \X Nat : pair[1] < pair[2] }
  BY DEF OpToRel
<1>3. ASSUME NEW n \in S PROVE m <= n
  <2>1. <<n, m>> \in Nat \X Nat /\ ~ (n < m)
    BY <1>1, <1>2
  <2> QED
    BY <2>1
<1> QED
  BY <1>3

\* A set of positions in a sequence has a last one.
LEMMA LastExists ==
  ASSUME NEW N \in Nat, NEW S, S \subseteq 1..N, S # {}
  PROVE  \E m \in S : \A n \in S : n <= m
<1> DEFINE D == { N - k : k \in S }
<1>1. D \subseteq Nat /\ D # {}
  <2>1. \A k \in S : N - k \in Nat
    OBVIOUS
  <2> QED
    BY <2>1
<1>2. PICK d \in D : \A e \in D : d <= e
  BY <1>1, FirstExists
<1>3. PICK m \in S : d = N - m
  OBVIOUS
<1>4. \A n \in S : n \in Nat /\ d <= N - n
  BY <1>2
<1>5. \A n \in S : n <= m
  BY <1>3, <1>4
<1> QED
  BY <1>5


---------------------------------------------------------------------------
(* The inductive invariant.                                                *)

\* The reasons of the proxy's holes.
Reasons == {"proxy_start_failed", "upstream_error", "transport_closed",
            "stream_broken", "response_truncated"}

States  == {"unsent", "sent", "accepted", "observed", "opened", "done"}
Replies == {"none", "200", "400", "502", "cut"}
Events  == [index : Nat, id : Posts, of : Posts \cup {NoAnswer}]
Rows    == [kind : {"call", "result"}, event : Events]
           \cup [kind : {"gap"}, gap : [reason : Reasons, after : Posts \cup {NoAnchor}]]
           \cup [kind : {"discover", "end"}]

TypeInv ==
    /\ state \in [Posts -> States] /\ kind \in [Posts -> Kinds \cup {"none"}]
    /\ reply \in [Posts -> Replies]
    /\ events \in Seq(Events) /\ file \in Seq(Rows)
    /\ agent \in BOOLEAN /\ upstream \subseteq Posts

\* A POST has a kind once it is sent and a reply once it is done.
PostInv ==
    \A p \in Posts : /\ kind[p] = "none" <=> state[p] = "unsent"
                     /\ reply[p] = "none" <=> state[p] # "done"

\* An event is at its index and is of a call that was observed, and a call that is
\* being forwarded has one.
EventInv ==
    /\ \A i \in DOMAIN events :
          /\ events[i].index = i - 1 /\ kind[events[i].id] = "call"
          /\ state[events[i].id] \in {"observed", "opened", "done"}
    /\ \A p \in Posts : kind[p] = "call" /\ state[p] \in {"observed", "opened"} =>
          \E i \in DOMAIN events : events[i].id = p

\* A call or result row is about the event at its index, and a result row has the
\* answer to that very call.
RowOK(row, seen) ==
    /\ row.kind \in {"call", "result"} =>
          /\ row.event.index + 1 \in DOMAIN seen
          /\ row.event.id = seen[row.event.index + 1].id
    /\ row.kind = "call" => row.event.of = NoAnswer
    /\ row.kind = "result" => row.event.of = row.event.id

\* No call row comes after a result row of its index.
InOrder(rows) ==
    \A j, k \in DOMAIN rows :
        /\ rows[j].kind = "call" /\ rows[k].kind = "result"
        /\ rows[j].event.index = rows[k].event.index
        => j < k

RowsInv == InOrder(file) /\ \A k \in DOMAIN file : RowOK(file[k], events)

\* A call that was answered has its result row.
HasResult(rows, p) == \E k \in DOMAIN rows : rows[k].kind = "result" /\ rows[k].event.id = p
AnsweredInv == \A p \in Posts : kind[p] = "call" /\ reply[p] = "200" => HasResult(file, p)

\* A call that is forwarded has its call row, and a result row only when the agent was
\* given the answer.
HasCall(rows, p) == \E k \in DOMAIN rows : rows[k].kind = "call" /\ rows[k].event.id = p
OnlyAnswered(rows, r) ==
    \A k \in DOMAIN rows : rows[k].kind = "result" => r[rows[k].event.id] = "200"
Forwarded(p) == kind[p] = "call" /\ (state[p] \in {"observed", "opened"} \/ p \in upstream)
LossInv == OnlyAnswered(file, reply) /\ \A p \in Posts : Forwarded(p) => HasCall(file, p)

\* Refusals are no more than the holes.
Refused == {p \in Posts : reply[p] = "502" /\ kind[p] \in Requests}
HoleInv == IsFiniteSet(Refused) /\ RefusalIsDeclared

\* The main thread leaves the agent's run behind it, and finds no POST under way then
\* if the agent waits for its replies; what was published as complete is so.
CloseInv ==
    /\ main # "serving" => ~agent
    /\ AgentWaits => (~agent => \A p \in Posts : state[p] \in {"unsent", "done"})
    /\ verdict # "none" => main \in {"assembled", "exited"}
    /\ AgentWaits /\ verdict = "complete" => PartComplete(file)
    /\ \A p \in upstream : /\ state[p] \in {"opened", "done"}
                           /\ state[p] = "done" => reply[p] \in {"200", "502", "cut"}

IInv == /\ TypeInv /\ PostInv /\ EventInv /\ RowsInv
        /\ AnsweredInv /\ LossInv /\ HoleInv /\ CloseInv
---------------------------------------------------------------------------
(* Lemmas about rows.                                                      *)

\* Rows, as the proxy's recorder builds them.
LEMMA RowTypes ==
  /\ \A e \in Events : CallRow(e) \in Rows /\ ResultRow(e) \in Rows
  /\ \A r \in Reasons, a \in Posts \cup {NoAnchor} : GapRow(r, a) \in Rows
  /\ DiscoverRow \in Rows /\ EndRow \in Rows
  BY DEF CallRow, ResultRow, GapRow, DiscoverRow, EndRow, Rows

\* A hole is anchored to a POST that was observed.
LEMMA AnchorType ==
  ASSUME NEW s \in Seq(Events) PROVE Anchor(s) \in Posts \cup {NoAnchor}
<1>1. CASE s = <<>>
  BY <1>1 DEF Anchor
<1>2. CASE s # <<>>
  <2>1. s[Len(s)] \in Events
    BY <1>2
  <2>2. s[Len(s)].id \in Posts
    BY <2>1 DEF Events
  <2> QED
    BY <1>2, <2>2 DEF Anchor, Last
<1> QED
  BY <1>1, <1>2

\* Rows that are about no call change nothing of what the others say.
LEMMA PlainRows ==
  ASSUME NEW f \in Seq(Rows), NEW g \in Seq(Rows), NEW seen,
         \A k \in DOMAIN g : g[k].kind \notin {"call", "result"}
  PROVE  /\ f \o g \in Seq(Rows)
         /\ InOrder(f) => InOrder(f \o g)
         /\ (\A k \in DOMAIN f : RowOK(f[k], seen)) => \A k \in DOMAIN (f \o g) : RowOK((f \o g)[k], seen)
         /\ \A p \in Posts : HasResult(f, p) => HasResult(f \o g, p)
         /\ \A p \in Posts : HasCall(f, p) => HasCall(f \o g, p)
         /\ \A r : OnlyAnswered(f, r) => OnlyAnswered(f \o g, r)
         /\ PartHoles(f) \subseteq PartHoles(f \o g)
<1> DEFINE h == f \o g
<1>1. h \in Seq(Rows) /\ Len(h) = Len(f) + Len(g)
  BY ConcatProperties
<1>2. \A k \in 1..Len(f) : h[k] = f[k]
  BY ConcatProperties
<1>3. \A k \in 1..Len(h) : k \notin 1..Len(f) => h[k].kind \notin {"call", "result"}
  <2> SUFFICES ASSUME NEW k \in 1..Len(h), k \notin 1..Len(f)
               PROVE  h[k].kind \notin {"call", "result"}
    OBVIOUS
  <2>1. Len(f) \in Nat /\ Len(g) \in Nat /\ k - Len(f) \in 1..Len(g)
    BY <1>1
  <2>2. h[k] = g[k - Len(f)]
    BY <1>1, <2>1, ConcatProperties
  <2> QED
    BY <2>1, <2>2
<1>4. Len(f) \in Nat /\ Len(g) \in Nat /\ 1..Len(f) \subseteq 1..Len(h)
  BY <1>1
<1> HIDE DEF h
<1>5. InOrder(f) => InOrder(h)
  BY <1>1, <1>2, <1>3, <1>4 DEF InOrder
<1>6. (\A k \in DOMAIN f : RowOK(f[k], seen)) => \A k \in DOMAIN h : RowOK(h[k], seen)
  BY <1>1, <1>2, <1>3, <1>4 DEF RowOK
<1>7. \A p \in Posts : HasResult(f, p) => HasResult(h, p)
  BY <1>1, <1>2, <1>4 DEF HasResult
<1>8. PartHoles(f) \subseteq PartHoles(h)
  BY <1>1, <1>2, <1>4 DEF PartHoles
<1>9. \A p \in Posts : HasCall(f, p) => HasCall(h, p)
  BY <1>1, <1>2, <1>4 DEF HasCall
<1>10. \A r : OnlyAnswered(f, r) => OnlyAnswered(h, r)
  BY <1>1, <1>2, <1>3, <1>4 DEF OnlyAnswered
<1> QED
  BY <1>1, <1>5, <1>6, <1>7, <1>8, <1>9, <1>10 DEF h

\* The positions of the holes are finitely many.
LEMMA HolesAreFinite ==
  ASSUME NEW f \in Seq(Rows) PROVE IsFiniteSet(PartHoles(f))
<1>1. IsFiniteSet(1..Len(f)) /\ PartHoles(f) \subseteq 1..Len(f)
  BY FS_Interval DEF PartHoles
<1> QED
  BY <1>1, FS_Subset

\* A hole more than there were.
LEMMA OneMoreHole ==
  ASSUME NEW f \in Seq(Rows), NEW row \in Rows, row.kind = "gap"
  PROVE  Cardinality(PartHoles(f \o <<row>>)) = Cardinality(PartHoles(f)) + 1
<1> DEFINE g == f \o <<row>>
<1>1. g = Append(f, row)
  OBVIOUS
<1>2. PartHoles(g) = PartHoles(f) \cup {Len(f) + 1}
  BY <1>1 DEF PartHoles
<1>3. Len(f) + 1 \notin PartHoles(f)
  BY DEF PartHoles
<1> QED
  BY <1>2, <1>3, HolesAreFinite, FS_AddElement

\* What an answered call is assembled to: its first row is about it, and its last row
\* is a result, since no call row follows one.
LEMMA ResultIsRead ==
  ASSUME NEW f \in Seq(Rows), NEW seen, NEW p \in Posts, HasResult(f, p), InOrder(f),
         \A k \in DOMAIN f : RowOK(f[k], seen)
  PROVE  \E i \in PartIndices(f) : PartEvent(f, i) = [id |-> p, of |-> p]
<1>1. PICK n \in DOMAIN f : f[n].kind = "result" /\ f[n].event.id = p
  BY DEF HasResult
<1> DEFINE i     == f[n].event.index
           rows  == About(f, i)
           first == CHOOSE k \in rows : \A j \in rows : k <= j
           last  == CHOOSE k \in rows : \A j \in rows : j <= k
<1>2. i \in PartIndices(f)
  BY <1>1 DEF PartIndices
<1>3. n \in rows /\ rows \subseteq 1..Len(f) /\ Len(f) \in Nat
  BY <1>1 DEF About
<1>4. first \in rows /\ last \in rows /\ \A j \in rows : j <= last
  <2>1. \E k \in rows : \A j \in rows : k <= j
    BY <1>3, FirstExists
  <2>2. \E k \in rows : \A j \in rows : j <= k
    BY <1>3, LastExists
  <2> QED
    BY <2>1, <2>2
<1>5. \A k \in rows : /\ k \in DOMAIN f /\ f[k].event.index = i
                     /\ f[k].kind \in {"call", "result"}
  BY DEF About
<1>6. PartEvent(f, i) = [id |-> f[first].event.id, of |-> f[last].event.of]
  BY DEF PartEvent
<1> HIDE DEF rows, first, last
<1>7. \A k \in rows : f[k].event.id = p
  <2> SUFFICES ASSUME NEW k \in rows PROVE f[k].event.id = p
    OBVIOUS
  <2>1. f[k].event.id = seen[i + 1].id /\ f[n].event.id = seen[i + 1].id
    BY <1>1, <1>5 DEF RowOK
  <2> QED
    BY <1>1, <2>1
<1>8. f[last].kind = "result"
  <2>1. f[last].kind = "call" => last < n
    BY <1>1, <1>4, <1>5 DEF InOrder
  <2>2. n <= last /\ last \in Nat /\ n \in Nat
    BY <1>3, <1>4
  <2> QED
    BY <1>4, <1>5, <2>1, <2>2
<1>9. f[last].event.of = p
  BY <1>4, <1>5, <1>7, <1>8 DEF RowOK
<1> QED
  BY <1>2, <1>4, <1>6, <1>7, <1>9

\* The row of a new event, written as it is observed.
LEMMA CallRowAdded ==
  ASSUME NEW f \in Seq(Rows), NEW seen \in Seq(Events), NEW e \in Events,
         e.index = Len(seen), e.of = NoAnswer, InOrder(f), \A k \in DOMAIN f : RowOK(f[k], seen)
  PROVE  /\ Append(f, CallRow(e)) \in Seq(Rows)
         /\ InOrder(Append(f, CallRow(e)))
         /\ \A k \in DOMAIN Append(f, CallRow(e)) : RowOK(Append(f, CallRow(e))[k], Append(seen, e))
         /\ \A p \in Posts : HasResult(f, p) => HasResult(Append(f, CallRow(e)), p)
         /\ \A p \in Posts : HasCall(f, p) => HasCall(Append(f, CallRow(e)), p)
         /\ HasCall(Append(f, CallRow(e)), e.id)
         /\ \A r : OnlyAnswered(f, r) => OnlyAnswered(Append(f, CallRow(e)), r)
         /\ PartHoles(Append(f, CallRow(e))) = PartHoles(f)
<1> DEFINE row == CallRow(e)
           h   == Append(f, row)
           now == Append(seen, e)
<1>1. row \in Rows /\ row.kind = "call" /\ row.event = e
  BY RowTypes DEF CallRow
<1> HIDE DEF row
<1>2. h \in Seq(Rows) /\ Len(h) = Len(f) + 1 /\ h[Len(f) + 1] = row
  BY <1>1
<1>3. \A k \in 1..Len(f) : h[k] = f[k]
  OBVIOUS
<1>4. Len(f) \in Nat /\ 1..Len(h) = 1..Len(f) \cup {Len(f) + 1}
  BY <1>2
<1>5. Len(seen) \in Nat /\ DOMAIN now = 1..(Len(seen) + 1)
  OBVIOUS
<1>6. now[Len(seen) + 1] = e /\ \A j \in DOMAIN seen : now[j] = seen[j] /\ j \in DOMAIN now
  BY <1>5
<1> HIDE DEF h, now
<1>7. InOrder(h)
  <2> SUFFICES ASSUME NEW j \in DOMAIN h, NEW k \in DOMAIN h,
                      h[j].kind = "call", h[k].kind = "result", h[j].event.index = h[k].event.index
               PROVE  j < k
    BY DEF InOrder
  <2>1. k \in 1..Len(f)
    BY <1>1, <1>2, <1>4
  <2>2. h[k].event.index + 1 \in 1..Len(seen)
    BY <1>3, <2>1 DEF RowOK
  <2>3. CASE j \in 1..Len(f)
    BY <1>3, <2>1, <2>3 DEF InOrder
  <2>4. CASE j = Len(f) + 1
    BY <1>1, <1>2, <1>5, <2>2, <2>4
  <2> QED
    BY <1>2, <1>4, <2>3, <2>4
<1>8. \A k \in DOMAIN h : RowOK(h[k], now)
  <2> SUFFICES ASSUME NEW k \in DOMAIN h PROVE RowOK(h[k], now)
    OBVIOUS
  <2>1. CASE k \in 1..Len(f)
    BY <1>3, <1>6, <2>1 DEF RowOK
  <2>2. CASE k = Len(f) + 1
    BY <1>1, <1>2, <1>5, <1>6, <2>2 DEF RowOK
  <2> QED
    BY <1>2, <1>4, <2>1, <2>2
<1>9. \A p \in Posts : HasResult(f, p) => HasResult(h, p)
  BY <1>2, <1>3, <1>4 DEF HasResult
<1>10. PartHoles(h) = PartHoles(f)
  BY <1>1, <1>2, <1>3, <1>4 DEF PartHoles
<1>11. HasCall(h, e.id) /\ \A p \in Posts : HasCall(f, p) => HasCall(h, p)
  <2>1. Len(f) + 1 \in DOMAIN h /\ h[Len(f) + 1].kind = "call" /\ h[Len(f) + 1].event.id = e.id
    BY <1>1, <1>2, <1>4
  <2>2. \A k \in DOMAIN f : k \in DOMAIN h /\ h[k] = f[k]
    BY <1>2, <1>3, <1>4
  <2> QED
    BY <2>1, <2>2 DEF HasCall
<1>12. \A r : OnlyAnswered(f, r) => OnlyAnswered(h, r)
  BY <1>1, <1>2, <1>3, <1>4 DEF OnlyAnswered
<1> QED
  BY <1>2, <1>7, <1>8, <1>9, <1>10, <1>11, <1>12 DEF h, now, row

\* The row of an answer, written when the event is settled with it.
LEMMA ResultRowAdded ==
  ASSUME NEW f \in Seq(Rows), NEW seen \in Seq(Events), NEW i \in DOMAIN seen,
         NEW e \in Events, e.index = i - 1, e.id = seen[i].id, e.of = e.id,
         InOrder(f), \A k \in DOMAIN f : RowOK(f[k], seen)
  PROVE  /\ Append(f, ResultRow(e)) \in Seq(Rows)
         /\ InOrder(Append(f, ResultRow(e)))
         /\ \A k \in DOMAIN Append(f, ResultRow(e)) :
               RowOK(Append(f, ResultRow(e))[k], [seen EXCEPT ![i] = e])
         /\ \A p \in Posts : HasResult(f, p) => HasResult(Append(f, ResultRow(e)), p)
         /\ HasResult(Append(f, ResultRow(e)), e.id)
         /\ \A p \in Posts : HasCall(f, p) => HasCall(Append(f, ResultRow(e)), p)
         /\ \A r : OnlyAnswered(f, r) /\ r[e.id] = "200" => OnlyAnswered(Append(f, ResultRow(e)), r)
         /\ PartHoles(Append(f, ResultRow(e))) = PartHoles(f)
<1> DEFINE row == ResultRow(e)
           h   == Append(f, row)
           now == [seen EXCEPT ![i] = e]
<1>1. row \in Rows /\ row.kind = "result" /\ row.event = e
  BY RowTypes DEF ResultRow
<1> HIDE DEF row
<1>2. h \in Seq(Rows) /\ Len(h) = Len(f) + 1 /\ h[Len(f) + 1] = row
  BY <1>1
<1>3. \A k \in 1..Len(f) : h[k] = f[k]
  OBVIOUS
<1>4. Len(f) \in Nat /\ 1..Len(h) = 1..Len(f) \cup {Len(f) + 1}
  BY <1>2
<1>5. DOMAIN now = DOMAIN seen /\ \A j \in DOMAIN seen : now[j].id = seen[j].id
  OBVIOUS
<1>6. i \in Nat
  OBVIOUS
<1> HIDE DEF h, now
<1>7. InOrder(h)
  <2> SUFFICES ASSUME NEW j \in DOMAIN h, NEW k \in DOMAIN h,
                      h[j].kind = "call", h[k].kind = "result", h[j].event.index = h[k].event.index
               PROVE  j < k
    BY DEF InOrder
  <2>1. j \in 1..Len(f)
    BY <1>1, <1>2, <1>4
  <2>2. CASE k \in 1..Len(f)
    BY <1>3, <2>1, <2>2 DEF InOrder
  <2>3. CASE k = Len(f) + 1
    BY <1>4, <2>1, <2>3
  <2> QED
    BY <1>2, <1>4, <2>2, <2>3
<1>8. \A k \in DOMAIN h : RowOK(h[k], now)
  <2> SUFFICES ASSUME NEW k \in DOMAIN h PROVE RowOK(h[k], now)
    OBVIOUS
  <2>1. CASE k \in 1..Len(f)
    BY <1>3, <1>5, <2>1 DEF RowOK
  <2>2. CASE k = Len(f) + 1
    <3>1. h[k] = row /\ row.event.index + 1 = i
      BY <1>1, <1>2, <1>6, <2>2
    <3> QED
      BY <1>1, <1>5, <3>1 DEF RowOK
  <2> QED
    BY <1>2, <1>4, <2>1, <2>2
<1>9. \A p \in Posts : HasResult(f, p) => HasResult(h, p)
  BY <1>2, <1>3, <1>4 DEF HasResult
<1>10. HasResult(h, e.id)
  BY <1>1, <1>2, <1>4 DEF HasResult
<1>11. PartHoles(h) = PartHoles(f)
  BY <1>1, <1>2, <1>3, <1>4 DEF PartHoles
<1>12. \A p \in Posts : HasCall(f, p) => HasCall(h, p)
  BY <1>2, <1>3, <1>4 DEF HasCall
<1>13. \A r : OnlyAnswered(f, r) /\ r[e.id] = "200" => OnlyAnswered(h, r)
  BY <1>1, <1>2, <1>3, <1>4 DEF OnlyAnswered
<1> QED
  BY <1>2, <1>7, <1>8, <1>9, <1>10, <1>11, <1>12, <1>13 DEF h, now, row

\* A call that has no result row is assembled without an answer, and its record is not
\* complete.
LEMMA UnansweredIsIncomplete ==
  ASSUME NEW f \in Seq(Rows), NEW seen, NEW r, NEW p \in Posts, HasCall(f, p), r[p] # "200",
         OnlyAnswered(f, r), \A k \in DOMAIN f : RowOK(f[k], seen)
  PROVE  ~ PartComplete(f)
<1>1. PICK n \in DOMAIN f : f[n].kind = "call" /\ f[n].event.id = p
  BY DEF HasCall
<1> DEFINE i    == f[n].event.index
           rows == About(f, i)
           last == CHOOSE k \in rows : \A j \in rows : j <= k
<1>2. i \in PartIndices(f)
  BY <1>1 DEF PartIndices
<1>3. n \in rows /\ rows \subseteq 1..Len(f) /\ Len(f) \in Nat
  BY <1>1 DEF About
<1>4. last \in rows
  <2>1. \E k \in rows : \A j \in rows : j <= k
    BY <1>3, LastExists
  <2> QED
    BY <2>1
<1>5. \A k \in rows : /\ k \in DOMAIN f /\ f[k].event.index = i
                     /\ f[k].kind \in {"call", "result"}
  BY DEF About
<1>6. PartEvent(f, i).of = f[last].event.of
  BY DEF PartEvent
<1> HIDE DEF rows, last
<1>7. f[last].event.id = seen[i + 1].id /\ f[n].event.id = seen[i + 1].id
  BY <1>1, <1>4, <1>5 DEF RowOK
<1>8. f[last].kind = "call"
  BY <1>1, <1>4, <1>5, <1>7 DEF OnlyAnswered
<1>9. f[last].event.of = NoAnswer
  BY <1>4, <1>5, <1>8 DEF RowOK
<1> QED
  BY <1>2, <1>6, <1>9 DEF PartComplete
---------------------------------------------------------------------------
(* The steps.                                                              *)

\* A hole recorded now is a row of the file.
LEMMA HoleType ==
  ASSUME events \in Seq(Events), NEW r \in Reasons
  PROVE  Hole(r) \in Seq(Rows) /\ \E row \in Rows : Hole(r) = <<row>> /\ row.kind = "gap"
<1>1. GapRow(r, Anchor(events)) \in Rows
  <2>1. Anchor(events) \in Posts \cup {NoAnchor}
    BY AnchorType
  <2> QED
    BY <2>1, RowTypes
<1>2. GapRow(r, Anchor(events)).kind = "gap"
  BY DEF GapRow
<1> QED
  BY <1>1, <1>2 DEF Hole

\* Rows about no call, written while the POSTs refused grow by one only with a hole.
LEMMA HolesKeepUp ==
  ASSUME IInv, NEW p, NEW g \in Seq(Rows), file' = file \o g,
         \A k \in DOMAIN g : g[k].kind \notin {"call", "result"},
         \/ Refused' = Refused
         \/ Refused' = Refused \cup {p} /\ \E row \in Rows : g = <<row>> /\ row.kind = "gap"
  PROVE  HoleInv'
<1> USE DEF IInv, TypeInv, HoleInv, RefusalIsDeclared
<1>1. Refused = {q \in Posts : reply[q] = "502" /\ kind[q] \in Requests}
  BY DEF Refused
<1>2. Refused' = {q \in Posts : reply'[q] = "502" /\ kind'[q] \in Requests}
  BY DEF Refused
<1>3. /\ IsFiniteSet(Refused) /\ Cardinality(Refused) <= Cardinality(PartHoles(file))
      /\ Cardinality(Refused) \in Nat
  BY <1>1, FS_CardinalityType
<1>4. /\ file' \in Seq(Rows) /\ PartHoles(file) \subseteq PartHoles(file')
      /\ IsFiniteSet(PartHoles(file)) /\ IsFiniteSet(PartHoles(file'))
  BY PlainRows, HolesAreFinite
<1>5. /\ Cardinality(PartHoles(file)) \in Nat /\ Cardinality(PartHoles(file')) \in Nat
      /\ Cardinality(PartHoles(file)) <= Cardinality(PartHoles(file'))
  BY <1>4, FS_CardinalityType, FS_Subset
<1>6. IsFiniteSet(Refused') /\ Cardinality(Refused') <= Cardinality(PartHoles(file'))
  <2>1. CASE Refused' = Refused
    BY <1>3, <1>5, <2>1
  <2>2. CASE Refused' = Refused \cup {p} /\ \E row \in Rows : g = <<row>> /\ row.kind = "gap"
    <3>1. /\ IsFiniteSet(Refused')
          /\ Cardinality(Refused') \in {Cardinality(Refused), Cardinality(Refused) + 1}
      BY <1>3, <2>2, FS_AddElement
    <3>2. Cardinality(PartHoles(file')) = Cardinality(PartHoles(file)) + 1
      BY <2>2, OneMoreHole
    <3> QED
      BY <1>3, <1>5, <3>1, <3>2
  <2> QED
    BY <2>1, <2>2
<1> QED
  BY <1>2, <1>6

\* A thread that is at work when the agent waits for it: the agent is there, and
\* nothing is published.
LEMMA AtWork ==
  ASSUME IInv, NEW p \in Posts, state[p] \notin {"unsent", "done"}, AgentWaits
  PROVE  agent /\ verdict = "none"
<1>1. agent
  BY DEF IInv, CloseInv
<1>2. main = "serving"
  BY <1>1 DEF IInv, CloseInv
<1> QED
  BY <1>1, <1>2 DEF IInv, CloseInv

\* Replies that stay as they were given.
LEMMA ResultIds ==
  ASSUME NEW f \in Seq(Rows), NEW r, NEW s, OnlyAnswered(f, r),
         \A q \in Posts : r[q] = "200" => s[q] = "200"
  PROVE  OnlyAnswered(f, s)
<1> SUFFICES ASSUME NEW k \in DOMAIN f, f[k].kind = "result" PROVE s[f[k].event.id] = "200"
  BY DEF OnlyAnswered
<1>1. f[k] \in Rows /\ f[k].kind = "result"
  OBVIOUS
<1>2. f[k].event.id \in Posts
  BY <1>1 DEF Rows, Events
<1> QED
  BY <1>1, <1>2 DEF OnlyAnswered

\* request() returns None.
LEMMA RefuseStep ==
  ASSUME IInv, NEW p \in Posts, NEW g, state[p] \in {"observed", "opened"},
         \/ g = <<>> /\ kind[p] = "notify"
         \/ \E r \in Reasons : g = Hole(r),
         Refuse(p, g), upstream' \in {upstream, upstream \cup {p}},
         UNCHANGED <<agent, main, kind, verdict>>
  PROVE  IInv'
<1> USE DEF IInv
<1>1. /\ state' = [state EXCEPT ![p] = "done"] /\ reply' = [reply EXCEPT ![p] = "502"]
      /\ file' = file \o g /\ events' = events
  BY DEF Refuse, Reply
<1>2. /\ g \in Seq(Rows) /\ \A k \in DOMAIN g : g[k].kind \notin {"call", "result"}
      /\ (g = <<>> /\ kind[p] = "notify") \/ \E row \in Rows : g = <<row>> /\ row.kind = "gap"
  <2>1. CASE g = <<>> /\ kind[p] = "notify"
    BY <2>1
  <2>2. CASE \E r \in Reasons : g = Hole(r)
    <3>1. PICK row \in Rows : g = <<row>> /\ row.kind = "gap"
      BY <2>2, HoleType DEF TypeInv
    <3> QED
      BY <3>1
  <2> QED
    BY <2>1, <2>2
<1>3. /\ file' \in Seq(Rows) /\ InOrder(file')
      /\ \A k \in DOMAIN file' : RowOK(file'[k], events)
      /\ \A q \in Posts : HasResult(file, q) => HasResult(file', q)
      /\ \A q \in Posts : HasCall(file, q) => HasCall(file', q)
      /\ OnlyAnswered(file', reply)
  BY <1>1, <1>2, PlainRows DEF TypeInv, RowsInv, LossInv
<1>4. TypeInv'
  BY <1>1, <1>3 DEF TypeInv, States, Replies
<1>5. PostInv'
  BY <1>1 DEF PostInv, TypeInv
<1>6. EventInv'
  BY <1>1 DEF EventInv, TypeInv
<1>7. RowsInv'
  BY <1>1, <1>3 DEF RowsInv
<1>8. AnsweredInv'
  BY <1>1, <1>3 DEF AnsweredInv, TypeInv
<1>9. HoleInv'
  <2>1. Refused' = Refused \/ Refused' = Refused \cup {p}
    BY <1>1 DEF Refused, TypeInv
  <2>2. kind[p] = "notify" => Refused' = Refused
    BY <1>1 DEF Refused, TypeInv, Requests, PostInv
  <2> QED
    BY <1>1, <1>2, <2>1, <2>2, HolesKeepUp
<1>10. CloseInv'
  <2>1. AgentWaits => verdict = "none"
    BY AtWork
  <2> QED
    BY <1>1, <2>1 DEF CloseInv, TypeInv
<1>11. LossInv'
  <2>1. \A q \in Posts : reply[q] = "200" => reply'[q] = "200"
    BY <1>1 DEF PostInv, TypeInv
  <2>2. OnlyAnswered(file', reply')
    BY <1>3, <2>1, ResultIds DEF TypeInv
  <2>3. \A q \in Posts : Forwarded(q)' => Forwarded(q)
    BY <1>1 DEF Forwarded, TypeInv
  <2> QED
    BY <1>3, <2>2, <2>3 DEF LossInv
<1> QED
  BY <1>4, <1>5, <1>6, <1>7, <1>8, <1>9, <1>10, <1>11

\* The answer goes back with a 200.
LEMMA AnsweredStep ==
  ASSUME IInv, NEW p \in Posts, NEW q \in Posts, state[p] = "opened", AnswersTo(p, q),
         Answered(p, q), UNCHANGED <<agent, main, kind, upstream, verdict>>
  PROVE  IInv'
<1> USE DEF IInv
<1>1. state' = [state EXCEPT ![p] = "done"] /\ reply' = [reply EXCEPT ![p] = "200"]
  BY DEF Answered, Reply
<1>2. PostInv'
  BY <1>1 DEF PostInv, TypeInv
<1>3. CloseInv'
  <2>1. AgentWaits => verdict = "none"
    BY AtWork
  <2> QED
    BY <1>1, <2>1 DEF CloseInv, TypeInv
<1>9. /\ reply'[p] = "200" /\ \A r \in Posts : reply[r] = "200" => reply'[r] = "200"
      /\ \A r \in Posts : Forwarded(r)' => Forwarded(r)
      /\ \A r \in Posts : Forwarded(r) => HasCall(file, r)
      /\ OnlyAnswered(file, reply')
  <2>1. /\ reply'[p] = "200" /\ \A r \in Posts : reply[r] = "200" => reply'[r] = "200"
    BY <1>1 DEF PostInv, TypeInv
  <2>2. \A r \in Posts : Forwarded(r)' => Forwarded(r)
    BY <1>1 DEF Forwarded, TypeInv
  <2>3. OnlyAnswered(file, reply')
    BY <2>1, ResultIds DEF LossInv, TypeInv
  <2> QED
    BY <2>1, <2>2, <2>3 DEF LossInv
<1>4. Refused' = Refused
  BY <1>1 DEF Refused, TypeInv, PostInv
<1>5. CASE kind[p] = "call"
  <2> DEFINE i == EventOf(p)
             e == [events[i] EXCEPT !.of = q]
  <2>1. q = p
    BY <1>5 DEF AnswersTo
  <2>2. events' = [events EXCEPT ![i] = e] /\ file' = Append(file, ResultRow(e))
    BY <1>5 DEF Answered
  <2>3. i \in DOMAIN events /\ events[i].id = p
    BY <1>5 DEF EventOf, EventInv
  <2>4. events[i] \in Events /\ events[i].index = i - 1
    BY <2>3 DEF TypeInv, EventInv
  <2>5. e \in Events /\ e.index = i - 1 /\ e.id = p /\ e.of = p
    BY <2>1, <2>3, <2>4 DEF Events
  <2> HIDE DEF i, e
  <2>6. /\ file' \in Seq(Rows) /\ RowsInv' /\ PartHoles(file') = PartHoles(file)
        /\ \A r \in Posts : HasResult(file, r) => HasResult(file', r)
        /\ HasResult(file', p)
        /\ \A r \in Posts : HasCall(file, r) => HasCall(file', r)
        /\ OnlyAnswered(file', reply')
    <3>1. /\ file \in Seq(Rows) /\ events \in Seq(Events) /\ InOrder(file)
          /\ \A k \in DOMAIN file : RowOK(file[k], events)
      BY DEF TypeInv, RowsInv
    <3>2. e.index = i - 1 /\ e.id = events[i].id /\ e.of = e.id
      BY <2>3, <2>5
    <3>3. /\ Append(file, ResultRow(e)) \in Seq(Rows) /\ InOrder(Append(file, ResultRow(e)))
          /\ \A k \in DOMAIN Append(file, ResultRow(e)) :
                RowOK(Append(file, ResultRow(e))[k], [events EXCEPT ![i] = e])
          /\ \A r \in Posts : HasResult(file, r) => HasResult(Append(file, ResultRow(e)), r)
          /\ HasResult(Append(file, ResultRow(e)), e.id)
          /\ \A r \in Posts : HasCall(file, r) => HasCall(Append(file, ResultRow(e)), r)
          /\ OnlyAnswered(file, reply') /\ reply'[e.id] = "200" =>
                OnlyAnswered(Append(file, ResultRow(e)), reply')
          /\ PartHoles(Append(file, ResultRow(e))) = PartHoles(file)
      BY <2>3, <2>5, <3>1, <3>2, ResultRowAdded
    <3> QED
      BY <1>9, <2>2, <2>5, <3>3 DEF RowsInv
  <2>7. TypeInv'
    BY <1>1, <2>2, <2>3, <2>5, <2>6 DEF TypeInv, States, Replies
  <2>8. EventInv'
    <3>1. DOMAIN events' = DOMAIN events
      BY <2>2
    <3>2. \A j \in DOMAIN events : /\ events'[j].id = events[j].id /\ events[j].id \in Posts
                                   /\ events'[j].index = events[j].index
      <4>1. \A j \in DOMAIN events : events[j] \in Events
        BY DEF TypeInv
      <4> QED
        BY <2>2, <2>3, <2>4, <2>5, <4>1 DEF Events
    <3>3. /\ kind' = kind /\ \A r \in Posts : state'[r] = IF r = p THEN "done" ELSE state[r]
      BY <1>1 DEF TypeInv
    <3>4. \A j \in DOMAIN events' :
             /\ events'[j].index = j - 1 /\ kind'[events'[j].id] = "call"
             /\ state'[events'[j].id] \in {"observed", "opened", "done"}
      BY <3>1, <3>2, <3>3 DEF EventInv
    <3>5. \A r \in Posts : kind'[r] = "call" /\ state'[r] \in {"observed", "opened"} =>
             \E j \in DOMAIN events' : events'[j].id = r
      BY <3>1, <3>2, <3>3 DEF EventInv
    <3> QED
      BY <3>4, <3>5 DEF EventInv
  <2>9. AnsweredInv'
    BY <1>1, <2>6 DEF AnsweredInv, TypeInv
  <2>10. HoleInv'
    BY <1>4, <2>6 DEF HoleInv, RefusalIsDeclared, Refused
  <2>11. LossInv'
    BY <1>9, <2>6 DEF LossInv
  <2> QED
    BY <1>2, <1>3, <2>6, <2>7, <2>8, <2>9, <2>10, <2>11
<1>6. CASE kind[p] # "call"
  <2>1. events' = events
    BY <1>6 DEF Answered
  <2>2. PICK g \in {<<>>, <<DiscoverRow>>} : file' = file \o g
    <3>1. file' = file \/ file' = Append(file, DiscoverRow)
      BY <1>6 DEF Answered
    <3>2. file \in Seq(Rows) /\ DiscoverRow \in Rows
      BY RowTypes DEF TypeInv
    <3> QED
      BY <3>1, <3>2
  <2>3. g \in Seq(Rows) /\ \A k \in DOMAIN g : g[k].kind = "discover"
    <3>1. DiscoverRow \in Rows /\ DiscoverRow.kind = "discover"
      BY RowTypes DEF DiscoverRow
    <3>2. CASE g = <<>>
      BY <3>2
    <3>3. CASE g = <<DiscoverRow>>
      BY <3>1, <3>3
    <3> QED
      BY <2>2, <3>2, <3>3
  <2>4. /\ file' \in Seq(Rows) /\ InOrder(file')
        /\ \A k \in DOMAIN file' : RowOK(file'[k], events)
        /\ \A r \in Posts : HasResult(file, r) => HasResult(file', r)
        /\ \A r \in Posts : HasCall(file, r) => HasCall(file', r)
        /\ OnlyAnswered(file', reply')
    BY <1>9, <2>2, <2>3, PlainRows DEF TypeInv, RowsInv
  <2>5. PartHoles(file') = PartHoles(file)
    <3>1. \/ g = <<>>
          \/ g = <<DiscoverRow>> /\ DiscoverRow \in Rows /\ DiscoverRow.kind = "discover"
      BY <2>2, RowTypes DEF DiscoverRow
    <3> QED
      BY <2>2, <3>1 DEF PartHoles, TypeInv
  <2>6. TypeInv'
    BY <1>1, <2>1, <2>4 DEF TypeInv, States, Replies
  <2>7. EventInv'
    BY <1>1, <1>6, <2>1 DEF EventInv, TypeInv
  <2>8. RowsInv'
    BY <2>1, <2>4 DEF RowsInv
  <2>9. AnsweredInv'
    BY <1>1, <1>6, <2>4 DEF AnsweredInv, TypeInv
  <2>10. HoleInv'
    BY <1>4, <2>5 DEF HoleInv, RefusalIsDeclared, Refused
  <2>11. LossInv'
    BY <1>9, <2>4 DEF LossInv
  <2> QED
    BY <1>2, <1>3, <2>5, <2>6, <2>7, <2>8, <2>9, <2>10, <2>11
<1> QED
  BY <1>5, <1>6

\* A step that leaves the record and what is refused as they were.
LEMMA SameRecord ==
  ASSUME IInv, UNCHANGED <<events, file>>, Refused' = Refused,
         \A q \in Posts : kind'[q] = "call" /\ reply'[q] = "200" => kind[q] = "call" /\ reply[q] = "200",
         \A q \in Posts : reply[q] = "200" => reply'[q] = "200",
         \A q \in Posts : Forwarded(q)' => Forwarded(q)
  PROVE  RowsInv' /\ AnsweredInv' /\ LossInv' /\ HoleInv'
<1>1. RowsInv'
  BY DEF IInv, RowsInv
<1>2. AnsweredInv'
  BY DEF IInv, AnsweredInv
<1>3. HoleInv'
  BY DEF IInv, HoleInv, RefusalIsDeclared, Refused
<1>4. OnlyAnswered(file, reply')
  BY ResultIds DEF IInv, TypeInv, LossInv
<1>5. LossInv'
  BY <1>4 DEF IInv, LossInv
<1> QED
  BY <1>1, <1>2, <1>3, <1>5

LEMMA InitInv ==
  ASSUME Init PROVE IInv
<1> USE DEF Init
<1>1. TypeInv
  <2>1. /\ state \in [Posts -> States] /\ kind \in [Posts -> Kinds \cup {"none"}]
        /\ reply \in [Posts -> Replies]
    BY DEF States, Replies
  <2>2. events \in Seq(Events) /\ file \in Seq(Rows)
    OBVIOUS
  <2> QED
    BY <2>1, <2>2 DEF TypeInv
<1>2. PostInv /\ EventInv /\ AnsweredInv
  BY DEF PostInv, EventInv, AnsweredInv
<1>3. RowsInv /\ LossInv
  BY DEF RowsInv, InOrder, LossInv, OnlyAnswered, Forwarded
<1>4. CloseInv
  BY DEF CloseInv
<1>5. {p \in Posts : reply[p] = "502" /\ kind[p] \in Requests} = {}
  OBVIOUS
<1>6. PartHoles(file) = {}
  BY DEF PartHoles
<1> HIDE DEF Init
<1>7. HoleInv
  BY <1>5, <1>6, FS_EmptySet DEF HoleInv, RefusalIsDeclared, Refused
<1> QED
  BY <1>1, <1>2, <1>3, <1>4, <1>7 DEF IInv

\* The agent posts, and exits.
LEMMA SendStep ==
  ASSUME IInv, NEW p \in Posts, NEW k \in PostKinds, Send(p, k) PROVE IInv'
<1> USE DEF IInv, Send
<1>1. state[p] = "unsent" /\ kind[p] = "none" /\ reply[p] = "none" /\ p \notin upstream
  BY DEF PostInv, CloseInv
<1>2. k \in Kinds /\ k # "none"
  BY HttpAssumption DEF Kinds, Requests
<1>3. /\ \A q \in Posts : state'[q] = IF q = p THEN "sent" ELSE state[q]
      /\ \A q \in Posts : kind'[q] = IF q = p THEN k ELSE kind[q]
  BY DEF TypeInv
<1>4. TypeInv'
  BY <1>2 DEF TypeInv, States
<1>5. PostInv'
  BY <1>1, <1>2, <1>3 DEF PostInv
<1>6. EventInv'
  <2>1. \A j \in DOMAIN events : events[j].id \in Posts /\ events[j].id # p
    <3>1. \A j \in DOMAIN events : events[j] \in Events
      BY DEF TypeInv
    <3> QED
      BY <1>1, <3>1 DEF EventInv, Events
  <2> QED
    BY <1>1, <1>3, <2>1 DEF EventInv
<1>7. Refused' = Refused
  BY <1>1, <1>3 DEF Refused
<1>8. RowsInv' /\ AnsweredInv' /\ LossInv' /\ HoleInv'
  BY <1>1, <1>3, <1>7, SameRecord DEF Forwarded
<1>9. CloseInv'
  BY <1>1, <1>3 DEF CloseInv, TypeInv
<1> QED
  BY <1>4, <1>5, <1>6, <1>8, <1>9

LEMMA AgentExitsStep ==
  ASSUME IInv, AgentExits PROVE IInv'
<1> USE DEF IInv, AgentExits
<1>1. TypeInv' /\ PostInv' /\ EventInv'
  BY DEF TypeInv, PostInv, EventInv
<1>2. RowsInv' /\ AnsweredInv' /\ LossInv' /\ HoleInv'
  BY SameRecord DEF Refused, Forwarded
<1>3. CloseInv'
  BY DEF CloseInv
<1> QED
  BY <1>1, <1>2, <1>3

\* A thread takes the POST, rejects its body, observes it.
LEMMA AcceptStep ==
  ASSUME IInv, NEW p \in Posts, Accept(p) PROVE IInv'
<1> USE DEF IInv, Accept
<1>1. \A q \in Posts : state'[q] = IF q = p THEN "accepted" ELSE state[q]
  BY DEF TypeInv
<1>2. TypeInv'
  BY DEF TypeInv, States
<1>3. PostInv'
  BY <1>1 DEF PostInv
<1>4. EventInv'
  <2>1. \A j \in DOMAIN events : events[j].id \in Posts
    <3>1. \A j \in DOMAIN events : events[j] \in Events
      BY DEF TypeInv
    <3> QED
      BY <3>1 DEF Events
  <2> QED
    BY <1>1, <2>1 DEF EventInv
<1>5. RowsInv' /\ AnsweredInv' /\ LossInv' /\ HoleInv'
  BY <1>1, SameRecord DEF Refused, Forwarded
<1>6. CloseInv'
  <2>1. AgentWaits => agent
    BY AtWork
  <2> QED
    BY <1>1, <2>1 DEF CloseInv, TypeInv
<1> QED
  BY <1>2, <1>3, <1>4, <1>5, <1>6

LEMMA RejectStep ==
  ASSUME IInv, NEW p \in Posts, Reject(p) PROVE IInv'
<1> USE DEF IInv
<1>1. /\ state[p] = "accepted" /\ state' = [state EXCEPT ![p] = "done"]
      /\ \E status \in {"400", "cut"} : reply' = [reply EXCEPT ![p] = status]
      /\ kind[p] \in {"garbage", "odd"}
      /\ UNCHANGED <<agent, main, kind, upstream, events, file, verdict>>
  BY DEF Reject, Running, Reply
<1>2. /\ \A q \in Posts : state'[q] = IF q = p THEN "done" ELSE state[q]
      /\ \A q \in Posts : q # p => reply'[q] = reply[q]
      /\ reply'[p] \in {"400", "cut"}
  BY <1>1 DEF TypeInv
<1>3. reply[p] = "none" /\ p \notin upstream
  BY <1>1 DEF PostInv, CloseInv
<1>4. TypeInv'
  BY <1>1 DEF TypeInv, States, Replies
<1>5. PostInv'
  BY <1>1, <1>2 DEF PostInv
<1>6. EventInv'
  <2>1. \A j \in DOMAIN events : events[j].id \in Posts
    <3>1. \A j \in DOMAIN events : events[j] \in Events
      BY DEF TypeInv
    <3> QED
      BY <3>1 DEF Events
  <2> QED
    BY <1>1, <1>2, <2>1 DEF EventInv
<1>7. Refused' = Refused
  BY <1>1, <1>2, <1>3 DEF Refused
<1>8. RowsInv' /\ AnsweredInv' /\ LossInv' /\ HoleInv'
  BY <1>1, <1>2, <1>3, <1>7, SameRecord DEF Forwarded
<1>9. CloseInv'
  BY <1>1, <1>2, <1>3 DEF CloseInv, TypeInv
<1> QED
  BY <1>4, <1>5, <1>6, <1>8, <1>9

LEMMA ObserveStep ==
  ASSUME IInv, NEW p \in Posts, Observe(p) PROVE IInv'
<1> USE DEF IInv
<1>1. /\ state[p] = "accepted" /\ state' = [state EXCEPT ![p] = "observed"]
      /\ UNCHANGED <<agent, main, kind, reply, upstream, verdict>>
  BY DEF Observe, Running
<1>2. \A q \in Posts : state'[q] = IF q = p THEN "observed" ELSE state[q]
  BY <1>1 DEF TypeInv
<1>3. PostInv'
  BY <1>1, <1>2 DEF PostInv
<1>4. Refused' = Refused
  BY <1>1 DEF Refused
<1>5. \A j \in DOMAIN events : events[j] \in Events /\ events[j].id \in Posts
  <2>1. \A j \in DOMAIN events : events[j] \in Events
    BY DEF TypeInv
  <2> QED
    BY <2>1 DEF Events
<1>6. AgentWaits => agent /\ verdict = "none"
  BY <1>1, AtWork
<1>7. CloseInv'
  BY <1>1, <1>2, <1>6 DEF CloseInv, TypeInv
<1>8. CASE kind[p] = "call"
  <2> DEFINE e == Event(Len(events), p)
  <2>1. events' = Append(events, e) /\ file' = Append(file, CallRow(e))
    BY <1>8 DEF Observe, Observed
  <2>2. e \in Events /\ e.index = Len(events) /\ e.id = p /\ e.of = NoAnswer
    BY DEF Event, Events, TypeInv
  <2> HIDE DEF e
  <2>3. /\ file' \in Seq(Rows) /\ RowsInv' /\ PartHoles(file') = PartHoles(file)
        /\ \A r \in Posts : HasResult(file, r) => HasResult(file', r)
        /\ \A r \in Posts : HasCall(file, r) => HasCall(file', r)
        /\ HasCall(file', p) /\ OnlyAnswered(file', reply)
    <3>1. /\ file \in Seq(Rows) /\ events \in Seq(Events) /\ InOrder(file)
          /\ \A k \in DOMAIN file : RowOK(file[k], events)
      BY DEF TypeInv, RowsInv
    <3>2. /\ Append(file, CallRow(e)) \in Seq(Rows) /\ InOrder(Append(file, CallRow(e)))
          /\ \A k \in DOMAIN Append(file, CallRow(e)) :
                RowOK(Append(file, CallRow(e))[k], Append(events, e))
          /\ \A r \in Posts : HasResult(file, r) => HasResult(Append(file, CallRow(e)), r)
          /\ \A r \in Posts : HasCall(file, r) => HasCall(Append(file, CallRow(e)), r)
          /\ HasCall(Append(file, CallRow(e)), e.id)
          /\ OnlyAnswered(file, reply) => OnlyAnswered(Append(file, CallRow(e)), reply)
          /\ PartHoles(Append(file, CallRow(e))) = PartHoles(file)
      BY <2>2, <3>1, CallRowAdded
    <3> QED
      BY <2>1, <2>2, <3>2 DEF RowsInv, LossInv
  <2>4. TypeInv'
    BY <1>1, <2>1, <2>2, <2>3 DEF TypeInv, States
  <2>5. EventInv'
    <3>1. /\ Len(events) \in Nat /\ DOMAIN events = 1..Len(events)
          /\ DOMAIN events' = 1..(Len(events) + 1) /\ events'[Len(events) + 1] = e
          /\ \A j \in DOMAIN events : events'[j] = events[j]
      BY <2>1, <2>2 DEF TypeInv
    <3>2. \A j \in DOMAIN events' : j \in DOMAIN events \/ j = Len(events) + 1
      BY <3>1
    <3>3. \A j \in DOMAIN events' :
             /\ events'[j].index = j - 1 /\ kind'[events'[j].id] = "call"
             /\ state'[events'[j].id] \in {"observed", "opened", "done"}
      BY <1>1, <1>2, <1>5, <1>8, <2>2, <3>1, <3>2 DEF EventInv
    <3>4. \A r \in Posts : kind'[r] = "call" /\ state'[r] \in {"observed", "opened"} =>
             \E j \in DOMAIN events' : events'[j].id = r
      <4> SUFFICES ASSUME NEW r \in Posts, kind'[r] = "call", state'[r] \in {"observed", "opened"}
                   PROVE  \E j \in DOMAIN events' : events'[j].id = r
        OBVIOUS
      <4>1. CASE r = p
        BY <2>2, <3>1, <4>1
      <4>2. CASE r # p
        <5>1. PICK j \in DOMAIN events : events[j].id = r
          BY <1>1, <1>2, <4>2 DEF EventInv
        <5> QED
          BY <3>1, <5>1
      <4> QED
        BY <4>1, <4>2
    <3> QED
      BY <3>3, <3>4 DEF EventInv
  <2>6. AnsweredInv'
    BY <1>1, <2>3 DEF AnsweredInv
  <2>7. HoleInv'
    BY <1>4, <2>3 DEF HoleInv, RefusalIsDeclared, Refused
  <2>8. LossInv'
    <3>1. \A r \in Posts : Forwarded(r)' => Forwarded(r) \/ r = p
      BY <1>1, <1>2 DEF Forwarded
    <3> QED
      BY <1>1, <2>3, <3>1 DEF LossInv
  <2> QED
    BY <1>3, <1>7, <2>3, <2>4, <2>5, <2>6, <2>7, <2>8
<1>9. CASE kind[p] # "call"
  <2>1. UNCHANGED <<events, file>>
    BY <1>9 DEF Observe
  <2>2. TypeInv'
    BY <1>1, <2>1 DEF TypeInv, States
  <2>3. EventInv'
    BY <1>1, <1>2, <1>5, <1>9, <2>1 DEF EventInv
  <2>4. RowsInv' /\ AnsweredInv' /\ LossInv' /\ HoleInv'
    BY <1>1, <1>2, <1>4, <1>9, <2>1, SameRecord DEF Forwarded
  <2> QED
    BY <1>3, <1>7, <2>2, <2>3, <2>4
<1> QED
  BY <1>8, <1>9

\* An exception ends the handler.
LEMMA EscapeStep ==
  ASSUME IInv, NEW p \in Posts, state[p] \in {"observed", "opened"}, Escape(p),
         upstream' \in {upstream, upstream \cup {p}}, UNCHANGED <<agent, main, kind, verdict>>
  PROVE  IInv'
<1> USE DEF IInv
<1>1. /\ state' = [state EXCEPT ![p] = "done"] /\ reply' = [reply EXCEPT ![p] = "cut"]
      /\ UNCHANGED <<events, file>> /\ reply[p] = "none"
  BY DEF Escape, Reply, PostInv
<1>2. /\ \A q \in Posts : state'[q] = IF q = p THEN "done" ELSE state[q]
      /\ \A q \in Posts : reply'[q] = IF q = p THEN "cut" ELSE reply[q]
  BY <1>1 DEF TypeInv
<1>3. TypeInv'
  BY <1>1 DEF TypeInv, States, Replies
<1>4. PostInv'
  BY <1>1, <1>2 DEF PostInv
<1>5. EventInv'
  <2>1. \A j \in DOMAIN events : events[j].id \in Posts
    <3>1. \A j \in DOMAIN events : events[j] \in Events
      BY DEF TypeInv
    <3> QED
      BY <3>1 DEF Events
  <2> QED
    BY <1>1, <1>2, <2>1 DEF EventInv
<1>6. Refused' = Refused
  BY <1>1, <1>2 DEF Refused
<1>7. \A q \in Posts : Forwarded(q)' => Forwarded(q)
  BY <1>2 DEF Forwarded
<1>8. RowsInv' /\ AnsweredInv' /\ LossInv' /\ HoleInv'
  BY <1>1, <1>2, <1>6, <1>7, SameRecord
<1>9. CloseInv'
  <2>1. AgentWaits => verdict = "none"
    BY AtWork
  <2> QED
    BY <1>1, <1>2, <2>1 DEF CloseInv, TypeInv
<1> QED
  BY <1>3, <1>4, <1>5, <1>8, <1>9

\* urlopen() and the body.
LEMMA OpenStep ==
  ASSUME IInv, NEW p \in Posts, Open(p) PROVE IInv'
<1> USE DEF IInv
<1>1. state[p] = "observed" /\ UNCHANGED <<agent, main, kind, verdict>>
  BY DEF Open, Running
<1>2. CASE /\ state' = [state EXCEPT ![p] = "opened"] /\ upstream' = upstream \cup {p}
           /\ UNCHANGED <<reply, events, file>>
  <2>1. \A q \in Posts : state'[q] = IF q = p THEN "opened" ELSE state[q]
    BY <1>2 DEF TypeInv
  <2>2. TypeInv'
    BY <1>1, <1>2 DEF TypeInv, States
  <2>3. PostInv'
    BY <1>1, <1>2, <2>1 DEF PostInv
  <2>4. EventInv'
    <3>1. \A j \in DOMAIN events : events[j].id \in Posts
      <4>1. \A j \in DOMAIN events : events[j] \in Events
        BY DEF TypeInv
      <4> QED
        BY <4>1 DEF Events
    <3> QED
      BY <1>1, <1>2, <2>1, <3>1 DEF EventInv
  <2>5. RowsInv' /\ AnsweredInv' /\ LossInv' /\ HoleInv'
    BY <1>1, <1>2, <2>1, SameRecord DEF Refused, Forwarded
  <2>6. CloseInv'
    <3>1. AgentWaits => agent /\ verdict = "none"
      BY <1>1, AtWork
    <3> QED
      BY <1>1, <1>2, <2>1, <3>1 DEF CloseInv, TypeInv
  <2> QED
    BY <2>2, <2>3, <2>4, <2>5, <2>6
<1>3. CASE Refuse(p, Hole("upstream_error")) /\ upstream' = upstream \cup {p}
  BY <1>1, <1>3, RefuseStep DEF Reasons
<1>4. CASE Refuse(p, Hole("transport_closed")) /\ upstream' \in {upstream, upstream \cup {p}}
  BY <1>1, <1>4, RefuseStep DEF Reasons
<1>5. CASE Escape(p) /\ upstream' = upstream \cup {p}
  BY <1>1, <1>5, EscapeStep
<1> QED
  BY <1>2, <1>3, <1>4, <1>5 DEF Open

LEMMA ReceiveStep ==
  ASSUME IInv, NEW p \in Posts, Receive(p) PROVE IInv'
<1>1. /\ state[p] = "opened" /\ UNCHANGED <<agent, main, kind, verdict>>
      /\ upstream' = upstream
  BY DEF Receive, Running
<1>2. \E r \in Reasons : Broken(p) = Hole(r)
  BY DEF Broken, Reasons
<1>3. CASE Refuse(p, Broken(p))
  BY <1>1, <1>2, <1>3, RefuseStep
<1>4. CASE Refuse(p, IF kind[p] = "notify" THEN <<>> ELSE Broken(p))
  <2>1. CASE kind[p] = "notify"
    BY <1>1, <1>4, <2>1, RefuseStep
  <2>2. CASE kind[p] # "notify"
    BY <1>1, <1>2, <1>4, <2>2, RefuseStep
  <2> QED
    BY <2>1, <2>2
<1>5. CASE Refuse(p, Hole("response_truncated"))
  BY <1>1, <1>5, RefuseStep DEF Reasons
<1>6. CASE \E q \in Posts : AnswersTo(p, q) /\ Answered(p, q)
  BY <1>1, <1>6, AnsweredStep
<1>7. CASE Escape(p)
  BY <1>1, <1>7, EscapeStep
<1> QED
  BY <1>3, <1>4, <1>5, <1>6, <1>7 DEF Receive

\* The socket times out; bytes arrive and are read.
LEMMA TimeOutStep ==
  ASSUME IInv, NEW p \in Posts, TimeOut(p) PROVE IInv'
<1>1. UNCHANGED <<agent, main, kind, verdict>>
  BY DEF TimeOut
<1>2. CASE /\ state[p] = "observed" /\ Refuse(p, Hole("transport_closed"))
           /\ upstream' \in {upstream, upstream \cup {p}}
  BY <1>1, <1>2, RefuseStep DEF Reasons
<1>3. CASE state[p] = "opened" /\ Refuse(p, Broken(p)) /\ UNCHANGED upstream
  <2>1. \E r \in Reasons : Broken(p) = Hole(r)
    BY DEF Broken, Reasons
  <2> QED
    BY <1>1, <1>3, <2>1, RefuseStep
<1> QED
  BY <1>2, <1>3 DEF TimeOut, Running

LEMMA BytesStep ==
  ASSUME IInv, UNCHANGED <<agent, main, state, kind, reply, upstream, events, file, verdict>>
  PROVE  IInv'
  BY DEF IInv, TypeInv, PostInv, EventInv, RowsInv, AnsweredInv, LossInv, Forwarded, HoleInv,
         Refused, RefusalIsDeclared, CloseInv

\* The main thread writes rows of its own, or none, when no POST has moved.
LEMMA MainStep ==
  ASSUME IInv, NEW g \in Seq(Rows), file' = file \o g,
         \A k \in DOMAIN g : g[k].kind \notin {"call", "result"},
         UNCHANGED <<state, kind, reply, upstream, events>>, agent' \in BOOLEAN
  PROVE  TypeInv' /\ PostInv' /\ EventInv' /\ RowsInv' /\ AnsweredInv' /\ LossInv' /\ HoleInv'
<1> USE DEF IInv
<1>1. /\ file' \in Seq(Rows) /\ InOrder(file')
      /\ \A k \in DOMAIN file' : RowOK(file'[k], events)
      /\ \A q \in Posts : HasResult(file, q) => HasResult(file', q)
      /\ \A q \in Posts : HasCall(file, q) => HasCall(file', q)
      /\ OnlyAnswered(file', reply)
  BY PlainRows DEF TypeInv, RowsInv, LossInv
<1>2. TypeInv'
  BY <1>1 DEF TypeInv
<1>3. PostInv' /\ EventInv'
  BY DEF PostInv, EventInv
<1>4. RowsInv' /\ AnsweredInv' /\ LossInv'
  BY <1>1 DEF RowsInv, AnsweredInv, LossInv, Forwarded
<1>5. Refused' = Refused
  BY DEF Refused
<1>6. HoleInv'
  BY <1>5, HolesKeepUp
<1> QED
  BY <1>2, <1>3, <1>4, <1>6

\* The main thread binds, shuts, closes the recorder, assembles and exits.
LEMMA BindStep ==
  ASSUME IInv, Bind PROVE IInv'
<1>1. main = "binding" /\ UNCHANGED <<state, kind, reply, upstream, events, verdict>>
  BY DEF Bind
<1>2. verdict = "none" /\ ~agent
  BY <1>1 DEF IInv, CloseInv
<1>3. file \in Seq(Rows) /\ events \in Seq(Events) /\ agent \in BOOLEAN
  BY DEF IInv, TypeInv
<1>4. CASE main' = "serving" /\ agent' = TRUE /\ UNCHANGED file
  <2>1. file' = file \o <<>> /\ <<>> \in Seq(Rows) /\ \A k \in DOMAIN <<>> : FALSE
    BY <1>3, <1>4
  <2>2. TypeInv' /\ PostInv' /\ EventInv' /\ RowsInv' /\ AnsweredInv' /\ LossInv' /\ HoleInv'
    BY <1>1, <1>4, <2>1, MainStep
  <2>3. CloseInv'
    BY <1>1, <1>2, <1>4 DEF IInv, CloseInv
  <2> QED
    BY <2>2, <2>3 DEF IInv
<1>5. CASE /\ main' = "closed" /\ UNCHANGED agent
           /\ file' = Append(file, GapRow("proxy_start_failed", Anchor(events))) \o <<EndRow>>
  <2> DEFINE gap  == GapRow("proxy_start_failed", Anchor(events))
             rows == <<gap, EndRow>>
  <2>1. gap \in Rows /\ gap.kind = "gap"
    <3>1. Anchor(events) \in Posts \cup {NoAnchor} /\ "proxy_start_failed" \in Reasons
      BY <1>3, AnchorType DEF Reasons
    <3> QED
      BY <3>1, RowTypes DEF GapRow
  <2>2. EndRow \in Rows /\ EndRow.kind = "end"
    BY RowTypes DEF EndRow
  <2>3. file' = file \o rows
    BY <1>3, <1>5, <2>1, <2>2
  <2> HIDE DEF gap
  <2>4. rows \in Seq(Rows) /\ DOMAIN rows = {1, 2}
    BY <2>1, <2>2
  <2>5. \A k \in DOMAIN rows : rows[k].kind \notin {"call", "result"}
    BY <2>1, <2>2, <2>4
  <2> HIDE DEF rows
  <2>6. TypeInv' /\ PostInv' /\ EventInv' /\ RowsInv' /\ AnsweredInv' /\ LossInv' /\ HoleInv'
    BY <1>1, <1>3, <1>5, <2>3, <2>4, <2>5, MainStep
  <2>7. CloseInv'
    BY <1>1, <1>2, <1>5 DEF IInv, CloseInv
  <2> QED
    BY <2>6, <2>7 DEF IInv
<1> QED
  BY <1>4, <1>5 DEF Bind

LEMMA ShutdownStep ==
  ASSUME IInv, Shutdown PROVE IInv'
<1> USE DEF IInv, Shutdown
<1>1. \A q \in Posts : /\ state'[q] = IF state[q] = "sent" THEN "done" ELSE state[q]
                       /\ reply'[q] = IF state[q] = "sent" THEN "cut" ELSE reply[q]
  OBVIOUS
<1>2. TypeInv'
  BY DEF TypeInv, States, Replies
<1>3. PostInv'
  BY <1>1 DEF PostInv
<1>4. EventInv'
  <2>1. \A j \in DOMAIN events : events[j].id \in Posts
    <3>1. \A j \in DOMAIN events : events[j] \in Events
      BY DEF TypeInv
    <3> QED
      BY <3>1 DEF Events
  <2> QED
    BY <1>1, <2>1 DEF EventInv
<1>5. Refused' = Refused
  BY <1>1 DEF Refused, PostInv
<1>6. RowsInv' /\ AnsweredInv' /\ LossInv' /\ HoleInv'
  BY <1>1, <1>5, SameRecord DEF Forwarded, PostInv
<1>7. CloseInv'
  BY <1>1 DEF CloseInv, TypeInv
<1> QED
  BY <1>2, <1>3, <1>4, <1>6, <1>7

LEMMA CloseRecorderStep ==
  ASSUME IInv, CloseRecorder PROVE IInv'
<1> USE DEF IInv, CloseRecorder
<1>1. EndRow \in Rows /\ EndRow.kind = "end"
  BY RowTypes DEF EndRow
<1> DEFINE rows == <<EndRow>>
<1>2. /\ file' = file \o rows /\ rows \in Seq(Rows)
      /\ \A k \in DOMAIN rows : rows[k].kind \notin {"call", "result"}
  BY <1>1 DEF TypeInv
<1> HIDE DEF rows
<1>3. TypeInv' /\ PostInv' /\ EventInv' /\ RowsInv' /\ AnsweredInv' /\ LossInv' /\ HoleInv'
  BY <1>2, MainStep DEF TypeInv
<1>4. CloseInv'
  BY DEF CloseInv
<1> QED
  BY <1>3, <1>4

LEMMA AssembleStep ==
  ASSUME IInv, Assemble PROVE IInv'
<1> USE DEF IInv, Assemble
<1>1. TypeInv' /\ PostInv' /\ EventInv' /\ RowsInv' /\ AnsweredInv' /\ LossInv' /\ HoleInv'
  <2>1. file' = file \o <<>> /\ <<>> \in Seq(Rows) /\ \A k \in DOMAIN <<>> : FALSE
    BY DEF TypeInv
  <2> QED
    BY <2>1, MainStep DEF TypeInv
<1>2. CloseInv'
  BY DEF CloseInv
<1> QED
  BY <1>1, <1>2

LEMMA ExitStep ==
  ASSUME IInv, Exit PROVE IInv'
<1> USE DEF IInv, Exit
<1>1. TypeInv' /\ PostInv' /\ EventInv' /\ RowsInv' /\ AnsweredInv' /\ LossInv' /\ HoleInv'
  <2>1. file' = file \o <<>> /\ <<>> \in Seq(Rows) /\ \A k \in DOMAIN <<>> : FALSE
    BY DEF TypeInv
  <2> QED
    BY <2>1, MainStep DEF TypeInv
<1>2. CloseInv'
  BY DEF CloseInv
<1> QED
  BY <1>1, <1>2

LEMMA NextInv ==
  ASSUME IInv, [Next]_vars PROVE IInv'
<1>1. ASSUME NEW p \in Posts, Handler(p) PROVE IInv'
  <2>1. CASE Local(p)
    BY <2>1, AcceptStep, RejectStep, ObserveStep DEF Local
  <2>2. CASE Open(p) \/ Receive(p) \/ TimeOut(p)
    BY <2>2, OpenStep, ReceiveStep, TimeOutStep
  <2>3. CASE ReadOn(p)
    BY <2>3, BytesStep DEF ReadOn
  <2> QED
    BY <1>1, <2>1, <2>2, <2>3 DEF Handler
<1>6. ASSUME NEW p \in Posts, Drip(p) PROVE IInv'
  BY <1>6, BytesStep DEF Drip
<1>2. ASSUME NEW p \in Posts, NEW k \in PostKinds, Send(p, k) PROVE IInv'
  BY <1>2, SendStep
<1>3. CASE Main
  BY <1>3, BindStep, ShutdownStep, CloseRecorderStep, AssembleStep, ExitStep DEF Main
<1>4. CASE AgentExits
  BY <1>4, AgentExitsStep
<1>5. CASE UNCHANGED vars
  BY <1>5, BytesStep DEF vars
<1> QED
  BY <1>1, <1>2, <1>3, <1>4, <1>5, <1>6 DEF Next
---------------------------------------------------------------------------
(* The theorems.                                                           *)

\* The inductive invariant holds of every behaviour.
THEOREM Invariance == Spec => []IInv
<1>1. Init => IInv
  BY InitInv
<1>2. IInv /\ [Next]_vars => IInv'
  BY NextInv
<1> QED
  BY <1>1, <1>2, PTL DEF Spec

\* The recorder's and the handlers' state is of its type, the main thread is at one of
\* its stages and the verdict is one that assemble() gives.
THEOREM TypeCorrect == Spec => []TypeOK
<1> DEFINE Stages   == main \in {"binding", "serving", "shut", "closed", "assembled", "exited"}
           Verdicts == verdict \in {"none", "complete", "incomplete"}
           Bytes    == arriving \subseteq Posts
           Rest     == Stages /\ Verdicts /\ Bytes
<1>1. Init => Rest
  BY DEF Init
<1>2. Rest /\ [Next]_vars => Rest'
  <2> SUFFICES ASSUME Rest, [Next]_vars PROVE Rest'
    OBVIOUS
  <2>1. ASSUME NEW p \in Posts, Handler(p) \/ Drip(p)
        PROVE  UNCHANGED <<main, verdict>> /\ arriving' \subseteq arriving \cup {p}
    BY <2>1 DEF Handler, Local, Accept, Reject, Observe, Open, Receive, ReadOn, TimeOut, Drip
  <2>2. ASSUME NEW p \in Posts, NEW k \in PostKinds, Send(p, k)
        PROVE  UNCHANGED <<main, verdict, arriving>>
    BY <2>2 DEF Send
  <2>3. CASE Main
    BY <2>3 DEF Main, Bind, Shutdown, CloseRecorder, Assemble, Exit
  <2>4. CASE AgentExits
    BY <2>4 DEF AgentExits
  <2>5. CASE UNCHANGED vars
    BY <2>5 DEF vars
  <2>6. CASE \E p \in Posts : Handler(p) \/ Drip(p)
    BY <2>1, <2>6
  <2> QED
    BY <2>2, <2>3, <2>4, <2>5, <2>6 DEF Next
<1>3. Spec => []Rest
  BY <1>1, <1>2, PTL DEF Spec
<1>4. IInv /\ Rest => TypeOK
  BY DEF IInv, TypeInv, PostInv, EventInv, TypeOK, States, Replies
<1> QED
  BY <1>3, <1>4, Invariance, PTL

\* What the agent was told, the record holds: however many POSTs are recorded at once,
\* a 200 to a call is in the file with that call's own answer.
THEOREM AnsweredCalls == Spec => []AnsweredIsRecorded
<1>1. IInv => AnsweredIsRecorded
  <2> SUFFICES ASSUME IInv, NEW p \in Posts, kind[p] = "call", reply[p] = "200"
               PROVE  \E i \in PartIndices(file) : PartEvent(file, i) = [id |-> p, of |-> p]
    BY DEF AnsweredIsRecorded
  <2>1. HasResult(file, p)
    BY DEF IInv, AnsweredInv
  <2> QED
    BY <2>1, ResultIsRead DEF IInv, TypeInv, RowsInv
<1> QED
  BY <1>1, Invariance, PTL

\* Every request refused with a 502 has a hole of its own in the record.
THEOREM DeclaredRefusals == Spec => []RefusalIsDeclared
<1>1. IInv => RefusalIsDeclared
  BY DEF IInv, HoleInv
<1> QED
  BY <1>1, Invariance, PTL

\* With an agent that waits for its replies, a session published as complete has every
\* call its server was handed, with the answer.
THEOREM CompleteCalls == ASSUME AgentWaits PROVE Spec => []CompleteSession
<1>1. IInv => CompleteSession
  <2> SUFFICES ASSUME IInv, verdict = "complete", NEW p \in upstream, kind[p] = "call"
               PROVE  \E i \in PartIndices(file) : PartEvent(file, i) = [id |-> p, of |-> p]
    BY DEF CompleteSession
  <2>1. p \in Posts
    BY DEF IInv, TypeInv
  <2>2. state[p] = "done"
    <3>1. ~agent
      BY DEF IInv, CloseInv
    <3>2. state[p] \in {"opened", "done"} /\ state[p] \in {"unsent", "done"}
      BY <2>1, <3>1 DEF IInv, CloseInv
    <3> QED
      BY <3>2
  <2>3. reply[p] \in {"200", "502", "cut"} /\ PartComplete(file)
    BY <2>2 DEF IInv, CloseInv
  <2>4. reply[p] = "200"
    <3>1. HasCall(file, p) /\ OnlyAnswered(file, reply)
      BY <2>1 DEF IInv, LossInv, Forwarded
    <3> QED
      BY <2>1, <2>3, <3>1, UnansweredIsIncomplete DEF IInv, TypeInv, RowsInv
  <2>5. HasResult(file, p)
    BY <2>1, <2>4 DEF IInv, AnsweredInv
  <2> QED
    BY <2>1, <2>5, ResultIsRead DEF IInv, TypeInv, RowsInv
<1> QED
  BY <1>1, Invariance, PTL
=============================================================================
