------------------------- MODULE StdioProxy_proofs -------------------------
(***************************************************************************)
(* Theorems about StdioProxy, for any messages of the agent and any lines  *)
(* of the server, in any order.  The inductive invariant IInv says where a *)
(* line of the server may be, which event a row is about, what serve() is  *)
(* waiting for, and what is known of a message that reached the server.    *)
(***************************************************************************)
EXTENDS StdioProxy, TLAPS, FiniteSetTheorems, SequenceTheorems, WellFoundedInduction

----------------------------------------------------------------------------
(* Positions.                                                              *)

\* A set of positions has a first one.
LEMMA FirstExists ==
  ASSUME NEW S, S \subseteq Nat, S # {}
  PROVE  \E m \in S : \A n \in S : m <= n
<1>1. PICK m \in S : \A n \in S : ~ (<<n, m>> \in OpToRel(<, Nat))
  BY NatLessThanWellFounded, WFMin
<1>2. OpToRel(<, Nat) = { pair \in Nat \X Nat : pair[1] < pair[2] }
  BY DEF OpToRel
<1>3. ASSUME NEW n \in S PROVE m <= n
  <2>1. <<n, m>> \in Nat \X Nat /\ ~ (n < m)
    BY <1>1, <1>2
  <2> QED
    BY <2>1
<1> QED
  BY <1>3

\* A set of positions in a sequence has a last one.
LEMMA LastExists ==
  ASSUME NEW N \in Nat, NEW S, S \subseteq 1..N, S # {}
  PROVE  \E m \in S : \A n \in S : n <= m
<1> DEFINE D == { N - k : k \in S }
<1>1. D \subseteq Nat /\ D # {}
  <2>1. \A k \in S : N - k \in Nat
    OBVIOUS
  <2> QED
    BY <2>1
<1>2. PICK d \in D : \A e \in D : d <= e
  BY <1>1, FirstExists
<1>3. PICK m \in S : d = N - m
  OBVIOUS
<1>4. \A n \in S : n \in Nat /\ d <= N - n
  BY <1>2
<1>5. \A n \in S : n <= m
  BY <1>3, <1>4
<1> QED
  BY <1>5

\* A sequence without its last element.
LEMMA FrontOfSeq ==
  ASSUME NEW S, NEW f \in Seq(S), Len(f) \in Nat \ {0}
  PROVE  /\ Front(f) \in Seq(S)
         /\ Len(Front(f)) = Len(f) - 1
         /\ \A k \in 1..Len(Front(f)) : Front(f)[k] = f[k]
<1>1. Len(SubSeq(f, 1, Len(f) - 1)) = Len(f) - 1
  OBVIOUS
<1>2. SubSeq(f, 1, Len(f) - 1) \in Seq(S)
  OBVIOUS
<1>3. ASSUME NEW k \in 1..(Len(f) - 1) PROVE SubSeq(f, 1, Len(f) - 1)[k] = f[k]
  OBVIOUS
<1> QED
  BY <1>1, <1>2, <1>3 DEF Front

\* A sequence whose last element is replaced.
LEMMA LastReplaced ==
  ASSUME NEW S, NEW s \in Seq(S), s # <<>>, NEW e \in S
  PROVE  Append(Front(s), e) = [s EXCEPT ![Len(s)] = e]
<1> DEFINE t == Append(Front(s), e)
           u == [s EXCEPT ![Len(s)] = e]
<1>1. Len(s) \in Nat \ {0}
  OBVIOUS
<1>2. /\ Front(s) \in Seq(S) /\ Len(Front(s)) = Len(s) - 1
      /\ \A k \in 1..(Len(s) - 1) : Front(s)[k] = s[k]
  BY <1>1, FrontOfSeq
<1>3. t \in Seq(S) /\ Len(t) = Len(s)
  BY <1>1, <1>2
<1>4. u \in Seq(S) /\ Len(u) = Len(s)
  BY <1>1, ExceptSeq
<1>5. \A k \in 1..Len(s) : t[k] = u[k]
  BY <1>1, <1>2
<1> QED
  BY <1>3, <1>4, <1>5, SeqEqual


----------------------------------------------------------------------------
\* The server numbers its own requests apart from the agent's: without it an answer can
\* be taken for another's (the run stdio_ids).
NumbersApart == ServerIds \cap ToSet(AgentIds) = {}

---------------------------------------------------------------------------
(* The inductive invariant.                                                *)

Ids      == ToSet(AgentIds)
Asked    == [kind : Requests, id : Ids]
Messages == Asked \cup [kind : Kinds \ Requests, id : {NoId}]
Said     == {x \in [kind : Lines, id : Ids \cup ServerIds \cup {NoId}] :
                x.kind = "request" => x.id \in ServerIds}
Numbered == [kind : Lines, id : Ids \cup ServerIds \cup {NoId}, n : Nat]
Output   == Numbered \cup {Half}
Queued   == {x \in Numbered : x.kind # "undecodable"} \cup {Eof, Leftover}
Things   == Numbered \cup {Half, Eof, Leftover}
Reasons  == {"proxy_start_failed", "transport_closed", "unparsable_record", "output_closed",
             "upstream_exited", "response_truncated", "upstream_timeout"}
Events   == [index : Nat, id : Ids, of : Ids \cup {NoAnswer, Stranger}]
Rows     == [kind : {"call", "result"}, event : Events]
            \cup [kind : {"gap"}, gap : [reason : Reasons, after : Ids \cup {NoAnchor}]]
            \cup [kind : {"discover", "end"}]

TypeInv ==
    /\ used \in 0..Len(AgentIds) /\ launch \in 1..MaxLaunches
    /\ toProxy \in Seq(Messages) /\ taken \subseteq Messages
    /\ reached \subseteq [kind : Kinds, id : Ids \cup {NoId}, launch : 1..launch]
    /\ said \in Seq(Said) /\ toAgent \in Seq(Numbered) /\ outOfBand \in Seq(Numbered)
    /\ lines \in Seq(Queued) /\ pipe \in Seq(Output)
    /\ events \in Seq(Events) /\ file \in Seq(Rows)

\* The agent's requests are in the queue in the order of their ids, and one that
\* reached a server has left it.
QueueInv ==
    /\ Len(toProxy) <= used
    /\ \A k \in DOMAIN toProxy :
          toProxy[k].kind \in Requests => toProxy[k].id = AgentIds[used - Len(toProxy) + k]
    /\ \A m \in reached :
          m.kind \in Requests => \E j \in 1..(used - Len(toProxy)) : m.id = AgentIds[j]

\* A call that reached the server of this launch.
Delivered(id) == [kind |-> "call", id |-> id, launch |-> launch] \in reached

HasCall(rows, id) == \E k \in DOMAIN rows : rows[k].kind = "call" /\ rows[k].event.id = id

\* A call that is written to the server or waited for is the last event.
LastIsCurrent == events # <<>> /\ Last(events).id = current.id /\ Last(events).of = NoAnswer

\* A request that is being written is the last that was read: those that reached a server
\* were read before it.
LastRead ==
    /\ Len(toProxy) < used /\ current.id = AgentIds[used - Len(toProxy)]
    /\ \A m \in reached :
          m.kind \in Requests => \E j \in 1..(used - Len(toProxy) - 1) : m.id = AgentIds[j]

\* What serve() writes to the server it has read and recorded; while it waits, it waits
\* for a request, which was delivered.
WaitInv ==
    /\ pc = "sending" =>
          /\ current \in Messages /\ current.kind \in Relayed
          /\ current.kind \in Requests => LastRead
          /\ current.kind = "call" => LastIsCurrent /\ HasCall(file, current.id)
    /\ pc = "waiting" =>
          /\ current \in Asked
          /\ current.kind = "call" => LastIsCurrent /\ Delivered(current.id)
    /\ pc \notin {"sending", "waiting", "killed"} => current = NoMessage

\* An event is at its index, and one that is settled is of a call that was delivered,
\* with its own answer.
EventInv ==
    \A i \in DOMAIN events :
        /\ events[i].index = i - 1
        /\ events[i].of # NoAnswer => Delivered(events[i].id)
        /\ NumbersApart => events[i].of \in {NoAnswer, events[i].id}

\* A call or result row is about the event at its index, as it was or as it is.
RowOK(row, seen) ==
    row.kind \in {"call", "result"} =>
        /\ row.event.index + 1 \in DOMAIN seen
        /\ row.event.id = seen[row.event.index + 1].id
        /\ row.event.of \in {NoAnswer, seen[row.event.index + 1].of}
RowsInv == \A k \in DOMAIN file : RowOK(file[k], events)

\* What was delivered the file knows of, and it has an end only when serve() is over.
KnownInv ==
    \A m \in reached : m.launch = launch =>
        /\ m.kind = "call" => HasCall(file, m.id)
        /\ m.kind = "garbage" => PartHoles(file) # {}
EndInv == PartEnded(file) => pc = "closed"

\* The numbers of the lines in a sequence; a note past the count, half a line and an end
\* have none.
Number(x)   == IF x.kind \in Lines THEN x.n ELSE 0
Numbers(s)  == { Number(s[k]) : k \in DOMAIN s } \ {0}
Before(A, B) == \A a \in A, b \in B : a < b
InOrder(s)  == \A j, k \in DOMAIN s :
                  j < k /\ Number(s[j]) # 0 /\ Number(s[k]) # 0 => Number(s[j]) < Number(s[k])
Written(x, all) == Number(x) # 0 => /\ Number(x) \in DOMAIN all
                                    /\ all[Number(x)] = [kind |-> x.kind, id |-> x.id]
Genuine(s, all) == \A k \in DOMAIN s : Written(s[k], all)
Counted(s)  == \A k \in DOMAIN s : s[k].n # 0
OnlyNote(x) == x.kind \in Lines /\ x.n = 0 => x.kind = "note"
OnlyNotes(s) == \A k \in DOMAIN s : OnlyNote(s[k])

\* A line goes from the server's output to the pump's queue, may be set aside, and is
\* handed over: at each place the lines are in the order they were written, and those
\* that are further on were written before.
FlowOf(handed, aside, queued, output, all) ==
    /\ InOrder(handed) /\ InOrder(aside) /\ InOrder(queued) /\ InOrder(output)
    /\ Genuine(handed, all) /\ Genuine(aside, all)
    /\ Genuine(queued, all) /\ Genuine(output, all)
    /\ Before(Numbers(handed), Numbers(aside) \cup Numbers(queued) \cup Numbers(output))
    /\ Before(Numbers(aside), Numbers(queued) \cup Numbers(output))
    /\ Before(Numbers(queued), Numbers(output))
    /\ Counted(handed) /\ Counted(aside)
    /\ OnlyNotes(queued) /\ OnlyNotes(output)
FlowInv == FlowOf(toAgent, outOfBand, lines, pipe, said)

\* A request that got nothing back has a hole.
HoleInv == IsFiniteSet(taken) /\ UnansweredIsDeclared

IInv == /\ TypeInv /\ QueueInv /\ WaitInv /\ EventInv /\ RowsInv /\ KnownInv /\ EndInv
        /\ FlowInv /\ HoleInv
---------------------------------------------------------------------------
(* Lemmas about sequences of lines.                                        *)

\* A thing in the server's output has a number or none.
LEMMA NumberType ==
  ASSUME NEW x \in Things
  PROVE  Number(x) \in Nat /\ (x.kind \in Lines <=> x \in Numbered)
<1>1. CASE x \in Numbered
  BY <1>1 DEF Numbered, Number
<1>2. CASE x \in {Half, Eof, Leftover}
  BY <1>2 DEF Number, Half, Eof, Leftover, Lines, Numbered
<1> QED
  BY <1>1, <1>2 DEF Things

LEMMA NumbersType ==
  ASSUME NEW s \in Seq(Things) PROVE Numbers(s) \subseteq Nat \ {0}
<1>1. \A k \in DOMAIN s : s[k] \in Things
  OBVIOUS
<1> QED
  BY <1>1, NumberType DEF Numbers

\* A thing at the end of a sequence.
LEMMA NumberedAppend ==
  ASSUME NEW s \in Seq(Things), NEW x \in Things
  PROVE  /\ Append(s, x) \in Seq(Things)
         /\ Numbers(Append(s, x)) = Numbers(s) \cup ({Number(x)} \ {0})
         /\ InOrder(s) /\ Before(Numbers(s), {Number(x)} \ {0}) => InOrder(Append(s, x))
         /\ \A all : Genuine(s, all) /\ Written(x, all) => Genuine(Append(s, x), all)
         /\ Counted(s) /\ x.n # 0 => Counted(Append(s, x))
         /\ OnlyNotes(s) /\ OnlyNote(x) => OnlyNotes(Append(s, x))
<1> DEFINE t == Append(s, x)
<1>1. t \in Seq(Things) /\ Len(t) = Len(s) + 1 /\ t[Len(s) + 1] = x
  OBVIOUS
<1>2. \A k \in 1..Len(s) : t[k] = s[k]
  OBVIOUS
<1>3. Len(s) \in Nat /\ DOMAIN s = 1..Len(s) /\ DOMAIN t = 1..Len(s) \cup {Len(s) + 1}
  BY <1>1
<1>4. \A k \in DOMAIN s : Number(s[k]) \in Nat
  BY NumberType
<1> HIDE DEF t
<1>5. Numbers(t) = Numbers(s) \cup ({Number(x)} \ {0})
  BY <1>1, <1>2, <1>3 DEF Numbers
<1>6. ASSUME InOrder(s), Before(Numbers(s), {Number(x)} \ {0}) PROVE InOrder(t)
  <2> SUFFICES ASSUME NEW j \in DOMAIN t, NEW k \in DOMAIN t, j < k, Number(t[j]) # 0, Number(t[k]) # 0
               PROVE  Number(t[j]) < Number(t[k])
    BY DEF InOrder
  <2>1. j \in 1..Len(s)
    BY <1>3
  <2>2. CASE k \in 1..Len(s)
    BY <1>2, <1>3, <1>6, <2>1, <2>2 DEF InOrder
  <2>3. CASE k = Len(s) + 1
    BY <1>1, <1>2, <1>3, <1>6, <2>1, <2>3 DEF Before, Numbers
  <2> QED
    BY <1>3, <2>2, <2>3
<1>7. \A all : Genuine(s, all) /\ Written(x, all) => Genuine(t, all)
  BY <1>1, <1>2, <1>3 DEF Genuine
<1>8. Counted(s) /\ x.n # 0 => Counted(t)
  BY <1>1, <1>2, <1>3 DEF Counted
<1>9. OnlyNotes(s) /\ OnlyNote(x) => OnlyNotes(t)
  BY <1>1, <1>2, <1>3 DEF OnlyNotes
<1> QED
  BY <1>1, <1>5, <1>6, <1>7, <1>8, <1>9 DEF t

\* A sequence without its head.
LEMMA NumberedTail ==
  ASSUME NEW s \in Seq(Things), s # <<>>
  PROVE  /\ Head(s) \in Things /\ Tail(s) \in Seq(Things)
         /\ Numbers(s) = ({Number(Head(s))} \ {0}) \cup Numbers(Tail(s))
         /\ InOrder(s) => /\ InOrder(Tail(s))
                          /\ Before({Number(Head(s))} \ {0}, Numbers(Tail(s)))
         /\ \A all : Genuine(s, all) => Genuine(Tail(s), all) /\ Written(Head(s), all)
         /\ OnlyNotes(s) => OnlyNotes(Tail(s)) /\ OnlyNote(Head(s))
<1> DEFINE t == Tail(s)
<1>1. t \in Seq(Things) /\ Len(t) = Len(s) - 1 /\ Len(s) \in Nat \ {0}
  OBVIOUS
<1>2. \A k \in 1..Len(t) : t[k] = s[k + 1]
  OBVIOUS
<1>3. Head(s) = s[1] /\ 1 \in DOMAIN s /\ DOMAIN s = 1..Len(s) /\ DOMAIN t = 1..Len(t)
  BY <1>1
<1>4. \A k \in DOMAIN s : k = 1 \/ (k - 1 \in DOMAIN t /\ s[k] = t[k - 1])
  BY <1>1, <1>2, <1>3
<1>5. \A k \in DOMAIN t : k \in Nat /\ k >= 1 /\ k + 1 \in DOMAIN s
  BY <1>1, <1>3
<1> HIDE DEF t
<1>6. Numbers(s) = ({Number(s[1])} \ {0}) \cup Numbers(t)
  <2>1. \A k \in DOMAIN s : k = 1 \/ \E j \in DOMAIN t : s[k] = t[j]
    BY <1>4
  <2>2. \A k \in DOMAIN t : \E j \in DOMAIN s : t[k] = s[j]
    BY <1>2, <1>3, <1>5
  <2> QED
    BY <1>3, <2>1, <2>2 DEF Numbers
<1>7. ASSUME InOrder(s) PROVE InOrder(t) /\ Before({Number(s[1])} \ {0}, Numbers(t))
  <2>1. InOrder(t)
    BY <1>2, <1>3, <1>5, <1>7 DEF InOrder
  <2>2. Before({Number(s[1])} \ {0}, Numbers(t))
    BY <1>2, <1>3, <1>5, <1>7 DEF InOrder, Before, Numbers
  <2> QED
    BY <2>1, <2>2
<1>8. \A all : Genuine(s, all) => Genuine(t, all) /\ Written(s[1], all)
  BY <1>2, <1>3, <1>5 DEF Genuine
<1>9. OnlyNotes(s) => OnlyNotes(t) /\ OnlyNote(s[1])
  BY <1>2, <1>3, <1>5 DEF OnlyNotes
<1> QED
  BY <1>1, <1>3, <1>6, <1>7, <1>8, <1>9 DEF t

\* One sequence behind another.
LEMMA NumberedConcat ==
  ASSUME NEW s \in Seq(Things), NEW u \in Seq(Things)
  PROVE  /\ Numbers(s \o u) = Numbers(s) \cup Numbers(u)
         /\ InOrder(s) /\ InOrder(u) /\ Before(Numbers(s), Numbers(u)) => InOrder(s \o u)
         /\ \A all : Genuine(s, all) /\ Genuine(u, all) => Genuine(s \o u, all)
         /\ Counted(s) /\ Counted(u) => Counted(s \o u)
<1> DEFINE t == s \o u
<1>1. t \in Seq(Things) /\ Len(t) = Len(s) + Len(u) /\ Len(s) \in Nat /\ Len(u) \in Nat
  BY ConcatProperties
<1>2. \A k \in DOMAIN s : t[k] = s[k] /\ k \in DOMAIN t
  BY <1>1, ConcatProperties
<1>3. \A k \in DOMAIN u : t[k + Len(s)] = u[k] /\ k + Len(s) \in DOMAIN t
  <2> SUFFICES ASSUME NEW k \in DOMAIN u PROVE t[k + Len(s)] = u[k] /\ k + Len(s) \in DOMAIN t
    OBVIOUS
  <2>1. k + Len(s) \in Nat /\ Len(s) < k + Len(s) /\ k + Len(s) <= Len(s) + Len(u) /\ (k + Len(s)) - Len(s) = k
    BY <1>1
  <2> QED
    BY <1>1, <2>1, ConcatProperties
<1>4. \A k \in DOMAIN t : k \in DOMAIN s \/ (k - Len(s) \in DOMAIN u /\ t[k] = u[k - Len(s)] /\ k > Len(s))
  <2> SUFFICES ASSUME NEW k \in DOMAIN t, k \notin DOMAIN s
               PROVE  k - Len(s) \in DOMAIN u /\ t[k] = u[k - Len(s)] /\ k > Len(s)
    OBVIOUS
  <2>1. k - Len(s) \in DOMAIN u /\ k > Len(s) /\ (k - Len(s)) + Len(s) = k
    BY <1>1
  <2> QED
    BY <1>3, <2>1
<1>5. DOMAIN s = 1..Len(s) /\ DOMAIN u = 1..Len(u) /\ DOMAIN t = 1..Len(t)
  BY <1>1
<1> HIDE DEF t
<1>6. Numbers(t) = Numbers(s) \cup Numbers(u)
  <2>1. \A k \in DOMAIN t : (\E j \in DOMAIN s : t[k] = s[j]) \/ (\E j \in DOMAIN u : t[k] = u[j])
    BY <1>2, <1>4
  <2>2. \A k \in DOMAIN s : \E j \in DOMAIN t : s[k] = t[j]
    BY <1>2
  <2>3. \A k \in DOMAIN u : \E j \in DOMAIN t : u[k] = t[j]
    BY <1>3
  <2> QED
    BY <2>1, <2>2, <2>3 DEF Numbers
<1>7. ASSUME InOrder(s), InOrder(u), Before(Numbers(s), Numbers(u)) PROVE InOrder(t)
  <2> SUFFICES ASSUME NEW j \in DOMAIN t, NEW k \in DOMAIN t, j < k, Number(t[j]) # 0, Number(t[k]) # 0
               PROVE  Number(t[j]) < Number(t[k])
    BY DEF InOrder
  <2>1. CASE j \in DOMAIN s /\ k \in DOMAIN s
    BY <1>2, <1>7, <2>1 DEF InOrder
  <2>2. CASE j \in DOMAIN s /\ k \notin DOMAIN s
    <3>1. Number(t[j]) \in Numbers(s)
      BY <1>2, <2>2 DEF Numbers
    <3>2. Number(t[k]) \in Numbers(u)
      BY <1>4, <2>2 DEF Numbers
    <3> QED
      BY <1>7, <3>1, <3>2 DEF Before
  <2>3. CASE j \notin DOMAIN s /\ k \notin DOMAIN s
    <3>1. j - Len(s) < k - Len(s)
      BY <1>1, <1>5
    <3> QED
      BY <1>4, <1>7, <2>3, <3>1 DEF InOrder
  <2>4. ~ (j \notin DOMAIN s /\ k \in DOMAIN s)
    BY <1>1, <1>5
  <2> QED
    BY <2>1, <2>2, <2>3, <2>4
<1>8. \A all : Genuine(s, all) /\ Genuine(u, all) => Genuine(t, all)
  BY <1>2, <1>4 DEF Genuine
<1>9. Counted(s) /\ Counted(u) => Counted(t)
  BY <1>2, <1>4 DEF Counted
<1> QED
  BY <1>6, <1>7, <1>8, <1>9 DEF t

\* What was written stays so when the server writes another line, whose number is
\* greater than any there was.
LEMMA WrittenBefore ==
  ASSUME NEW s \in Seq(Things), NEW all \in Seq(Said), Genuine(s, all), NEW line \in Said
  PROVE  Genuine(s, Append(all, line)) /\ Numbers(s) \subseteq 1..Len(all)
<1>1. \A j \in DOMAIN all : j \in DOMAIN Append(all, line) /\ Append(all, line)[j] = all[j]
  OBVIOUS
<1>2. Genuine(s, Append(all, line))
  BY <1>1 DEF Genuine, Written
<1>3. ASSUME NEW a \in Numbers(s) PROVE a \in 1..Len(all)
  <2>1. PICK k \in DOMAIN s : a = Number(s[k]) /\ a # 0
    BY <1>3 DEF Numbers
  <2>2. Written(s[k], all)
    BY DEF Genuine
  <2>3. DOMAIN all = 1..Len(all)
    OBVIOUS
  <2> QED
    BY <2>1, <2>2, <2>3 DEF Written
<1> QED
  BY <1>2, <1>3

\* A line the server may write.
LEMMA SayableType == ASSUME TypeInv PROVE Sayable \subseteq Said
  BY StdioAssumption DEF TypeInv, Sayable, Said, Ids
---------------------------------------------------------------------------
(* Lemmas about rows.                                                      *)

\* Rows, as the recorder builds them.
LEMMA RowTypes ==
  /\ \A e \in Events : CallRow(e) \in Rows /\ ResultRow(e) \in Rows
  /\ \A r \in Reasons, a \in Ids \cup {NoAnchor} : GapRow(r, a) \in Rows
  /\ DiscoverRow \in Rows /\ EndRow \in Rows
  BY DEF CallRow, ResultRow, GapRow, DiscoverRow, EndRow, Rows

\* A hole is anchored to a call that was observed.
LEMMA GapType ==
  ASSUME NEW s \in Seq(Events), NEW r \in Reasons
  PROVE  GapRow(r, Anchor(s)) \in Rows /\ GapRow(r, Anchor(s)).kind = "gap"
<1>1. Anchor(s) \in Ids \cup {NoAnchor}
  <2>1. CASE s = <<>>
    BY <2>1 DEF Anchor
  <2>2. CASE s # <<>>
    <3>1. s[Len(s)] \in Events
      BY <2>2
    <3>2. s[Len(s)].id \in Ids
      BY <3>1 DEF Events
    <3> QED
      BY <2>2, <3>2 DEF Anchor, Last
  <2> QED
    BY <2>1, <2>2
<1>2. GapRow(r, Anchor(s)).kind = "gap"
  BY DEF GapRow
<1> QED
  BY <1>1, <1>2, RowTypes

\* A row at the end of a file.
LEMMA RowAdded ==
  ASSUME NEW f \in Seq(Rows), NEW row \in Rows
  PROVE  /\ Append(f, row) \in Seq(Rows)
         /\ \A id : HasCall(f, id) => HasCall(Append(f, row), id)
         /\ row.kind = "call" => HasCall(Append(f, row), row.event.id)
         /\ PartHoles(Append(f, row)) =
               PartHoles(f) \cup (IF row.kind = "gap" THEN {Len(f) + 1} ELSE {})
         /\ Len(f) + 1 \notin PartHoles(f)
         /\ PartEnded(Append(f, row)) <=> PartEnded(f) \/ row.kind = "end"
         /\ \A seen : (\A k \in DOMAIN f : RowOK(f[k], seen)) /\ RowOK(row, seen)
                      => \A k \in DOMAIN Append(f, row) : RowOK(Append(f, row)[k], seen)
<1> DEFINE h == Append(f, row)
<1>1. h \in Seq(Rows) /\ Len(h) = Len(f) + 1 /\ h[Len(f) + 1] = row
  OBVIOUS
<1>2. \A k \in 1..Len(f) : h[k] = f[k]
  OBVIOUS
<1>3. Len(f) \in Nat /\ DOMAIN f = 1..Len(f) /\ DOMAIN h = 1..Len(f) \cup {Len(f) + 1}
  BY <1>1
<1>4. row.kind \in {"call", "result", "gap", "discover", "end"}
  BY DEF Rows
<1> HIDE DEF h
<1>5. \A id : HasCall(f, id) => HasCall(h, id)
  BY <1>2, <1>3 DEF HasCall
<1>6. row.kind = "call" => HasCall(h, row.event.id)
  BY <1>1, <1>3 DEF HasCall
<1>7. PartHoles(h) = PartHoles(f) \cup (IF row.kind = "gap" THEN {Len(f) + 1} ELSE {})
  BY <1>1, <1>2, <1>3, <1>4 DEF PartHoles
<1>8. Len(f) + 1 \notin PartHoles(f)
  BY <1>3 DEF PartHoles
<1>9. PartEnded(h) <=> PartEnded(f) \/ row.kind = "end"
  BY <1>1, <1>2, <1>3 DEF PartEnded
<1>10. \A seen : (\A k \in DOMAIN f : RowOK(f[k], seen)) /\ RowOK(row, seen)
                      => \A k \in DOMAIN h : RowOK(h[k], seen)
  BY <1>1, <1>2, <1>3
<1> QED
  BY <1>1, <1>5, <1>6, <1>7, <1>8, <1>9, <1>10 DEF h

\* The positions of the holes are finitely many.
LEMMA HolesAreFinite ==
  ASSUME NEW f \in Seq(Rows) PROVE IsFiniteSet(PartHoles(f))
<1>1. IsFiniteSet(1..Len(f)) /\ PartHoles(f) \subseteq 1..Len(f)
  BY FS_Interval DEF PartHoles
<1> QED
  BY <1>1, FS_Subset

\* A row says the same of a longer sequence of events, and of one whose last event is
\* settled now.
LEMMA RowStillOK ==
  ASSUME NEW seen \in Seq(Events), NEW row, NEW e \in Events, RowOK(row, seen)
  PROVE  /\ RowOK(row, Append(seen, e))
         /\ seen # <<>> /\ e.id = Last(seen).id /\ Last(seen).of = NoAnswer
               => RowOK(row, Append(Front(seen), e))
<1>1. RowOK(row, Append(seen, e))
  <2>1. \A i \in DOMAIN seen : i \in DOMAIN Append(seen, e) /\ Append(seen, e)[i] = seen[i]
    OBVIOUS
  <2> HIDE DEF RowOK
  <2> QED
    BY <2>1 DEF RowOK
<1>2. ASSUME seen # <<>>, e.id = Last(seen).id, Last(seen).of = NoAnswer
      PROVE  RowOK(row, Append(Front(seen), e))
  <2>1. Append(Front(seen), e) = [seen EXCEPT ![Len(seen)] = e]
    BY <1>2, LastReplaced
  <2>2. /\ DOMAIN [seen EXCEPT ![Len(seen)] = e] = DOMAIN seen
        /\ \A i \in DOMAIN seen : /\ [seen EXCEPT ![Len(seen)] = e][i].id = seen[i].id
                                  /\ [seen EXCEPT ![Len(seen)] = e][i].of = seen[i].of \/ seen[i].of = NoAnswer
    BY <1>2 DEF Last
  <2> QED
    BY <2>1, <2>2 DEF RowOK
<1> QED
  BY <1>1, <1>2
---------------------------------------------------------------------------
(* Lemmas about the places a line goes through.                            *)

\* Half a line or an end goes, or a line goes without being handed on.
LEMMA FlowDropped ==
  ASSUME NEW a, NEW o, NEW all, NEW l \in Seq(Things), NEW p \in Seq(Things), FlowOf(a, o, l, p, all)
  PROVE  /\ p # <<>> => FlowOf(a, o, l, Tail(p), all)
         /\ l # <<>> => FlowOf(a, o, Tail(l), p, all)
<1>1. ASSUME p # <<>> PROVE FlowOf(a, o, l, Tail(p), all)
  <2>1. /\ Numbers(Tail(p)) \subseteq Numbers(p) /\ InOrder(Tail(p)) /\ Genuine(Tail(p), all)
        /\ OnlyNotes(Tail(p))
    BY <1>1, NumberedTail DEF FlowOf
  <2> QED
    BY <2>1 DEF FlowOf, Before
<1>2. ASSUME l # <<>> PROVE FlowOf(a, o, Tail(l), p, all)
  <2>1. /\ Numbers(Tail(l)) \subseteq Numbers(l) /\ InOrder(Tail(l)) /\ Genuine(Tail(l), all)
        /\ OnlyNotes(Tail(l))
    BY <1>2, NumberedTail DEF FlowOf
  <2> QED
    BY <2>1 DEF FlowOf, Before
<1> QED
  BY <1>1, <1>2

\* The pump queues an end of the output, which is no line.
LEMMA FlowEnd ==
  ASSUME NEW a, NEW o, NEW all, NEW l \in Seq(Things), NEW p, FlowOf(a, o, l, p, all),
         NEW x \in {Eof, Leftover}
  PROVE  FlowOf(a, o, Append(l, x), p, all)
<1>1. x \in Things /\ Number(x) = 0 /\ OnlyNote(x) /\ {Number(x)} \ {0} = {}
  BY DEF Things, Number, OnlyNote, Eof, Leftover, Lines
<1>2. Written(x, all) /\ Before(Numbers(l), {Number(x)} \ {0})
  BY <1>1 DEF Written, Before
<1>3. Numbers(Append(l, x)) = Numbers(l) \cup ({Number(x)} \ {0})
  BY <1>1, NumberedAppend
<1>4. InOrder(Append(l, x))
  BY <1>1, <1>2, NumberedAppend DEF FlowOf
<1>5. Genuine(Append(l, x), all) /\ OnlyNotes(Append(l, x))
  BY <1>1, <1>2, NumberedAppend DEF FlowOf
<1>6. Numbers(Append(l, x)) = Numbers(l)
  BY <1>1, <1>3
<1> QED
  BY <1>4, <1>5, <1>6 DEF FlowOf

\* The pump queues the next line of the output.
LEMMA FlowQueued ==
  ASSUME NEW a, NEW o, NEW all, NEW l \in Seq(Things), NEW p \in Seq(Things), FlowOf(a, o, l, p, all),
         p # <<>>
  PROVE  FlowOf(a, o, Append(l, Head(p)), Tail(p), all)
<1> DEFINE x == Head(p)
           N == {Number(x)} \ {0}
<1>1. /\ x \in Things /\ Numbers(p) = N \cup Numbers(Tail(p))
      /\ InOrder(Tail(p)) /\ Before(N, Numbers(Tail(p)))
      /\ Genuine(Tail(p), all) /\ Written(x, all)
      /\ OnlyNotes(Tail(p)) /\ OnlyNote(x)
  BY NumberedTail DEF FlowOf
<1> HIDE DEF x
<1>2. Before(Numbers(l), N)
  BY <1>1 DEF FlowOf, Before
<1>3. Numbers(Append(l, x)) = Numbers(l) \cup N
  BY <1>1, NumberedAppend
<1>4. InOrder(Append(l, x))
  BY <1>1, <1>2, NumberedAppend DEF FlowOf
<1>5. Genuine(Append(l, x), all) /\ OnlyNotes(Append(l, x))
  BY <1>1, NumberedAppend DEF FlowOf
<1> HIDE DEF N
<1>6. /\ Before(Numbers(a), Numbers(o) \cup Numbers(Append(l, x)) \cup Numbers(Tail(p)))
      /\ Before(Numbers(o), Numbers(Append(l, x)) \cup Numbers(Tail(p)))
      /\ Before(Numbers(Append(l, x)), Numbers(Tail(p)))
  BY <1>1, <1>3 DEF FlowOf, Before
<1> QED
  BY <1>1, <1>4, <1>5, <1>6 DEF FlowOf, x

\* serve() sets the next line of the queue aside.
LEMMA FlowAside ==
  ASSUME NEW a, NEW all, NEW o \in Seq(Things), NEW l \in Seq(Things), NEW p,
         FlowOf(a, o, l, p, all), l # <<>>, Head(l) \in Numbered, Head(l).n # 0
  PROVE  FlowOf(a, Append(o, Head(l)), Tail(l), p, all)
<1> DEFINE x == Head(l)
           N == {Number(x)} \ {0}
<1>1. /\ x \in Things /\ Numbers(l) = N \cup Numbers(Tail(l))
      /\ InOrder(Tail(l)) /\ Before(N, Numbers(Tail(l)))
      /\ Genuine(Tail(l), all) /\ Written(x, all)
      /\ OnlyNotes(Tail(l)) /\ x.n # 0
  BY NumberedTail DEF FlowOf
<1> HIDE DEF x
<1>2. Before(Numbers(o), N)
  BY <1>1 DEF FlowOf, Before
<1>3. Numbers(Append(o, x)) = Numbers(o) \cup N
  BY <1>1, NumberedAppend
<1>4. InOrder(Append(o, x))
  BY <1>1, <1>2, NumberedAppend DEF FlowOf
<1>5. Genuine(Append(o, x), all) /\ Counted(Append(o, x))
  BY <1>1, NumberedAppend DEF FlowOf
<1> HIDE DEF N
<1>6. /\ Before(Numbers(a), Numbers(Append(o, x)) \cup Numbers(Tail(l)) \cup Numbers(p))
      /\ Before(Numbers(Append(o, x)), Numbers(Tail(l)) \cup Numbers(p))
      /\ Before(Numbers(Tail(l)), Numbers(p))
  BY <1>1, <1>3 DEF FlowOf, Before
<1> QED
  BY <1>1, <1>4, <1>5, <1>6 DEF FlowOf, x

\* What was set aside is handed over.
LEMMA FlowHandedOver ==
  ASSUME NEW a \in Seq(Things), NEW all, NEW o \in Seq(Things), NEW l, NEW p, FlowOf(a, o, l, p, all)
  PROVE  FlowOf(a \o o, <<>>, l, p, all)
<1>1. /\ Numbers(a \o o) = Numbers(a) \cup Numbers(o) /\ InOrder(a \o o)
      /\ Genuine(a \o o, all) /\ Counted(a \o o)
  <2>1. Before(Numbers(a), Numbers(o))
    BY DEF FlowOf, Before
  <2> QED
    BY <2>1, NumberedConcat DEF FlowOf
<1>2. Numbers(<<>>) = {} /\ InOrder(<<>>) /\ Genuine(<<>>, all) /\ Counted(<<>>)
  BY DEF Numbers, InOrder, Genuine, Counted
<1>3. /\ Before(Numbers(a) \cup Numbers(o), Numbers(l) \cup Numbers(p))
  BY DEF FlowOf, Before
<1>4. Before({}, Numbers(l) \cup Numbers(p))
  BY DEF Before
<1> QED
  BY <1>1, <1>2, <1>3, <1>4 DEF FlowOf
---------------------------------------------------------------------------
(* What a step leaves as it was.                                           *)

\* The places of lines, as sequences of things.
LEMMA Places ==
  ASSUME TypeInv
  PROVE  /\ toAgent \in Seq(Things) /\ outOfBand \in Seq(Things)
         /\ lines \in Seq(Things) /\ pipe \in Seq(Things)
<1>1. Numbered \subseteq Things /\ Output \subseteq Things /\ Queued \subseteq Things
  BY DEF Things, Output, Queued
<1> QED
  BY <1>1 DEF TypeInv

LEMMA SameFlow ==
  ASSUME FlowInv, UNCHANGED <<toAgent, outOfBand, lines, pipe, said>> PROVE FlowInv'
  BY DEF FlowInv, FlowOf

LEMMA SameSession ==
  ASSUME IInv, UNCHANGED <<toProxy, used, reached, events, launch>> PROVE QueueInv' /\ EventInv'
<1>1. QueueInv'
  BY DEF IInv, QueueInv
<1>2. EventInv'
  BY DEF IInv, EventInv, Delivered, NumbersApart
<1> QED
  BY <1>1, <1>2

LEMMA SameFile ==
  ASSUME IInv, UNCHANGED <<file, events, reached, launch>> PROVE RowsInv' /\ KnownInv'
<1>1. RowsInv'
  BY DEF IInv, RowsInv
<1>2. KnownInv'
  BY DEF IInv, KnownInv
<1> QED
  BY <1>1, <1>2

\* The holes keep up with the requests that got nothing back: these are no more than
\* they were, or one more with a hole that was not there.
LEMMA HolesKeepUp ==
  ASSUME HoleInv, IsFiniteSet(taken'), IsFiniteSet(PartHoles(file')),
         PartHoles(file) \subseteq PartHoles(file'),
         agent' # "gone" =>
            /\ agent # "gone"
            /\ \/ Silent' \subseteq Silent
               \/ \E m, h : Silent' \subseteq Silent \cup {m} /\ h \in PartHoles(file') \ PartHoles(file)
  PROVE  HoleInv'
<1>1. IsFiniteSet(Silent) /\ IsFiniteSet(PartHoles(file))
  <2>1. Silent \subseteq taken
    BY DEF Silent
  <2> QED
    BY <2>1, FS_Subset DEF HoleInv
<1>2. ASSUME agent' # "gone" PROVE Cardinality(Silent') <= Cardinality(PartHoles(file'))
  <2>1. Cardinality(Silent) <= Cardinality(PartHoles(file))
    BY <1>2 DEF HoleInv, UnansweredIsDeclared
  <2>2. /\ Cardinality(Silent) \in Nat /\ Cardinality(PartHoles(file)) \in Nat
        /\ Cardinality(PartHoles(file')) \in Nat
        /\ Cardinality(PartHoles(file)) <= Cardinality(PartHoles(file'))
    BY <1>1, FS_CardinalityType, FS_Subset
  <2>3. CASE Silent' \subseteq Silent
    <3>1. Cardinality(Silent') \in Nat /\ Cardinality(Silent') <= Cardinality(Silent)
      BY <1>1, <2>3, FS_CardinalityType, FS_Subset
    <3> QED
      BY <2>1, <2>2, <3>1
  <2>4. ASSUME NEW m, NEW h, Silent' \subseteq Silent \cup {m}, h \in PartHoles(file') \ PartHoles(file)
        PROVE  Cardinality(Silent') <= Cardinality(PartHoles(file'))
    <3>1. /\ IsFiniteSet(Silent \cup {m})
          /\ Cardinality(Silent \cup {m}) \in {Cardinality(Silent), Cardinality(Silent) + 1}
      BY <1>1, FS_AddElement
    <3>2. Cardinality(Silent') \in Nat /\ Cardinality(Silent') <= Cardinality(Silent \cup {m})
      BY <2>4, <3>1, FS_CardinalityType, FS_Subset
    <3>3. Cardinality(PartHoles(file) \cup {h}) = Cardinality(PartHoles(file)) + 1
      BY <1>1, <2>4, FS_AddElement
    <3>4. Cardinality(PartHoles(file) \cup {h}) <= Cardinality(PartHoles(file'))
      BY <2>4, FS_Subset
    <3> QED
      BY <2>1, <2>2, <3>1, <3>2, <3>3, <3>4
  <2> QED
    BY <1>2, <2>3, <2>4
<1> QED
  BY <1>2 DEF HoleInv, UnansweredIsDeclared

LEMMA SameHoles ==
  ASSUME IInv, agent' # "gone" => agent # "gone", UNCHANGED <<taken, toAgent, current, file>>
  PROVE  HoleInv'
<1>1. Silent' = Silent
  BY DEF Silent
<1>2. IsFiniteSet(PartHoles(file)) /\ IsFiniteSet(taken)
  BY HolesAreFinite DEF IInv, TypeInv, HoleInv
<1> QED
  BY <1>1, <1>2, HolesKeepUp DEF IInv

\* A step of the server or of the pump changes what is under way and nothing else.
LEMMA OutputOnly ==
  ASSUME IInv, UNCHANGED <<agent, used, taken, toProxy, toAgent, reached, pc, current, outOfBand,
                           events, file, launch>>
  PROVE  QueueInv' /\ WaitInv' /\ EventInv' /\ RowsInv' /\ KnownInv' /\ EndInv' /\ HoleInv'
<1>1. QueueInv' /\ EventInv' /\ RowsInv' /\ KnownInv' /\ HoleInv'
  BY SameSession, SameFile, SameHoles
<1>2. WaitInv' /\ EndInv'
  BY DEF IInv, WaitInv, EndInv, Delivered, LastIsCurrent, LastRead
<1> QED
  BY <1>1, <1>2
---------------------------------------------------------------------------
(* The agent and the server.                                               *)

LEMMA InitInv == Init => IInv
<1> SUFFICES ASSUME Init PROVE IInv
  OBVIOUS
<1> USE DEF Init
<1>1. TypeInv
  <2>1. Len(AgentIds) \in Nat
    BY StdioAssumption
  <2> QED
    BY <2>1, StdioAssumption DEF TypeInv
<1>2. QueueInv /\ WaitInv /\ EventInv /\ RowsInv /\ KnownInv /\ EndInv
  BY DEF QueueInv, WaitInv, EventInv, RowsInv, KnownInv, EndInv, PartEnded
<1>3. FlowInv
  BY DEF FlowInv, FlowOf, InOrder, Genuine, Counted, OnlyNotes, Before, Numbers
<1>4. HoleInv
  <2>1. Silent = {} /\ PartHoles(file) = {}
    BY DEF Silent, PartHoles
  <2> HIDE DEF Init
  <2>2. IsFiniteSet(taken) /\ Cardinality(Silent) = 0 /\ Cardinality(PartHoles(file)) = 0
    BY <2>1, FS_EmptySet DEF Init
  <2> QED
    BY <2>2 DEF HoleInv, UnansweredIsDeclared
<1> HIDE DEF Init
<1> QED
  BY <1>1, <1>2, <1>3, <1>4 DEF IInv

LEMMA AgentSendsStep ==
  ASSUME IInv, NEW kind \in AgentKinds, AgentSends(kind) PROVE IInv'
<1> USE DEF AgentSends
<1> DEFINE id == IF kind \in Requests THEN AgentIds[used + 1] ELSE NoId
           m  == [kind |-> kind, id |-> id]
<1>1. UNCHANGED <<agent, taken, toAgent, server, said, reached, pipe, partial, pumping, lines, pc,
                  current, outOfBand, events, file, launch>>
  BY DEF serverVars, pumpVars
<1>2. used + 1 \in DOMAIN AgentIds /\ used + 1 \in 0..Len(AgentIds) /\ used \in Nat
  BY StdioAssumption DEF IInv, TypeInv
<1>3. m \in Messages
  <2>1. AgentIds[used + 1] \in Ids
    BY <1>2 DEF Ids, ToSet
  <2>2. kind \in Kinds
    BY StdioAssumption
  <2> QED
    BY <2>1, <2>2 DEF Messages, Asked
<1>4. toProxy' = Append(toProxy, m)
  OBVIOUS
<1>5. TypeInv'
  BY <1>1, <1>2, <1>3, <1>4 DEF IInv, TypeInv
<1>6. QueueInv'
  <2>1. toProxy \in Seq(Messages) /\ Len(toProxy) \in Nat /\ Len(toProxy') = Len(toProxy) + 1
    BY <1>3, <1>4 DEF IInv, TypeInv
  <2>2. used' - Len(toProxy') = used - Len(toProxy) /\ Len(toProxy') <= used'
    BY <1>2, <2>1 DEF IInv, QueueInv
  <2>3. ASSUME NEW k \in DOMAIN toProxy', toProxy'[k].kind \in Requests
        PROVE  toProxy'[k].id = AgentIds[used' - Len(toProxy') + k]
    <3>1. CASE k \in DOMAIN toProxy
      BY <1>3, <1>4, <2>1, <2>2, <2>3, <3>1 DEF IInv, QueueInv
    <3>2. CASE k = Len(toProxy) + 1
      <4>1. toProxy'[k] = m
        BY <1>4, <2>1, <3>2
      <4>2. used' - Len(toProxy') + k = used + 1
        BY <1>2, <2>1, <2>2, <3>2
      <4> QED
        BY <2>3, <4>1, <4>2
    <3> QED
      BY <1>3, <1>4, <2>1, <3>1, <3>2
  <2> QED
    BY <1>1, <2>2, <2>3 DEF IInv, QueueInv
<1>7. WaitInv' /\ EventInv' /\ EndInv'
  <2>1. /\ used' - Len(toProxy') = used - Len(toProxy) /\ (Len(toProxy) < used => Len(toProxy') < used')
    <3>1. Len(toProxy) \in Nat /\ Len(toProxy') = Len(toProxy) + 1
      BY <1>3, <1>4 DEF IInv, TypeInv
    <3> QED
      BY <1>2, <3>1
  <2> QED
    BY <1>1, <2>1 DEF IInv, WaitInv, EventInv, EndInv, Delivered, LastIsCurrent, LastRead, NumbersApart
<1>8. RowsInv' /\ KnownInv' /\ FlowInv' /\ HoleInv'
  BY <1>1, SameFile, SameFlow, SameHoles DEF IInv
<1> QED
  BY <1>5, <1>6, <1>7, <1>8 DEF IInv

\* Steps that move only where the agent, the server or serve() is.
LEMMA AgentClosesStep == ASSUME IInv, AgentCloses PROVE IInv'
<1> USE DEF AgentCloses
<1>1. UNCHANGED <<used, taken, toProxy, toAgent, server, said, reached, pipe, partial, pumping,
                  lines, pc, current, outOfBand, events, file, launch>>
  BY DEF serverVars, pumpVars
<1>2. agent' # "gone" => agent # "gone"
  OBVIOUS
<1>3. TypeInv' /\ WaitInv' /\ EndInv'
  BY <1>1 DEF IInv, TypeInv, WaitInv, EndInv, Delivered, LastIsCurrent, LastRead
<1>4. QueueInv' /\ EventInv' /\ RowsInv' /\ KnownInv' /\ FlowInv' /\ HoleInv'
  BY <1>1, <1>2, SameSession, SameFile, SameFlow, SameHoles DEF IInv
<1> QED
  BY <1>3, <1>4 DEF IInv

LEMMA ServerStopsStep == ASSUME IInv, ServerStops PROVE IInv'
<1> USE DEF ServerStops
<1>1. UNCHANGED <<agent, used, taken, toProxy, toAgent, said, reached, pipe, partial, pumping, lines,
                  pc, current, outOfBand, events, file, launch>>
  BY DEF agentVars, pumpVars
<1>2. TypeInv'
  BY <1>1 DEF IInv, TypeInv
<1>3. QueueInv' /\ WaitInv' /\ EventInv' /\ RowsInv' /\ KnownInv' /\ EndInv' /\ HoleInv'
  BY <1>1, OutputOnly
<1>4. FlowInv'
  BY <1>1, SameFlow DEF IInv
<1> QED
  BY <1>2, <1>3, <1>4 DEF IInv

LEMMA ServerLagsStep == ASSUME IInv, ServerLags PROVE IInv'
<1>1. UNCHANGED <<agent, used, taken, toProxy, toAgent, said, reached, pipe, partial, pumping, lines,
                  pc, current, outOfBand, events, file, launch>>
  BY DEF ServerLags, agentVars, pumpVars
<1>2. TypeInv'
  BY <1>1 DEF IInv, TypeInv
<1>3. QueueInv' /\ WaitInv' /\ EventInv' /\ RowsInv' /\ KnownInv' /\ EndInv' /\ HoleInv'
  BY <1>1, OutputOnly
<1>4. FlowInv'
  BY <1>1, SameFlow DEF IInv
<1> QED
  BY <1>2, <1>3, <1>4 DEF IInv

\* The server writes: a line, a note that is not counted, half a line.
LEMMA ServerSaysStep == ASSUME IInv, NEW line \in Sayable, ServerSays(line) PROVE IInv'
<1> USE DEF ServerSays
<1> DEFINE x == [kind |-> line.kind, id |-> line.id, n |-> Len(said) + 1]
<1>1. /\ UNCHANGED <<agent, used, taken, toProxy, toAgent, reached, partial, pumping, lines, pc, current,
                     outOfBand, events, file, launch>>
      /\ said' = Append(said, line) /\ pipe' = Append(pipe, x)
  BY DEF agentVars
<1>2. line \in Said /\ said \in Seq(Said) /\ Len(said) \in Nat
  BY SayableType DEF IInv, TypeInv
<1>3. x \in Numbered /\ x \in Things /\ x \in Output /\ Number(x) = Len(said) + 1 /\ x.n = Len(said) + 1
  BY <1>2 DEF Said, Numbered, Things, Output, Number
<1>4. Written(x, said') /\ OnlyNote(x)
  <2>1. Len(said) + 1 \in DOMAIN said' /\ said'[Len(said) + 1] = line
    BY <1>1, <1>2
  <2>2. line = [kind |-> x.kind, id |-> x.id]
    BY <1>2 DEF Said
  <2> QED
    BY <1>2, <1>3, <2>1, <2>2 DEF Written, OnlyNote
<1> HIDE DEF x, ServerSays
<1>5. TypeInv'
  BY <1>1, <1>2, <1>3 DEF IInv, TypeInv
<1>6. QueueInv' /\ WaitInv' /\ EventInv' /\ RowsInv' /\ KnownInv' /\ EndInv' /\ HoleInv'
  BY <1>1, OutputOnly
<1>7. FlowInv'
  <2>1. /\ toAgent \in Seq(Things) /\ outOfBand \in Seq(Things) /\ lines \in Seq(Things) /\ pipe \in Seq(Things)
    BY Places DEF IInv
  <2>2. FlowInv
    BY DEF IInv
  <2>3. /\ Genuine(toAgent, said') /\ Genuine(outOfBand, said') /\ Genuine(lines, said')
        /\ Genuine(pipe, said')
    BY <1>1, <1>2, <2>1, <2>2, WrittenBefore DEF FlowInv, FlowOf
  <2>4. Numbers(toAgent) \cup Numbers(outOfBand) \cup Numbers(lines) \cup Numbers(pipe) \subseteq 1..Len(said)
    BY <1>2, <2>1, <2>2, WrittenBefore DEF FlowInv, FlowOf
  <2>5. Before(Numbers(pipe), {Number(x)} \ {0})
    BY <1>2, <1>3, <2>4 DEF Before
  <2>6. /\ InOrder(pipe') /\ Genuine(pipe', said') /\ OnlyNotes(pipe')
        /\ Numbers(pipe') = Numbers(pipe) \cup {Len(said) + 1}
    <3>1. {Number(x)} \ {0} = {Len(said) + 1}
      BY <1>2, <1>3
    <3> QED
      BY <1>1, <1>3, <1>4, <2>1, <2>2, <2>3, <2>5, <3>1, NumberedAppend DEF FlowInv, FlowOf
  <2>7. Before(Numbers(toAgent) \cup Numbers(outOfBand) \cup Numbers(lines), {Len(said) + 1})
    BY <1>2, <2>4 DEF Before
  <2>8. /\ Before(Numbers(toAgent), Numbers(outOfBand) \cup Numbers(lines) \cup Numbers(pipe'))
        /\ Before(Numbers(outOfBand), Numbers(lines) \cup Numbers(pipe'))
        /\ Before(Numbers(lines), Numbers(pipe'))
    BY <2>2, <2>6, <2>7 DEF FlowInv, FlowOf, Before
  <2> QED
    BY <1>1, <2>2, <2>3, <2>6, <2>8 DEF FlowInv, FlowOf
<1> QED
  BY <1>5, <1>6, <1>7 DEF IInv

LEMMA UnnumberedStep ==
  ASSUME IInv, NEW x \in Output, Number(x) = 0, OnlyNote(x), pipe' = Append(pipe, x),
         UNCHANGED <<agent, used, taken, toProxy, toAgent, said, reached, lines, pc, current,
                     outOfBand, events, file, launch>>
  PROVE  IInv'
<1>1. TypeInv'
  BY DEF IInv, TypeInv
<1>2. QueueInv' /\ WaitInv' /\ EventInv' /\ RowsInv' /\ KnownInv' /\ EndInv' /\ HoleInv'
  BY OutputOnly
<1>3. FlowInv'
  <2>1. pipe \in Seq(Things) /\ FlowInv
    BY Places DEF IInv
  <2>2. x \in Things /\ Written(x, said) /\ {Number(x)} \ {0} = {}
    BY DEF Output, Things, Written
  <2>3. Before(Numbers(pipe), {Number(x)} \ {0})
    BY <2>2 DEF Before
  <2>4. /\ Numbers(pipe') = Numbers(pipe) /\ InOrder(pipe') /\ Genuine(pipe', said) /\ OnlyNotes(pipe')
    <3>1. Numbers(Append(pipe, x)) = Numbers(pipe) \cup ({Number(x)} \ {0})
      BY <2>1, <2>2, NumberedAppend
    <3>2. InOrder(Append(pipe, x))
      BY <2>1, <2>2, <2>3, NumberedAppend DEF FlowInv, FlowOf
    <3>3. Genuine(Append(pipe, x), said) /\ OnlyNotes(Append(pipe, x))
      BY <2>1, <2>2, NumberedAppend DEF FlowInv, FlowOf
    <3> QED
      BY <2>2, <3>1, <3>2, <3>3
  <2> QED
    BY <2>1, <2>4 DEF FlowInv, FlowOf
<1> QED
  BY <1>1, <1>2, <1>3 DEF IInv

LEMMA ServerChatsStep == ASSUME IInv, ServerChats PROVE IInv'
<1> DEFINE x == [kind |-> "note", id |-> NoId, n |-> 0]
<1>1. /\ UNCHANGED <<agent, used, taken, toProxy, toAgent, said, reached, lines, pc, current,
                     outOfBand, events, file, launch>>
      /\ pipe' = Append(pipe, x)
  BY DEF ServerChats, agentVars, serverVars
<1>2. x \in Output /\ Number(x) = 0 /\ OnlyNote(x)
  BY DEF Output, Numbered, Lines, Number, OnlyNote
<1> QED
  BY <1>1, <1>2, UnnumberedStep

LEMMA ServerWritesHalfStep == ASSUME IInv, ServerWritesHalf PROVE IInv'
<1>1. /\ UNCHANGED <<agent, used, taken, toProxy, toAgent, said, reached, lines, pc, current,
                     outOfBand, events, file, launch>>
      /\ pipe' = Append(pipe, Half)
  BY DEF ServerWritesHalf, agentVars
<1>2. Half \in Output /\ Number(Half) = 0 /\ OnlyNote(Half)
  BY DEF Output, Half, Lines, Number, OnlyNote
<1> QED
  BY <1>1, <1>2, UnnumberedStep

\* _pump() queues what the server wrote, and the end of it.
LEMMA PumpStep == ASSUME IInv, Pump PROVE IInv'
<1>1. UNCHANGED <<agent, used, taken, toProxy, toAgent, said, reached, pc, current, outOfBand,
                  events, file, launch>>
  BY DEF Pump, agentVars, serverVars
<1>2. QueueInv' /\ WaitInv' /\ EventInv' /\ RowsInv' /\ KnownInv' /\ EndInv' /\ HoleInv'
  BY <1>1, OutputOnly
<1>3. FlowInv /\ lines \in Seq(Queued) /\ pipe \in Seq(Output)
  BY DEF IInv, TypeInv
<1>4. lines \in Seq(Things) /\ pipe \in Seq(Things)
  BY Places DEF IInv
<1>5. ASSUME NEW x \in {Eof, Leftover}
      PROVE  x \in Queued /\ Append(lines, x) \in Seq(Queued) /\ Append(lines, x) \in Seq(Things)
  BY <1>3, <1>4 DEF Queued, Things
<1>6. pipe' \in Seq(Output) /\ lines' \in Seq(Queued) /\ FlowOf(toAgent, outOfBand, lines', pipe', said)
  <2>1. CASE pipe # <<>> /\ pipe' = Tail(pipe) /\ lines' = lines
    BY <1>3, <1>4, <2>1, FlowDropped DEF FlowInv
  <2>2. CASE pipe # <<>> /\ pipe' = Tail(pipe) /\ lines' = Append(lines, Eof)
    <3>1. FlowOf(toAgent, outOfBand, lines, pipe', said)
      BY <1>3, <1>4, <2>2, FlowDropped DEF FlowInv
    <3> QED
      BY <1>3, <1>4, <1>5, <2>2, <3>1, FlowEnd
  <2>3. CASE /\ pipe # <<>> /\ pipe' = Tail(pipe) /\ lines' = Append(lines, Head(pipe))
             /\ Head(pipe) # Half /\ Head(pipe).kind # "undecodable"
    <3>1. Head(pipe) \in Queued
      <4>1. Head(pipe) \in Output
        BY <1>3, <2>3
      <4> QED
        BY <2>3, <4>1 DEF Output, Queued
    <3> QED
      BY <1>3, <1>4, <2>3, <3>1, FlowQueued DEF FlowInv
  <2>4. CASE pipe' = pipe /\ lines' = lines \o <<Eof>>
    <3>1. lines' = Append(lines, Eof)
      BY <1>3, <2>4
    <3> QED
      BY <1>3, <1>4, <1>5, <2>4, <3>1, FlowEnd DEF FlowInv
  <2>5. CASE pipe' = pipe /\ lines' = lines \o <<Leftover, Eof>>
    <3>1. lines' = Append(Append(lines, Leftover), Eof)
      BY <1>3, <2>5
    <3>2. Append(lines, Leftover) \in Seq(Things) /\ Append(lines, Leftover) \in Seq(Queued) /\ Eof \in Queued
      BY <1>5
    <3>3. FlowOf(toAgent, outOfBand, Append(lines, Leftover), pipe, said)
      BY <1>3, <1>4, FlowEnd DEF FlowInv
    <3>4. FlowOf(toAgent, outOfBand, lines', pipe, said)
      BY <3>1, <3>2, <3>3, FlowEnd
    <3> QED
      BY <1>3, <2>5, <3>1, <3>2, <3>4
  <2> QED
    BY <2>1, <2>2, <2>3, <2>4, <2>5 DEF Pump
<1>7. TypeInv'
  BY <1>1, <1>6 DEF IInv, TypeInv
<1> QED
  BY <1>1, <1>2, <1>6, <1>7 DEF IInv, FlowInv
---------------------------------------------------------------------------
(* serve(): what its steps have in common.                                 *)

\* One sequence behind another holds the things of both.
LEMMA BothThere ==
  ASSUME NEW S, NEW a \in Seq(S), NEW b \in Seq(S)
  PROVE  /\ a \o b \in Seq(S)
         /\ \A k \in DOMAIN a : k \in DOMAIN (a \o b) /\ (a \o b)[k] = a[k]
         /\ \A k \in DOMAIN b : \E j \in DOMAIN (a \o b) : (a \o b)[j] = b[k]
<1>1. a \o b \in Seq(S) /\ Len(a \o b) = Len(a) + Len(b) /\ Len(a) \in Nat /\ Len(b) \in Nat
  BY ConcatProperties
<1>2. \A k \in DOMAIN a : k \in DOMAIN (a \o b) /\ (a \o b)[k] = a[k]
  BY <1>1, ConcatProperties
<1>3. ASSUME NEW k \in DOMAIN b PROVE \E j \in DOMAIN (a \o b) : (a \o b)[j] = b[k]
  <2>1. /\ k + Len(a) \in Nat /\ k + Len(a) > Len(a) /\ (k + Len(a)) - Len(a) = k
        /\ k + Len(a) <= Len(a) + Len(b)
    BY <1>1
  <2>2. (a \o b)[k + Len(a)] = b[k] /\ k + Len(a) \in DOMAIN (a \o b)
    BY <1>1, <2>1, ConcatProperties
  <2> QED
    BY <2>2
<1> QED
  BY <1>1, <1>2, <1>3

\* What is handed over comes behind what the agent was handed, or nothing is when the
\* agent is gone.
LEMMA HandedOver ==
  ASSUME IInv, NEW answer \in Seq(Numbered), HandOver(outOfBand, answer),
         FlowOf(toAgent, outOfBand, lines', pipe', said'),
         FlowOf(toAgent, outOfBand \o answer, lines', pipe', said')
  PROVE  /\ toAgent' \in Seq(Numbered) /\ outOfBand' \in Seq(Numbered) /\ FlowInv'
         /\ pc' \in {"idle", "closing"}
         /\ \A k \in DOMAIN toAgent : k \in DOMAIN toAgent' /\ toAgent'[k] = toAgent[k]
         /\ agent # "gone" =>
               \A k \in DOMAIN answer : \E j \in DOMAIN toAgent' : toAgent'[j] = answer[k]
<1> DEFINE out == outOfBand \o answer
<1>1. /\ toAgent \in Seq(Numbered) /\ outOfBand \in Seq(Numbered)
  BY DEF IInv, TypeInv
<1>2. /\ out \in Seq(Numbered)
      /\ \A k \in DOMAIN answer : \E j \in DOMAIN out : out[j] = answer[k]
  BY <1>1, BothThere
<1> HIDE DEF out
<1>3. CASE agent = "gone" /\ out # <<>>
  <2>1. pc' = "closing" /\ UNCHANGED <<toAgent, outOfBand>>
    BY <1>3 DEF HandOver, Out, out
  <2> QED
    BY <1>1, <1>3, <2>1 DEF FlowInv
<1>4. CASE ~ (agent = "gone" /\ out # <<>>)
  <2>1. pc' = "idle" /\ toAgent' = toAgent \o out /\ outOfBand' = <<>>
    BY <1>4 DEF HandOver, Out, out
  <2>2. Numbered \subseteq Things
    BY DEF Things
  <2>3. toAgent \in Seq(Things) /\ out \in Seq(Things)
    BY <1>1, <1>2, <2>2
  <2>4. FlowInv'
    BY <2>1, <2>3, FlowHandedOver DEF FlowInv, out
  <2>5. toAgent' \in Seq(Numbered) /\ outOfBand' \in Seq(Numbered)
    BY <1>1, <1>2, <2>1, BothThere
  <2>6. \A k \in DOMAIN toAgent : k \in DOMAIN toAgent' /\ toAgent'[k] = toAgent[k]
    BY <1>1, <1>2, <2>1, BothThere
  <2>7. \A k \in DOMAIN out : \E j \in DOMAIN toAgent' : toAgent'[j] = out[k]
    BY <1>1, <1>2, <2>1, BothThere
  <2>8. \A k \in DOMAIN answer : \E j \in DOMAIN toAgent' : toAgent'[j] = answer[k]
    BY <1>2, <2>7
  <2> QED
    BY <2>1, <2>4, <2>5, <2>6, <2>8
<1> QED
  BY <1>3, <1>4

\* What was set aside is handed over without an answer behind it.
LEMMA Drained ==
  ASSUME IInv, HandOver(outOfBand, <<>>), FlowOf(toAgent, outOfBand, lines', pipe', said')
  PROVE  /\ toAgent' \in Seq(Numbered) /\ outOfBand' \in Seq(Numbered) /\ FlowInv'
         /\ pc' \in {"idle", "closing"}
         /\ \A k \in DOMAIN toAgent : k \in DOMAIN toAgent' /\ toAgent'[k] = toAgent[k]
<1>1. outOfBand \o <<>> = outOfBand
  BY DEF IInv, TypeInv
<1>2. <<>> \in Seq(Numbered)
  OBVIOUS
<1>3. FlowOf(toAgent, outOfBand \o <<>>, lines', pipe', said')
  BY <1>1
<1> QED
  BY <1>2, <1>3, HandedOver

\* A message of the agent is read: it leaves the queue, and what reached a server was read
\* before it.
LEMMA MessageRead ==
  ASSUME IInv, NEW kinds, Reads(kinds), UNCHANGED <<used, launch, reached>>
  PROVE  /\ QueueInv' /\ Message \in Messages /\ Message.kind \in kinds /\ toProxy' \in Seq(Messages)
         /\ taken' \subseteq Messages /\ IsFiniteSet(taken')
         /\ current = NoMessage
         /\ Message.kind \in Requests /\ current' = Message => LastRead'
<1>1. /\ pc = "idle" /\ toProxy # <<>> /\ Message.kind \in kinds /\ toProxy' = Tail(toProxy)
      /\ taken' = taken \cup {Message}
  BY DEF Reads
<1>2. /\ toProxy \in Seq(Messages) /\ used \in Nat /\ Len(toProxy) \in Nat \ {0} /\ Len(toProxy) <= used
      /\ used' = used
  BY <1>1, StdioAssumption DEF IInv, TypeInv, QueueInv
<1>3. Message = toProxy[1] /\ 1 \in DOMAIN toProxy /\ Message \in Messages
  BY <1>1, <1>2 DEF Message
<1>4. /\ toProxy' \in Seq(Messages) /\ Len(toProxy') = Len(toProxy) - 1
      /\ \A k \in 1..(Len(toProxy) - 1) : toProxy'[k] = toProxy[k + 1]
  BY <1>1, <1>2
<1>5. taken' \subseteq Messages /\ IsFiniteSet(taken') /\ current = NoMessage
  <2>1. taken \subseteq Messages /\ IsFiniteSet(taken) /\ current = NoMessage
    BY <1>1 DEF IInv, TypeInv, HoleInv, WaitInv
  <2> QED
    BY <1>1, <1>3, <2>1, FS_AddElement
<1>6. ASSUME NEW m \in reached, m.kind \in Requests
      PROVE  \E j \in 1..(used' - Len(toProxy') - 1) : m.id = AgentIds[j]
  <2>1. PICK j \in 1..(used - Len(toProxy)) : m.id = AgentIds[j]
    BY <1>6 DEF IInv, QueueInv
  <2>2. j \in 1..(used' - Len(toProxy') - 1)
    BY <1>2, <1>4
  <2> QED
    BY <2>1, <2>2
<1>7. QueueInv'
  <2>1. Len(toProxy') = Len(toProxy) - 1 /\ Len(toProxy') \in Nat
    BY <1>2, <1>4
  <2>2. ASSUME NEW k \in DOMAIN toProxy', toProxy'[k].kind \in Requests
        PROVE  toProxy'[k].id = AgentIds[used' - Len(toProxy') + k]
    <3>1. k \in 1..(Len(toProxy) - 1) /\ k + 1 \in DOMAIN toProxy /\ toProxy'[k] = toProxy[k + 1]
      BY <1>2, <1>4, <2>1
    <3>2. used - Len(toProxy) + (k + 1) = used' - Len(toProxy') + k
      BY <1>2, <2>1, <3>1
    <3> QED
      BY <2>2, <3>1, <3>2 DEF IInv, QueueInv
  <2>3. ASSUME NEW m \in reached', m.kind \in Requests
        PROVE  \E j \in 1..(used' - Len(toProxy')) : m.id = AgentIds[j]
    <3>1. PICK j \in 1..(used' - Len(toProxy') - 1) : m.id = AgentIds[j]
      BY <1>6, <2>3
    <3>2. j \in 1..(used' - Len(toProxy'))
      BY <1>2, <2>1
    <3> QED
      BY <3>1, <3>2
  <2>4. Len(toProxy') <= used'
    BY <1>2, <2>1
  <2> QED
    BY <2>2, <2>3, <2>4 DEF QueueInv
<1>8. ASSUME Message.kind \in Requests, current' = Message PROVE LastRead'
  <2>1. Len(toProxy') < used' /\ used - Len(toProxy) + 1 = used' - Len(toProxy')
    BY <1>2, <1>4
  <2>2. Message.id = AgentIds[used - Len(toProxy) + 1]
    BY <1>3, <1>8 DEF IInv, QueueInv
  <2> QED
    BY <1>6, <1>8, <2>1, <2>2 DEF LastRead
<1> QED
  BY <1>1, <1>3, <1>4, <1>5, <1>7, <1>8

\* A gap is written behind what the file held.
LEMMA GapWritten ==
  ASSUME IInv, NEW reason \in Reasons, file' = Append(file, Gap(reason)), UNCHANGED events
  PROVE  /\ file' \in Seq(Rows) /\ RowsInv' /\ (PartEnded(file') <=> PartEnded(file))
         /\ \A id : HasCall(file, id) => HasCall(file', id)
         /\ PartHoles(file) \subseteq PartHoles(file') /\ IsFiniteSet(PartHoles(file'))
         /\ Len(file) + 1 \in PartHoles(file') \ PartHoles(file)
<1>1. file \in Seq(Rows) /\ events \in Seq(Events)
  BY DEF IInv, TypeInv
<1>2. Gap(reason) \in Rows /\ Gap(reason).kind = "gap"
  BY <1>1, GapType DEF Gap
<1>3. RowOK(Gap(reason), events)
  BY <1>2 DEF RowOK
<1> HIDE DEF Gap
<1>4. /\ file' \in Seq(Rows) /\ PartHoles(file') = PartHoles(file) \cup {Len(file) + 1}
      /\ Len(file) + 1 \notin PartHoles(file)
      /\ (PartEnded(file') <=> PartEnded(file))
      /\ \A id : HasCall(file, id) => HasCall(file', id)
  <2>1. PartHoles(file') = PartHoles(file) \cup {Len(file) + 1} /\ file' \in Seq(Rows)
    BY <1>1, <1>2, RowAdded
  <2>2. PartEnded(file') <=> PartEnded(file)
    BY <1>1, <1>2, RowAdded
  <2>3. \A id : HasCall(file, id) => HasCall(file', id)
    BY <1>1, <1>2, RowAdded
  <2> QED
    BY <1>1, <1>2, <2>1, <2>2, <2>3, RowAdded
<1>5. RowsInv'
  BY <1>1, <1>2, <1>3, RowAdded DEF IInv, RowsInv
<1>6. IsFiniteSet(PartHoles(file'))
  BY <1>4, HolesAreFinite
<1> QED
  BY <1>4, <1>5, <1>6
---------------------------------------------------------------------------
(* serve(), step by step.                                                  *)

LEMMA StartStep == ASSUME IInv, Start PROVE IInv'
<1>1. /\ UNCHANGED <<agent, used, taken, toProxy, toAgent, said, reached, pipe, lines, current,
                     outOfBand, events, launch>>
      /\ pc = "start" /\ pc' \in {"idle", "failed"}
      /\ file' = file \/ file' = Append(file, Gap("proxy_start_failed"))
  BY DEF Start, agentVars
<1>2. "proxy_start_failed" \in Reasons
  BY DEF Reasons
<1>3. /\ file' \in Seq(Rows) /\ RowsInv' /\ (PartEnded(file') <=> PartEnded(file))
      /\ \A id : HasCall(file, id) => HasCall(file', id)
      /\ PartHoles(file) \subseteq PartHoles(file') /\ IsFiniteSet(PartHoles(file'))
  <2>1. CASE file' = file
    BY <1>1, <2>1, HolesAreFinite DEF IInv, TypeInv, RowsInv
  <2>2. CASE file' = Append(file, Gap("proxy_start_failed"))
    BY <1>1, <1>2, <2>2, GapWritten
  <2> QED
    BY <1>1, <2>1, <2>2
<1>4. TypeInv'
  BY <1>1, <1>3 DEF IInv, TypeInv
<1>5. QueueInv' /\ EventInv' /\ FlowInv'
  BY <1>1, SameSession, SameFlow DEF IInv
<1>6. WaitInv'
  BY <1>1 DEF IInv, WaitInv
<1>7. KnownInv' /\ EndInv'
  BY <1>1, <1>3 DEF IInv, KnownInv, EndInv
<1>8. HoleInv'
  <2>1. Silent' = Silent /\ IsFiniteSet(taken')
    BY <1>1 DEF Silent, IInv, HoleInv
  <2> QED
    BY <1>1, <1>3, <2>1, HolesKeepUp DEF IInv
<1> QED
  BY <1>3, <1>4, <1>5, <1>6, <1>7, <1>8 DEF IInv

\* A session that goes on keeps what is known of the messages and of the events.
LEMMA KnownKept ==
  ASSUME IInv, launch' = launch, reached \subseteq reached',
         \A id : HasCall(file, id) => HasCall(file', id),
         PartHoles(file) \subseteq PartHoles(file'),
         \A m \in reached' \ reached :
            /\ m.kind = "call" => HasCall(file', m.id)
            /\ m.kind = "garbage" => PartHoles(file') # {}
  PROVE  KnownInv' /\ (events' = events => EventInv')
<1>1. KnownInv'
  <2> SUFFICES ASSUME NEW m \in reached', m.launch = launch'
               PROVE  /\ m.kind = "call" => HasCall(file', m.id)
                      /\ m.kind = "garbage" => PartHoles(file') # {}
    BY DEF KnownInv
  <2>1. CASE m \in reached
    BY <2>1 DEF IInv, KnownInv
  <2> QED
    BY <2>1
<1>2. ASSUME events' = events PROVE EventInv'
  BY <1>2 DEF IInv, EventInv, Delivered, NumbersApart
<1> QED
  BY <1>1, <1>2

\* The requests that got nothing back are those there were, and those named.
LEMMA FewMoreSilent ==
  ASSUME \A k \in DOMAIN toAgent : k \in DOMAIN toAgent' /\ toAgent'[k] = toAgent[k],
         NEW M,
         \A x \in taken' : x.kind \in Requests /\ x # current' =>
            \/ x \in taken /\ x # current
            \/ x \in M
            \/ \E k \in DOMAIN toAgent' : toAgent'[k].id = x.id
  PROVE  Silent' \subseteq Silent \cup M
<1> SUFFICES ASSUME NEW x \in Silent', x \notin M PROVE x \in Silent
  OBVIOUS
<1>1. /\ x \in taken' /\ x.kind \in Requests /\ x # current'
      /\ \A k \in DOMAIN toAgent' : toAgent'[k].id # x.id
  BY DEF Silent
<1>2. x \in taken /\ x # current
  BY <1>1
<1>3. \A k \in DOMAIN toAgent : toAgent[k].id # x.id
  BY <1>1
<1> QED
  BY <1>1, <1>2, <1>3 DEF Silent

\* A line that raises out of the loop leaves only the queue.
LEMMA ChokeOnOddStep == ASSUME IInv, ChokeOnOdd PROVE IInv'
<1>1. /\ Reads({"odd"}) /\ pc = "idle" /\ pc' = "closing" /\ taken' = taken \cup {Message}
      /\ UNCHANGED <<agent, used, toAgent, said, reached, pipe, lines, current, outOfBand, events,
                     file, launch>>
  BY DEF ChokeOnOdd, Reads, agentVars, serverVars, pumpVars
<1>2. /\ QueueInv' /\ Message.kind \in {"odd"} /\ toProxy' \in Seq(Messages)
      /\ taken' \subseteq Messages /\ IsFiniteSet(taken') /\ current = NoMessage
  BY <1>1, MessageRead
<1>3. TypeInv'
  BY <1>1, <1>2 DEF IInv, TypeInv
<1>4. WaitInv' /\ EndInv'
  BY <1>1, <1>2 DEF WaitInv, EndInv, IInv
<1>5. EventInv' /\ RowsInv' /\ KnownInv' /\ FlowInv'
  BY <1>1, SameFile, SameFlow DEF IInv, EventInv, Delivered, NumbersApart
<1>6. HoleInv'
  <2>1. Silent' = Silent
    BY <1>1, <1>2 DEF Silent, Requests
  <2>2. IsFiniteSet(PartHoles(file'))
    BY <1>1, HolesAreFinite DEF IInv, TypeInv
  <2> QED
    BY <1>1, <1>2, <2>1, <2>2, HolesKeepUp DEF IInv
<1> QED
  BY <1>2, <1>3, <1>4, <1>5, <1>6 DEF IInv

\* What a message leaves in the record before it is forwarded: nothing, or the call.
LEMMA RequestRecorded ==
  ASSUME IInv, NEW message \in Messages, NEW seen, NEW record,
         seen = IF message.kind = "call" THEN Append(events, Observed(message)) ELSE events,
         record = IF message.kind = "call" THEN Append(file, CallRow(Observed(message))) ELSE file
  PROVE  /\ seen \in Seq(Events) /\ record \in Seq(Rows)
         /\ \A k \in DOMAIN record : RowOK(record[k], seen)
         /\ \A id : HasCall(file, id) => HasCall(record, id)
         /\ message.kind = "call" => HasCall(record, message.id)
         /\ PartHoles(record) = PartHoles(file) /\ (PartEnded(record) <=> PartEnded(file))
         /\ \A i \in DOMAIN seen : \/ i \in DOMAIN events /\ seen[i] = events[i]
                                   \/ /\ seen[i].of = NoAnswer /\ seen[i].index = i - 1
         /\ message.kind = "call" => /\ seen # <<>> /\ Last(seen).id = message.id
                                     /\ Last(seen).of = NoAnswer
<1> DEFINE e == Observed(message)
<1>1. /\ events \in Seq(Events) /\ file \in Seq(Rows) /\ Len(events) \in Nat
      /\ \A k \in DOMAIN file : RowOK(file[k], events)
  BY DEF IInv, TypeInv, RowsInv
<1>2. CASE message.kind # "call"
  BY <1>1, <1>2
<1>3. CASE message.kind = "call"
  <2>1. e \in Events /\ e.id = message.id /\ e.of = NoAnswer /\ e.index = Len(events)
    <3>1. message.id \in Ids
      BY <1>3 DEF Messages, Asked, Requests
    <3> QED
      BY <1>1, <3>1 DEF Observed, Event, Events
  <2> HIDE DEF e
  <2>2. seen = Append(events, e) /\ record = Append(file, CallRow(e))
    BY <1>3 DEF e
  <2>3. /\ seen \in Seq(Events) /\ Len(seen) = Len(events) + 1 /\ seen[Len(events) + 1] = e
        /\ \A i \in 1..Len(events) : seen[i] = events[i]
        /\ DOMAIN seen = 1..(Len(events) + 1) /\ DOMAIN events = 1..Len(events)
    BY <1>1, <2>1, <2>2
  <2>4. CallRow(e) \in Rows /\ CallRow(e).kind = "call" /\ CallRow(e).event = e
    BY <2>1, RowTypes DEF CallRow
  <2>5. RowOK(CallRow(e), seen)
    BY <1>1, <2>1, <2>3, <2>4 DEF RowOK
  <2>6. \A k \in DOMAIN file : RowOK(file[k], seen)
    BY <1>1, <2>1, <2>2, RowStillOK
  <2>7. PartHoles(record) = PartHoles(file) /\ record \in Seq(Rows)
    BY <1>1, <2>2, <2>4, RowAdded
  <2>8. (PartEnded(record) <=> PartEnded(file)) /\ \A id : HasCall(file, id) => HasCall(record, id)
    BY <1>1, <2>2, <2>4, RowAdded
  <2>9. HasCall(record, message.id)
    BY <1>1, <2>1, <2>2, <2>4, RowAdded
  <2>10. \A k \in DOMAIN record : RowOK(record[k], seen)
    BY <1>1, <2>2, <2>4, <2>5, <2>6, RowAdded
  <2>11. \A i \in DOMAIN seen : \/ i \in DOMAIN events /\ seen[i] = events[i]
                                \/ seen[i].of = NoAnswer /\ seen[i].index = i - 1
    BY <1>1, <2>1, <2>3
  <2>12. seen # <<>> /\ Last(seen) = e
    BY <1>1, <2>3 DEF Last
  <2> QED
    BY <2>1, <2>3, <2>7, <2>8, <2>9, <2>10, <2>11, <2>12
<1> QED
  BY <1>2, <1>3

\* A message is read and recorded, and is what will be written to the server.
LEMMA ForwardStep == ASSUME IInv, Forward PROVE IInv'
<1> DEFINE seen   == IF Message.kind = "call" THEN Append(events, Observed(Message)) ELSE events
           record == IF Message.kind = "call" THEN Append(file, CallRow(Observed(Message))) ELSE file
<1>1. /\ Reads(Relayed) /\ events' = seen /\ file' = record /\ pc = "idle" /\ pc' = "sending"
      /\ taken' = taken \cup {Message} /\ current' = Message
      /\ UNCHANGED <<agent, used, toAgent, outOfBand, reached, said, pipe, lines, launch>>
  BY DEF Forward, Reads, agentVars, serverVars, pumpVars
<1>2. /\ QueueInv' /\ Message \in Messages /\ Message.kind \in Relayed /\ toProxy' \in Seq(Messages)
      /\ taken' \subseteq Messages /\ IsFiniteSet(taken') /\ current = NoMessage
      /\ Message.kind \in Requests => LastRead'
  BY <1>1, MessageRead
<1>3. /\ seen \in Seq(Events) /\ record \in Seq(Rows)
      /\ \A k \in DOMAIN record : RowOK(record[k], seen)
      /\ \A id : HasCall(file, id) => HasCall(record, id)
      /\ Message.kind = "call" => HasCall(record, Message.id)
      /\ PartHoles(record) = PartHoles(file) /\ (PartEnded(record) <=> PartEnded(file))
      /\ \A i \in DOMAIN seen : \/ i \in DOMAIN events /\ seen[i] = events[i]
                                \/ /\ seen[i].of = NoAnswer /\ seen[i].index = i - 1
      /\ Message.kind = "call" => /\ seen # <<>> /\ Last(seen).id = Message.id
                                  /\ Last(seen).of = NoAnswer
  BY <1>2, RequestRecorded
<1> HIDE DEF seen, record
<1>4. TypeInv'
  BY <1>1, <1>2, <1>3 DEF IInv, TypeInv
<1>5. WaitInv'
  BY <1>1, <1>2, <1>3 DEF WaitInv, LastIsCurrent
<1>6. EventInv'
  <2> SUFFICES ASSUME NEW i \in DOMAIN events'
               PROVE  /\ events'[i].index = i - 1
                      /\ events'[i].of # NoAnswer =>
                            [kind |-> "call", id |-> events'[i].id, launch |-> launch'] \in reached'
                      /\ NumbersApart => events'[i].of \in {NoAnswer, events'[i].id}
    BY DEF EventInv, NumbersApart, Delivered
  <2>1. CASE i \in DOMAIN events /\ events'[i] = events[i]
    BY <1>1, <2>1 DEF IInv, EventInv, Delivered
  <2>2. CASE events'[i].of = NoAnswer /\ events'[i].index = i - 1
    BY <2>2
  <2> QED
    BY <1>1, <1>3, <2>1, <2>2
<1>7. RowsInv' /\ FlowInv'
  BY <1>1, <1>3, SameFlow DEF RowsInv, IInv
<1>8. KnownInv' /\ EndInv'
  BY <1>1, <1>3, KnownKept DEF IInv, EndInv
<1>9. HoleInv'
  <2>1. \A x \in taken' : x.kind \in Requests /\ x # current' => x \in taken /\ x # current
    BY <1>1, <1>2 DEF NoMessage, Requests
  <2>2. Silent' \subseteq Silent \cup {}
    BY <1>1, <2>1, FewMoreSilent
  <2>3. IsFiniteSet(PartHoles(file'))
    BY <1>1, <1>3, HolesAreFinite
  <2> QED
    BY <1>1, <1>2, <1>3, <2>2, <2>3, HolesKeepUp DEF IInv
<1> QED
  BY <1>2, <1>4, <1>5, <1>6, <1>7, <1>8, <1>9 DEF IInv

\* The message reaches the server: a request is waited for, anything else is done with, and
\* what could not be read is a hole.
LEMMA SentStep == ASSUME IInv, Sent PROVE IInv'
<1> DEFINE d == [kind |-> current.kind, id |-> current.id, launch |-> launch]
<1>1. /\ pc = "sending" /\ reached' = reached \cup {d}
      /\ UNCHANGED <<agent, used, taken, toProxy, said, pipe, lines, events, launch>>
  BY DEF Sent, agentVars, serverVars, pumpVars
<1>2. /\ current \in Messages /\ current.kind \in Relayed
      /\ current.kind \in Requests => LastRead
      /\ current.kind = "call" => LastIsCurrent /\ HasCall(file, current.id)
  BY <1>1 DEF IInv, WaitInv
<1>3. \/ /\ current.kind \in Requests /\ pc' = "waiting"
         /\ UNCHANGED <<current, toAgent, outOfBand, file>>
      \/ /\ current.kind \notin Requests /\ current' = NoMessage /\ file' = file
         /\ current.kind # "garbage" /\ HandOver(outOfBand, <<>>)
      \/ /\ current.kind = "garbage" /\ current' = NoMessage /\ pc' = "idle"
         /\ file' = Append(file, Gap("unparsable_record")) /\ UNCHANGED <<toAgent, outOfBand>>
  <2>1. "unparsable_record" \in Reasons /\ file \in Seq(Rows) /\ events \in Seq(Events)
    BY DEF Reasons, IInv, TypeInv
  <2>2. Gap("unparsable_record") \in Rows
    BY <2>1, GapType DEF Gap
  <2>3. file \o Unread = Append(file, Gap("unparsable_record"))
    BY <2>1, <2>2 DEF Unread
  <2> QED
    BY <2>3 DEF Sent, Requests
<1>4. d.kind = current.kind /\ d.id = current.id /\ d.launch = launch
  OBVIOUS
<1>5. d \in [kind : Kinds, id : Ids \cup {NoId}, launch : 1..launch]
  <2>1. current.kind \in Kinds /\ current.id \in Ids \cup {NoId}
    BY <1>2 DEF Messages, Asked, Kinds
  <2>2. launch \in 1..launch
    BY StdioAssumption DEF IInv, TypeInv
  <2> QED
    BY <2>1, <2>2
<1> HIDE DEF d
<1>6. /\ file' \in Seq(Rows) /\ RowsInv' /\ (PartEnded(file') <=> PartEnded(file))
      /\ \A id : HasCall(file, id) => HasCall(file', id)
      /\ PartHoles(file) \subseteq PartHoles(file') /\ IsFiniteSet(PartHoles(file'))
      /\ current.kind = "garbage" => PartHoles(file') # {}
  <2>1. CASE file' = file /\ current.kind # "garbage"
    BY <1>1, <2>1, HolesAreFinite DEF IInv, TypeInv, RowsInv
  <2>2. CASE file' = Append(file, Gap("unparsable_record"))
    <3>1. "unparsable_record" \in Reasons
      BY DEF Reasons
    <3> QED
      BY <1>1, <2>2, <3>1, GapWritten
  <2> QED
    BY <1>3, <2>1, <2>2 DEF Requests
<1>7. FlowOf(toAgent, outOfBand, lines', pipe', said')
  BY <1>1 DEF IInv, FlowInv
<1>8. /\ toAgent' \in Seq(Numbered) /\ outOfBand' \in Seq(Numbered) /\ FlowInv'
      /\ pc' \in {"idle", "closing", "waiting"}
      /\ \A k \in DOMAIN toAgent : k \in DOMAIN toAgent' /\ toAgent'[k] = toAgent[k]
  <2>1. CASE UNCHANGED <<toAgent, outOfBand>> /\ pc' \in {"idle", "waiting"}
    BY <1>1, <2>1, SameFlow DEF IInv, TypeInv
  <2>2. CASE HandOver(outOfBand, <<>>)
    BY <1>7, <2>2, Drained
  <2> QED
    BY <1>3, <2>1, <2>2
<1>9. TypeInv'
  <2>1. reached' \subseteq [kind : Kinds, id : Ids \cup {NoId}, launch : 1..launch]
    BY <1>1, <1>5 DEF IInv, TypeInv
  <2> QED
    BY <1>1, <1>6, <1>8, <2>1 DEF IInv, TypeInv
<1>10. QueueInv'
  <2>1. used \in Nat /\ Len(toProxy) \in Nat
    BY StdioAssumption DEF IInv, TypeInv
  <2>2. ASSUME NEW m \in reached', m.kind \in Requests
        PROVE  \E j \in 1..(used' - Len(toProxy')) : m.id = AgentIds[j]
    <3>1. CASE m \in reached
      BY <1>1, <2>2, <3>1 DEF IInv, QueueInv
    <3>2. CASE m = d
      BY <1>1, <1>2, <1>4, <2>1, <2>2, <3>2 DEF LastRead
    <3> QED
      BY <1>1, <3>1, <3>2
  <2> QED
    BY <1>1, <2>2 DEF IInv, QueueInv
<1>11. WaitInv'
  <2>1. CASE pc' = "waiting"
    <3>1. current' = current /\ current \in Asked
      BY <1>2, <1>3, <1>7, <2>1, Drained DEF Messages
    <3>2. ASSUME current.kind = "call" PROVE LastIsCurrent' /\ Delivered(current.id)'
      BY <1>1, <1>2, <3>1, <3>2 DEF LastIsCurrent, Delivered, d
    <3> QED
      BY <2>1, <3>1, <3>2 DEF WaitInv
  <2>2. CASE pc' # "waiting"
    BY <1>3, <1>8, <2>2 DEF WaitInv
  <2> QED
    BY <2>1, <2>2
<1>12. KnownInv' /\ EventInv'
  <2>1. reached \subseteq reached' /\ \A m \in reached' \ reached : m = d
    BY <1>1
  <2> QED
    BY <1>1, <1>2, <1>4, <1>6, <2>1, KnownKept
<1>13. EndInv'
  BY <1>1, <1>6 DEF IInv, EndInv
<1>14. HoleInv'
  <2>1. \A x \in taken' : x.kind \in Requests /\ x # current' => x \in taken /\ x # current
    BY <1>1, <1>3 DEF Requests
  <2>2. Silent' \subseteq Silent \cup {}
    BY <1>8, <2>1, FewMoreSilent
  <2>3. IsFiniteSet(taken')
    BY <1>1 DEF IInv, HoleInv
  <2> QED
    BY <1>1, <1>6, <2>2, <2>3, HolesKeepUp DEF IInv
<1> QED
  BY <1>6, <1>8, <1>9, <1>10, <1>11, <1>12, <1>13, <1>14 DEF IInv

\* A message gets nothing back, or went nowhere: a gap is written, and the next message may
\* be read.
LEMMA GivenUp ==
  ASSUME IInv, pc \in {"sending", "waiting"}, NEW reason \in Reasons,
         file' = Append(file, Gap(reason)), current' = NoMessage, events' = events,
         \/ HandOver(outOfBand, <<>>)
         \/ UNCHANGED <<toAgent, outOfBand>> /\ pc' = "idle",
         UNCHANGED <<agent, used, taken, toProxy, reached, pipe, said, launch>>,
         lines' \in Seq(Queued), FlowOf(toAgent, outOfBand, lines', pipe', said')
  PROVE  IInv'
<1>1. /\ toAgent' \in Seq(Numbered) /\ outOfBand' \in Seq(Numbered) /\ FlowInv'
      /\ pc' \in {"idle", "closing"}
      /\ \A k \in DOMAIN toAgent : k \in DOMAIN toAgent' /\ toAgent'[k] = toAgent[k]
  <2>1. CASE HandOver(outOfBand, <<>>)
    BY <2>1, Drained
  <2>2. CASE UNCHANGED <<toAgent, outOfBand>> /\ pc' = "idle"
    BY <2>2 DEF IInv, TypeInv, FlowInv
  <2> QED
    BY <2>1, <2>2
<1>2. /\ file' \in Seq(Rows) /\ RowsInv' /\ (PartEnded(file') <=> PartEnded(file))
      /\ \A id : HasCall(file, id) => HasCall(file', id)
      /\ PartHoles(file) \subseteq PartHoles(file') /\ IsFiniteSet(PartHoles(file'))
      /\ Len(file) + 1 \in PartHoles(file') \ PartHoles(file)
  BY GapWritten
<1>3. TypeInv'
  BY <1>1, <1>2 DEF IInv, TypeInv
<1>4. WaitInv' /\ EndInv'
  BY <1>1, <1>2 DEF WaitInv, EndInv, IInv
<1>5. KnownInv' /\ EventInv'
  BY <1>2, KnownKept
<1>6. QueueInv'
  BY SameSession
<1>7. HoleInv'
  <2>1. Silent' \subseteq Silent \cup {current}
    BY <1>1, FewMoreSilent
  <2>2. IsFiniteSet(taken')
    BY DEF IInv, HoleInv
  <2> QED
    BY <1>2, <2>1, <2>2, HolesKeepUp DEF IInv
<1> QED
  BY <1>1, <1>2, <1>3, <1>4, <1>5, <1>6, <1>7 DEF IInv

LEMMA RefusedStep == ASSUME IInv, Refused PROVE IInv'
<1>1. /\ pc = "sending" /\ file' = Append(file, Gap("transport_closed")) /\ current' = NoMessage
      /\ events' = events
      /\ \/ HandOver(outOfBand, <<>>)
         \/ UNCHANGED <<toAgent, outOfBand>> /\ pc' = "idle"
      /\ UNCHANGED <<agent, used, taken, toProxy, reached, pipe, said, lines, launch>>
  BY DEF Refused, agentVars, serverVars, pumpVars
<1>2. "transport_closed" \in Reasons
  BY DEF Reasons
<1>3. lines' \in Seq(Queued) /\ FlowOf(toAgent, outOfBand, lines', pipe', said')
  BY <1>1 DEF IInv, TypeInv, FlowInv
<1> QED
  BY <1>1, <1>2, <1>3, GivenUp

LEMMA UnansweredStep ==
  ASSUME IInv, pc = "waiting", NEW reason \in Reasons, Unanswered(reason),
         UNCHANGED <<agent, used, taken, toProxy, reached, pipe, said, launch>>,
         lines' \in Seq(Queued), FlowOf(toAgent, outOfBand, lines', pipe', said')
  PROVE  IInv'
  BY GivenUp DEF Unanswered

LEMMA DeadlineStep == ASSUME IInv, Deadline PROVE IInv'
<1>1. /\ pc = "waiting" /\ Unanswered(IF partial THEN "response_truncated" ELSE "upstream_timeout")
      /\ UNCHANGED <<agent, used, taken, toProxy, reached, pipe, said, lines, launch>>
  BY DEF Deadline, agentVars, serverVars, pumpVars
<1>2. (IF partial THEN "response_truncated" ELSE "upstream_timeout") \in Reasons
  BY DEF Reasons
<1>3. lines' \in Seq(Queued) /\ FlowOf(toAgent, outOfBand, lines', pipe', said')
  BY <1>1 DEF IInv, TypeInv, FlowInv
<1> QED
  BY <1>1, <1>2, <1>3, UnansweredStep

\* What an answer leaves in the record: the last event settled, an inventory, or nothing.
LEMMA AnswerRecorded ==
  ASSUME IInv, pc = "waiting", NEW line \in Numbered, IsAnswerTo(line, current),
         Written(line, said), line.n # 0, Answered(line), UNCHANGED <<reached, launch>>
  PROVE  /\ events' \in Seq(Events) /\ file' \in Seq(Rows) /\ EventInv' /\ RowsInv' /\ KnownInv'
         /\ PartHoles(file') = PartHoles(file) /\ (PartEnded(file') <=> PartEnded(file))
<1>1. /\ events \in Seq(Events) /\ file \in Seq(Rows) /\ Len(events) \in Nat
      /\ \A k \in DOMAIN file : RowOK(file[k], events)
  BY DEF IInv, TypeInv, RowsInv
<1>2. CASE UNCHANGED <<events, file>>
  BY <1>1, <1>2, SameFile DEF IInv, EventInv, Delivered, NumbersApart
<1>3. CASE events' = events /\ file' = Append(file, DiscoverRow)
  <2>1. DiscoverRow \in Rows /\ DiscoverRow.kind = "discover" /\ RowOK(DiscoverRow, events)
    BY RowTypes DEF DiscoverRow, RowOK
  <2>2. PartHoles(file') = PartHoles(file) /\ file' \in Seq(Rows)
    BY <1>1, <1>3, <2>1, RowAdded
  <2>3. (PartEnded(file') <=> PartEnded(file)) /\ \A id : HasCall(file, id) => HasCall(file', id)
    BY <1>1, <1>3, <2>1, RowAdded
  <2>4. RowsInv'
    BY <1>1, <1>3, <2>1, RowAdded DEF RowsInv
  <2>5. KnownInv' /\ EventInv'
    BY <1>3, <2>2, <2>3, KnownKept
  <2> QED
    BY <1>1, <1>3, <2>2, <2>3, <2>4, <2>5
<1>4. CASE current.kind = "call"
  <2> DEFINE e == [Last(events) EXCEPT !.of = IF line.kind = "answer" THEN line.id ELSE Stranger]
  <2>1. /\ events' = Append(Front(events), e) /\ file' = Append(file, ResultRow(e))
    BY <1>4 DEF Answered
  <2>2. /\ events # <<>> /\ Last(events).id = current.id /\ Last(events).of = NoAnswer
        /\ Delivered(current.id) /\ current \in Asked
    BY <1>4 DEF IInv, WaitInv, LastIsCurrent
  <2>3. Len(events) \in DOMAIN events /\ Last(events) = events[Len(events)] /\ Last(events) \in Events
    BY <1>1, <2>2 DEF Last
  <2>4. Last(events).index = Len(events) - 1
    BY <2>3 DEF IInv, EventInv
  <2>5. line.id = current.id /\ line.kind \in {"answer", "request"} /\ current.id \in Ids
    BY <2>2 DEF IsAnswerTo, Asked
  <2>6. /\ e \in Events /\ e.id = current.id /\ e.index = Len(events) - 1
        /\ e.of = IF line.kind = "answer" THEN line.id ELSE Stranger
    BY <2>2, <2>3, <2>4, <2>5 DEF Events
  <2>7. NumbersApart => e.of = e.id
    <3>1. Number(line) \in DOMAIN said /\ said[Number(line)] = [kind |-> line.kind, id |-> line.id]
      BY DEF Numbered, Number, Written
    <3>2. line.kind = "request" => line.id \in ServerIds
      <4>1. said[Number(line)] \in Said
        BY <3>1 DEF IInv, TypeInv
      <4> QED
        BY <3>1, <4>1 DEF Said
    <3> QED
      BY <2>5, <2>6, <3>2 DEF NumbersApart, Ids
  <2> HIDE DEF e
  <2>8. /\ events' = [events EXCEPT ![Len(events)] = e] /\ events' \in Seq(Events)
        /\ DOMAIN events' = DOMAIN events /\ events'[Len(events)] = e
        /\ \A i \in DOMAIN events : i # Len(events) => events'[i] = events[i]
    <3>1. events' = [events EXCEPT ![Len(events)] = e]
      BY <1>1, <2>1, <2>2, <2>6, LastReplaced
    <3>2. [events EXCEPT ![Len(events)] = e] \in Seq(Events)
      BY <1>1, <2>3, <2>6, ExceptSeq
    <3> QED
      BY <1>1, <2>3, <3>1, <3>2
  <2>9. ResultRow(e) \in Rows /\ ResultRow(e).kind = "result" /\ ResultRow(e).event = e
    BY <2>6, RowTypes DEF ResultRow
  <2>10. RowOK(ResultRow(e), events')
    BY <1>1, <2>3, <2>6, <2>8, <2>9 DEF RowOK
  <2>11. \A k \in DOMAIN file : RowOK(file[k], events')
    BY <1>1, <2>1, <2>2, <2>6, RowStillOK
  <2>12. PartHoles(file') = PartHoles(file) /\ file' \in Seq(Rows)
    BY <1>1, <2>1, <2>9, RowAdded
  <2>13. (PartEnded(file') <=> PartEnded(file)) /\ \A id : HasCall(file, id) => HasCall(file', id)
    BY <1>1, <2>1, <2>9, RowAdded
  <2>14. RowsInv'
    BY <1>1, <2>1, <2>9, <2>10, <2>11, RowAdded DEF RowsInv
  <2>15. KnownInv'
    BY <2>12, <2>13, KnownKept
  <2>16. EventInv'
    <3> SUFFICES ASSUME NEW i \in DOMAIN events'
                 PROVE  /\ events'[i].index = i - 1
                        /\ events'[i].of # NoAnswer =>
                              [kind |-> "call", id |-> events'[i].id, launch |-> launch'] \in reached'
                        /\ NumbersApart => events'[i].of \in {NoAnswer, events'[i].id}
      BY DEF EventInv, NumbersApart, Delivered
    <3>1. CASE i # Len(events)
      BY <2>8, <3>1 DEF IInv, EventInv, Delivered
    <3>2. CASE i = Len(events)
      BY <2>2, <2>6, <2>7, <2>8, <3>2 DEF Delivered
    <3> QED
      BY <3>1, <3>2
  <2> QED
    BY <2>8, <2>12, <2>13, <2>14, <2>15, <2>16
<1> QED
  BY <1>2, <1>3, <1>4 DEF Answered

\* What serve() does with the next thing the pump queued.
LEMMA ReadLineCases ==
  ASSUME IInv, ReadLine
  PROVE  \/ \E reason \in Reasons : Unanswered(reason)
         \/ /\ Head(lines) \in Numbered /\ IsAnswerTo(Head(lines), current)
            /\ Answered(Head(lines))
         \/ Head(lines) \in Numbered /\ SetAside(Head(lines))
<1> DEFINE line == Head(lines)
<1>1. line \in Queued
  BY DEF ReadLine, IInv, TypeInv
<1>2. Eof.kind = "eof" /\ Leftover.kind = "leftover" /\ Eof # Leftover
  BY DEF Eof, Leftover
<1>3. {"output_closed", "upstream_exited", "response_truncated"} \subseteq Reasons
  BY DEF Reasons
<1> HIDE DEF line
<1>4. CASE line = Eof
  <2>1. Unanswered(IF server.alive THEN "output_closed" ELSE "upstream_exited")
    BY <1>2, <1>4 DEF ReadLine, line
  <2> QED
    BY <1>3, <2>1
<1>5. CASE line # Eof /\ (line = Leftover \/ line.kind = "junk")
  <2>1. Unanswered("response_truncated")
    BY <1>2, <1>5 DEF ReadLine, line
  <2> QED
    BY <1>3, <2>1
<1>6. CASE line.kind \in {"answer", "request", "note"}
  <2>1. line \in Numbered /\ line # Eof /\ line # Leftover /\ line.kind # "junk"
    BY <1>1, <1>2, <1>6 DEF Queued
  <2>2. (IsAnswerTo(line, current) /\ Answered(line)) \/ SetAside(line)
    BY <1>6, <2>1 DEF ReadLine, line
  <2> QED
    BY <2>1, <2>2 DEF line
<1>7. line.kind \in {"answer", "request", "note", "junk"} \/ line \in {Eof, Leftover}
  BY <1>1 DEF Queued, Numbered, Lines
<1> QED
  BY <1>4, <1>5, <1>6, <1>7

\* A line read while a request waits: the end of the output or what is no JSON leaves the
\* request unanswered, the answer is recorded and handed over, the rest is set aside.
LEMMA ReadLineStep == ASSUME IInv, ReadLine PROVE IInv'
<1> DEFINE line == Head(lines)
<1>1. /\ pc = "waiting" /\ lines # <<>> /\ lines' = Tail(lines)
      /\ UNCHANGED <<agent, used, taken, toProxy, reached, pipe, said, launch>>
  BY DEF ReadLine, agentVars, serverVars, pumpVars
<1>2. /\ lines \in Seq(Queued) /\ lines \in Seq(Things) /\ pipe \in Seq(Things)
      /\ outOfBand \in Seq(Things) /\ outOfBand \in Seq(Numbered) /\ toAgent \in Seq(Numbered)
      /\ FlowInv
  BY Places DEF IInv, TypeInv
<1>3. line \in Queued /\ lines' \in Seq(Queued)
  BY <1>1, <1>2
<1>4. FlowOf(toAgent, outOfBand, lines', pipe', said')
  BY <1>1, <1>2, FlowDropped DEF FlowInv
<1>5. Written(line, said) /\ OnlyNote(line)
  BY <1>1, <1>2, NumberedTail DEF FlowInv, FlowOf
<1> HIDE DEF line
<1>6. ASSUME NEW reason \in Reasons, Unanswered(reason) PROVE IInv'
  BY <1>1, <1>3, <1>4, <1>6, UnansweredStep
<1>7. ASSUME line \in Numbered, (IsAnswerTo(line, current) /\ Answered(line)) \/ SetAside(line)
      PROVE  IInv'
  <2>1. line \in Numbered
    BY <1>7
  <2>2. (IsAnswerTo(line, current) /\ Answered(line)) \/ SetAside(line)
    BY <1>7
  <2>3. line.n # 0 => FlowOf(toAgent, Append(outOfBand, line), lines', pipe', said')
    BY <1>1, <1>2, <2>1, FlowAside DEF FlowInv, line
  <2>4. CASE IsAnswerTo(line, current) /\ Answered(line)
    <3>1. line.n # 0
      BY <1>5, <2>1, <2>4 DEF IsAnswerTo, OnlyNote, Lines
    <3>2. /\ events' \in Seq(Events) /\ file' \in Seq(Rows) /\ EventInv' /\ RowsInv' /\ KnownInv'
          /\ PartHoles(file') = PartHoles(file) /\ (PartEnded(file') <=> PartEnded(file))
      BY <1>1, <1>5, <2>1, <2>4, <3>1, AnswerRecorded
    <3>3. current' = NoMessage /\ HandOver(outOfBand, <<line>>)
      BY <2>4 DEF Answered
    <3>4. <<line>> \in Seq(Numbered) /\ outOfBand \o <<line>> = Append(outOfBand, line)
      BY <1>2, <2>1
    <3>5. FlowOf(toAgent, outOfBand \o <<line>>, lines', pipe', said')
      BY <2>3, <3>1, <3>4
    <3>6. /\ toAgent' \in Seq(Numbered) /\ outOfBand' \in Seq(Numbered) /\ FlowInv'
          /\ pc' \in {"idle", "closing"}
          /\ \A k \in DOMAIN toAgent : k \in DOMAIN toAgent' /\ toAgent'[k] = toAgent[k]
          /\ agent # "gone" => \E j \in DOMAIN toAgent' : toAgent'[j] = line
      <4>1. \A k \in DOMAIN <<line>> : <<line>>[k] = line
        OBVIOUS
      <4>2. 1 \in DOMAIN <<line>>
        OBVIOUS
      <4> QED
        BY <1>4, <3>3, <3>4, <3>5, <4>1, <4>2, HandedOver
    <3>7. TypeInv'
      BY <1>1, <1>3, <3>2, <3>6 DEF IInv, TypeInv
    <3>8. QueueInv'
      BY <1>1 DEF IInv, QueueInv
    <3>9. WaitInv' /\ EndInv'
      BY <1>1, <3>2, <3>3, <3>6 DEF WaitInv, IInv, EndInv
    <3>10. HoleInv'
      <4>1. IsFiniteSet(taken') /\ IsFiniteSet(PartHoles(file'))
        BY <1>1, <3>2, HolesAreFinite DEF IInv, HoleInv
      <4>2. ASSUME agent' # "gone" PROVE Silent' \subseteq Silent \cup {}
        <5>1. \E j \in DOMAIN toAgent' : toAgent'[j].id = current.id
          BY <1>1, <2>4, <3>6, <4>2 DEF IsAnswerTo
        <5> QED
          BY <1>1, <3>6, <5>1, FewMoreSilent
      <4> QED
        BY <1>1, <3>2, <4>1, <4>2, HolesKeepUp DEF IInv
    <3> QED
      BY <3>2, <3>6, <3>7, <3>8, <3>9, <3>10 DEF IInv
  <2>5. CASE SetAside(line)
    <3>1. /\ UNCHANGED <<pc, current, toAgent, events, file>>
          /\ outOfBand' = IF line.n = 0 THEN outOfBand ELSE Append(outOfBand, line)
      BY <2>5 DEF SetAside
    <3>2. outOfBand' \in Seq(Numbered) /\ FlowInv'
      BY <1>2, <1>4, <2>1, <2>3, <3>1 DEF FlowInv
    <3>3. TypeInv'
      BY <1>1, <1>3, <3>1, <3>2 DEF IInv, TypeInv
    <3>4. QueueInv' /\ EventInv' /\ RowsInv' /\ KnownInv' /\ HoleInv'
      BY <1>1, <3>1, SameSession, SameFile, SameHoles
    <3>5. WaitInv' /\ EndInv'
      BY <1>1, <3>1 DEF IInv, WaitInv, EndInv, Delivered, LastIsCurrent
    <3> QED
      BY <3>2, <3>3, <3>4, <3>5 DEF IInv
  <2> QED
    BY <2>2, <2>4, <2>5
<1> QED
  BY <1>6, <1>7, ReadLineCases DEF line

\* A step that only moves serve() on, away from a wait or to its end.
LEMMA MovesOn ==
  ASSUME IInv, pc' \in {"closing", "killed"}, pc' = "killed" \/ pc \notin {"sending", "waiting"},
         pc \notin {"closed", "killed"},
         UNCHANGED <<agent, used, taken, toProxy, toAgent, said, reached, pipe, lines, current,
                     outOfBand, events, file, launch>>
  PROVE  IInv'
<1>1. TypeInv'
  BY DEF IInv, TypeInv
<1>2. QueueInv' /\ EventInv' /\ RowsInv' /\ KnownInv' /\ FlowInv' /\ HoleInv'
  BY SameSession, SameFile, SameFlow, SameHoles DEF IInv
<1>3. WaitInv' /\ EndInv'
  BY DEF IInv, WaitInv, EndInv
<1> QED
  BY <1>1, <1>2, <1>3 DEF IInv

LEMMA EndOfInputStep == ASSUME IInv, EndOfInput PROVE IInv'
<1>1. /\ pc = "idle" /\ pc' = "closing"
      /\ UNCHANGED <<agent, used, taken, toProxy, toAgent, said, reached, pipe, lines, current,
                     outOfBand, events, file, launch>>
  BY DEF EndOfInput, agentVars, serverVars, pumpVars
<1> QED
  BY <1>1, MovesOn

LEMMA KillStep == ASSUME IInv, Kill PROVE IInv'
<1>1. /\ pc \notin {"closed", "failed", "killed"} /\ pc' = "killed"
      /\ UNCHANGED <<agent, used, taken, toProxy, toAgent, said, reached, pipe, lines, current,
                     outOfBand, events, file, launch>>
  BY DEF Kill, agentVars, serverVars
<1> QED
  BY <1>1, MovesOn

LEMMA CloseStep == ASSUME IInv, Close PROVE IInv'
<1>1. /\ pc = "closing" /\ pc' = "closed" /\ file' = Append(file, EndRow)
      /\ UNCHANGED <<agent, used, taken, toProxy, toAgent, said, reached, pipe, lines, current,
                     outOfBand, events, launch>>
  BY DEF Close, agentVars
<1>2. file \in Seq(Rows) /\ EndRow \in Rows /\ EndRow.kind = "end" /\ RowOK(EndRow, events)
  BY RowTypes DEF EndRow, RowOK, IInv, TypeInv
<1>3. file' \in Seq(Rows) /\ PartHoles(file') = PartHoles(file)
  BY <1>1, <1>2, RowAdded
<1>4. \A id : HasCall(file, id) => HasCall(file', id)
  BY <1>1, <1>2, RowAdded
<1>5. RowsInv'
  BY <1>1, <1>2, RowAdded DEF IInv, RowsInv
<1>6. TypeInv'
  BY <1>1, <1>3 DEF IInv, TypeInv
<1>7. QueueInv' /\ FlowInv'
  BY <1>1, SameSession, SameFlow DEF IInv
<1>8. KnownInv' /\ EventInv'
  BY <1>1, <1>3, <1>4, KnownKept
<1>9. WaitInv' /\ EndInv'
  BY <1>1 DEF IInv, WaitInv, EndInv
<1>10. HoleInv'
  <2>1. Silent' = Silent /\ IsFiniteSet(taken')
    BY <1>1 DEF Silent, IInv, HoleInv
  <2> QED
    BY <1>1, <1>3, <2>1, HolesAreFinite, HolesKeepUp DEF IInv
<1> QED
  BY <1>5, <1>6, <1>7, <1>8, <1>9, <1>10 DEF IInv

\* A launch starts with an empty record, and knows nothing of what reached a server before.
LEMMA RelaunchStep == ASSUME IInv, Relaunch PROVE IInv'
<1>1. /\ launch' = launch + 1 /\ toProxy' = <<>> /\ taken' = {} /\ outOfBand' = <<>>
      /\ current' = NoMessage /\ pipe' = <<>> /\ lines' = <<>> /\ events' = <<>> /\ file' = <<>>
      /\ pc' = "start" /\ launch < MaxLaunches
      /\ UNCHANGED <<agent, used, toAgent, said, reached>>
  BY DEF Relaunch, agentVars
<1>2. /\ launch \in Nat /\ launch' \in 1..MaxLaunches /\ 1..launch \subseteq 1..launch'
      /\ launch' \notin 1..launch
  BY <1>1, StdioAssumption DEF IInv, TypeInv
<1>3. TypeInv'
  <2>1. reached' \subseteq [kind : Kinds, id : Ids \cup {NoId}, launch : 1..launch']
    BY <1>1, <1>2 DEF IInv, TypeInv
  <2> QED
    BY <1>1, <1>2, <2>1 DEF IInv, TypeInv
<1>4. QueueInv'
  <2>1. used \in Nat /\ Len(toProxy) \in Nat /\ Len(toProxy) <= used
    BY StdioAssumption DEF IInv, TypeInv, QueueInv
  <2>2. Len(toProxy') = 0 /\ DOMAIN toProxy' = {} /\ used' = used
    BY <1>1
  <2>3. ASSUME NEW m \in reached', m.kind \in Requests
        PROVE  \E j \in 1..(used' - Len(toProxy')) : m.id = AgentIds[j]
    <3>1. PICK j \in 1..(used - Len(toProxy)) : m.id = AgentIds[j]
      BY <1>1, <2>3 DEF IInv, QueueInv
    <3>2. j \in 1..(used' - Len(toProxy'))
      BY <2>1, <2>2
    <3> QED
      BY <3>1, <3>2
  <2> QED
    BY <2>1, <2>2, <2>3 DEF QueueInv
<1>5. WaitInv' /\ EventInv' /\ RowsInv' /\ EndInv'
  BY <1>1 DEF WaitInv, EventInv, RowsInv, EndInv, PartEnded
<1>6. KnownInv'
  <2>1. \A m \in reached : m.launch # launch'
    BY <1>2 DEF IInv, TypeInv
  <2> QED
    BY <1>1, <2>1 DEF KnownInv
<1>7. FlowInv'
  <2>1. /\ Numbers(<<>>) = {} /\ InOrder(<<>>) /\ Genuine(<<>>, said) /\ Counted(<<>>)
        /\ OnlyNotes(<<>>)
    BY DEF Numbers, InOrder, Genuine, Counted, OnlyNotes
  <2>2. Before(Numbers(toAgent), {}) /\ Before({}, {})
    BY DEF Before
  <2>3. InOrder(toAgent) /\ Genuine(toAgent, said) /\ Counted(toAgent)
    BY DEF IInv, FlowInv, FlowOf
  <2> QED
    BY <1>1, <2>1, <2>2, <2>3 DEF FlowInv, FlowOf
<1>8. HoleInv'
  <2>1. Silent' = {} /\ PartHoles(file') = {} /\ IsFiniteSet(taken')
    BY <1>1, FS_EmptySet DEF Silent, PartHoles
  <2>2. Cardinality(Silent') = 0 /\ Cardinality(PartHoles(file')) = 0
    BY <2>1, FS_EmptySet
  <2> QED
    BY <2>1, <2>2 DEF HoleInv, UnansweredIsDeclared
<1> QED
  BY <1>3, <1>4, <1>5, <1>6, <1>7, <1>8 DEF IInv

LEMMA NextInv == ASSUME IInv, [Next]_vars PROVE IInv'
<1>1. CASE UNCHANGED vars
  <2>1. UNCHANGED <<agent, used, toProxy, toAgent, server, said, reached, taken, pipe, partial,
                    pumping, lines, pc, current, outOfBand, events, file, launch>>
    BY <1>1 DEF vars, agentVars, serverVars, pumpVars
  <2>2. TypeInv'
    BY <2>1 DEF IInv, TypeInv
  <2>3. QueueInv' /\ WaitInv' /\ EventInv' /\ RowsInv' /\ KnownInv' /\ EndInv' /\ HoleInv'
    BY <2>1, OutputOnly
  <2>4. FlowInv'
    BY <2>1, SameFlow DEF IInv
  <2> QED
    BY <2>2, <2>3, <2>4 DEF IInv
<1>2. CASE Serve
  BY <1>2, StartStep, ChokeOnOddStep, ForwardStep, SentStep, RefusedStep, ReadLineStep, DeadlineStep,
     EndOfInputStep, CloseStep DEF Serve
<1>3. CASE Pump
  BY <1>3, PumpStep
<1>4. CASE Environment
  BY <1>4, AgentSendsStep, AgentClosesStep, ServerSaysStep, ServerChatsStep, ServerWritesHalfStep,
     ServerStopsStep, ServerLagsStep, KillStep, RelaunchStep DEF Environment
<1> QED
  BY <1>1, <1>2, <1>3, <1>4 DEF Next

\* The inductive invariant holds of every behaviour: its parts say what is in the pipes, the
\* queue, the record and the wait, between any two steps of serve(), _pump() and the two sides.
THEOREM Invariance == Spec => []IInv
<1>1. Init => IInv
  BY InitInv
<1>2. IInv /\ [Next]_vars => IInv'
  BY NextInv
<1> QED
  BY <1>1, <1>2, PTL DEF Spec
---------------------------------------------------------------------------
(* What the invariant says of the record and of the agent.                 *)

\* No call carries another call's answer: _answer_to() takes a line by its id.
THEOREM OwnAnswer == ASSUME NumbersApart PROVE Spec => []SettledByOwnAnswer
<1>1. IInv => SettledByOwnAnswer
  BY DEF IInv, EventInv, SettledByOwnAnswer
<1> QED
  BY <1>1, Invariance, PTL

\* Every request serve() gave up on has a hole of its own in the record.
THEOREM HolesForSilence == Spec => []UnansweredIsDeclared
<1>1. IInv => UnansweredIsDeclared
  BY DEF IInv, HoleInv
<1> QED
  BY <1>1, Invariance, PTL

\* What _drain() and the answer hand to the agent is what the server wrote, in order.
THEOREM ReadsTheServer == Spec => []AgentReadsTheServer
<1>1. ASSUME IInv PROVE AgentReadsTheServer
  <2>1. \A k \in DOMAIN toAgent : toAgent[k] \in Numbered
    BY <1>1 DEF IInv, TypeInv
  <2>2. \A k \in DOMAIN toAgent : Number(toAgent[k]) = toAgent[k].n /\ toAgent[k].n # 0
    BY <1>1, <2>1 DEF IInv, FlowInv, FlowOf, Counted, Number, Numbered
  <2>3. \A k \in DOMAIN toAgent : Written(toAgent[k], said)
    BY <1>1 DEF IInv, FlowInv, FlowOf, Genuine
  <2>4. \A k \in DOMAIN toAgent : \A j \in 1..k-1 : j \in DOMAIN toAgent /\ j < k
    BY <1>1 DEF IInv, TypeInv
  <2>5. \A k \in DOMAIN toAgent : \A j \in 1..k-1 : toAgent[j].n < toAgent[k].n
    BY <1>1, <2>2, <2>4 DEF IInv, FlowInv, FlowOf, InOrder
  <2> QED
    BY <2>2, <2>3, <2>5 DEF AgentReadsTheServer, Written
<1> QED
  BY <1>1, Invariance, PTL

\* A record that assembles as complete has a call that is in it with the answer that the
\* event at its index was settled with.
LEMMA CompleteSettles ==
  ASSUME NEW f \in Seq(Rows), NEW seen \in Seq(Events), \A k \in DOMAIN f : RowOK(f[k], seen),
         \A i \in DOMAIN seen : seen[i].of \in {NoAnswer, seen[i].id},
         PartComplete(f), NEW id, HasCall(f, id)
  PROVE  /\ \E i \in PartIndices(f) : PartEvent(f, i) = [id |-> id, of |-> id]
         /\ \E i \in DOMAIN seen : seen[i].id = id /\ seen[i].of = id
<1>1. PICK k \in DOMAIN f : f[k].kind = "call" /\ f[k].event.id = id
  BY DEF HasCall
<1> DEFINE i     == f[k].event.index
           rows  == About(f, i)
           first == CHOOSE n \in rows : \A j \in rows : n <= j
           last  == CHOOSE n \in rows : \A j \in rows : j <= n
<1>2. k \in rows /\ i \in PartIndices(f)
  BY <1>1 DEF About, PartIndices
<1>3. rows \subseteq 1..Len(f) /\ Len(f) \in Nat
  BY DEF About
<1>4. first \in rows
  BY <1>2, <1>3, FirstExists
<1>5. last \in rows
  BY <1>2, <1>3, LastExists
<1>6. ASSUME NEW n \in rows
      PROVE  /\ i + 1 \in DOMAIN seen /\ f[n].event.id = seen[i + 1].id
             /\ f[n].event.of \in {NoAnswer, seen[i + 1].of}
  BY DEF About, RowOK
<1>7. PartEvent(f, i) = [id |-> f[first].event.id, of |-> f[last].event.of]
  BY DEF PartEvent
<1>8. PartEvent(f, i).of # NoAnswer
  BY <1>2 DEF PartComplete
<1> HIDE DEF rows, first, last
<1>9. i + 1 \in DOMAIN seen /\ seen[i + 1].id = id
  BY <1>1, <1>2, <1>6
<1>10. f[last].event.of = seen[i + 1].of /\ seen[i + 1].of # NoAnswer
  BY <1>5, <1>6, <1>7, <1>8
<1>11. seen[i + 1].of = id
  BY <1>9, <1>10
<1>12. f[first].event.id = id
  BY <1>4, <1>6, <1>9
<1> QED
  BY <1>2, <1>7, <1>9, <1>10, <1>11, <1>12

\* A record that assembles as complete holds every call that reached the server of its
\* launch, with its answer, and nothing reached that server unread.
THEOREM CompleteIsComplete == ASSUME NumbersApart PROVE Spec => []CompleteCapture
<1>1. ASSUME IInv PROVE CompleteCapture
  <2> SUFFICES ASSUME PartComplete(file), NEW m \in reached, m.launch = launch
               PROVE  /\ m.kind # "garbage"
                      /\ m.kind = "call" =>
                            \E i \in PartIndices(file) : PartEvent(file, i) = [id |-> m.id, of |-> m.id]
    BY DEF CompleteCapture
  <2>1. m.kind # "garbage"
    BY <1>1 DEF IInv, KnownInv, PartComplete
  <2>2. ASSUME m.kind = "call"
        PROVE  \E i \in PartIndices(file) : PartEvent(file, i) = [id |-> m.id, of |-> m.id]
    <3>1. HasCall(file, m.id)
      BY <1>1, <2>2 DEF IInv, KnownInv
    <3>2. \A i \in DOMAIN events : events[i].of \in {NoAnswer, events[i].id}
      BY <1>1 DEF IInv, EventInv
    <3> QED
      BY <1>1, <3>1, <3>2, CompleteSettles DEF IInv, TypeInv, RowsInv
  <2> QED
    BY <2>1, <2>2
<1> QED
  BY <1>1, Invariance, PTL
---------------------------------------------------------------------------
(* The proxy implements Capture, for one launch of it.                     *)

LEMMA VerdictOpen == ASSUME IInv, pc # "closed" PROVE ~ PartComplete(file)
  BY DEF IInv, EndInv, PartComplete

\* What changes no call that is reached or learnt, and no verdict, is no step of Capture.
LEMMA NoCaptureStep ==
  ASSUME IInv, IInv', UNCHANGED <<events, launch>>, reached \subseteq reached',
         \A m \in reached' \ reached : m.kind # "call",
         file' = file \/ (pc # "closed" /\ pc' # "closed")
  PROVE  UNCHANGED Promise!vars
<1>1. ReachedCalls' = ReachedCalls
  BY DEF ReachedCalls
<1>2. LearntCalls' = LearntCalls
  BY DEF LearntCalls
<1>3. PartComplete(file') <=> PartComplete(file)
  <2>1. CASE file' = file
    BY <2>1
  <2>2. CASE pc # "closed" /\ pc' # "closed"
    BY <2>2 DEF IInv, EndInv, PartComplete
  <2> QED
    BY <2>1, <2>2
<1> QED
  BY <1>1, <1>2, <1>3 DEF Promise!vars

\* A call that is recorded is not reached, and has no answer yet.
LEMMA ForwardLearnsNothing == ASSUME IInv, IInv', Forward PROVE UNCHANGED Promise!vars
<1>1. /\ pc = "idle" /\ pc' = "sending" /\ UNCHANGED <<reached, launch>>
      /\ events' = events \/ events' = Append(events, Observed(Message))
  BY DEF Forward, Reads
<1>2. ReachedCalls' = ReachedCalls /\ ~ PartComplete(file) /\ ~ PartComplete(file')
  BY <1>1 DEF ReachedCalls, IInv, EndInv, PartComplete
<1>3. LearntCalls' = LearntCalls
  <2>1. CASE events' = events
    BY <2>1 DEF LearntCalls
  <2>2. CASE events' = Append(events, Observed(Message))
    <3> DEFINE e == Observed(Message)
    <3>1. events \in Seq(Events) /\ events' \in Seq(Events) /\ Len(events) \in Nat
      BY DEF IInv, TypeInv
    <3>2. /\ DOMAIN events' = 1..(Len(events) + 1) /\ DOMAIN events = 1..Len(events)
          /\ events'[Len(events) + 1] = e /\ \A i \in 1..Len(events) : events'[i] = events[i]
      BY <2>2, <3>1
    <3>3. e.of = NoAnswer
      BY DEF Observed, Event
    <3>4. e \in Events
      BY <3>1, <3>2
    <3>5. e.of # e.id
      BY <3>3, <3>4, StdioAssumption DEF Events, Ids
    <3> HIDE DEF e
    <3> QED
      BY <3>2, <3>5 DEF LearntCalls
  <2> QED
    BY <1>1, <2>1, <2>2
<1> QED
  BY <1>2, <1>3 DEF Promise!vars

\* A call that reaches the server is one Capture did not know as reached.
LEMMA SentReaches ==
  ASSUME IInv, IInv', Sent PROVE UNCHANGED Promise!vars \/ \E c \in Ids : Promise!Reach(c)
<1> DEFINE d == [kind |-> current.kind, id |-> current.id, launch |-> launch]
           c == current.id
<1>1. /\ pc = "sending" /\ pc' # "closed" /\ reached' = reached \cup {d}
      /\ UNCHANGED <<events, launch, used, toProxy>>
  BY DEF Sent, HandOver, agentVars
<1>2. ~ PartComplete(file) /\ ~ PartComplete(file') /\ LearntCalls' = LearntCalls
  BY <1>1 DEF IInv, EndInv, PartComplete, LearntCalls
<1>3. d.kind = current.kind /\ d.launch = launch /\ d.id = c
  OBVIOUS
<1> HIDE DEF d
<1>4. CASE current.kind # "call"
  <2>1. ReachedCalls' = ReachedCalls
    BY <1>1, <1>3, <1>4 DEF ReachedCalls
  <2> QED
    BY <1>2, <2>1 DEF Promise!vars
<1>5. CASE current.kind = "call"
  <2>1. LastRead /\ c \in Ids
    BY <1>1, <1>5 DEF IInv, WaitInv, Messages, Asked, Requests
  <2>2. ReachedCalls' = ReachedCalls \cup {c}
    BY <1>1, <1>3, <1>5 DEF ReachedCalls
  <2>3. ASSUME NEW m \in reached, m.kind = "call" PROVE m.id # c
    <3>1. PICK j \in 1..(used - Len(toProxy) - 1) : m.id = AgentIds[j]
      BY <2>1, <2>3 DEF LastRead, Requests
    <3>2. used \in 0..Len(AgentIds) /\ Len(AgentIds) \in Nat /\ Len(toProxy) \in Nat /\ Len(toProxy) < used
      <4>1. Len(AgentIds) \in Nat /\ used \in 0..Len(AgentIds)
        BY StdioAssumption DEF IInv, TypeInv
      <4>2. toProxy \in Seq(Messages) /\ Len(toProxy) < used
        BY <2>1 DEF IInv, TypeInv, LastRead
      <4> QED
        BY <4>1, <4>2
    <3>3. /\ j \in DOMAIN AgentIds /\ used - Len(toProxy) \in DOMAIN AgentIds
          /\ j # used - Len(toProxy)
      BY <3>2, StdioAssumption
    <3>4. AgentIds[j] # AgentIds[used - Len(toProxy)]
      BY <3>3, StdioAssumption DEF IsInjective
    <3> QED
      BY <2>1, <3>1, <3>4 DEF LastRead
  <2>4. c \notin ReachedCalls
    BY <2>3 DEF ReachedCalls
  <2> HIDE DEF c
  <2> QED
    BY <1>2, <2>1, <2>2, <2>4 DEF Promise!Reach
<1> QED
  BY <1>4, <1>5

\* An answer that settles a call teaches it; nothing else serve() reads does.
LEMMA ReadLineLearns ==
  ASSUME NumbersApart, IInv, IInv', ReadLine
  PROVE  UNCHANGED Promise!vars \/ \E c \in Ids : Promise!Learn(c)
<1>1. /\ pc = "waiting" /\ UNCHANGED <<reached, launch>>
  BY DEF ReadLine, serverVars
<1>2. /\ pc' # "closed"
      /\ \/ events' = events
         \/ /\ current.kind = "call"
            /\ \E of : events' = Append(Front(events), [Last(events) EXCEPT !.of = of])
  BY <1>1, ReadLineCases DEF Unanswered, Answered, SetAside, HandOver
<1>3. CASE events' = events
  BY <1>1, <1>2, <1>3, NoCaptureStep
<1>4. ASSUME current.kind = "call", NEW of, events' = Append(Front(events), [Last(events) EXCEPT !.of = of])
      PROVE  UNCHANGED Promise!vars \/ \E c \in Ids : Promise!Learn(c)
  <2> DEFINE e == [Last(events) EXCEPT !.of = of]
  <2>1. /\ events # <<>> /\ Last(events).id = current.id /\ Last(events).of = NoAnswer
        /\ Delivered(current.id) /\ current.id \in Ids
    BY <1>1, <1>4 DEF IInv, WaitInv, LastIsCurrent, Asked
  <2>2. events \in Seq(Events) /\ events' \in Seq(Events) /\ Len(events) \in Nat \ {0}
    BY <2>1 DEF IInv, TypeInv
  <2>3. Last(events) = events[Len(events)] /\ Last(events) \in Events
    BY <2>2 DEF Last
  <2>4. e.id = current.id /\ e.of = of
    BY <2>1, <2>3 DEF Events
  <2> HIDE DEF e
  <2>5. /\ Front(events) \in Seq(Events) /\ Len(Front(events)) = Len(events) - 1
        /\ \A i \in 1..(Len(events) - 1) : Front(events)[i] = events[i]
    BY <2>2, FrontOfSeq
  <2>6. events' = Append(Front(events), e)
    BY <1>4 DEF e
  <2>7. /\ DOMAIN events' = 1..Len(events) /\ DOMAIN events = 1..Len(events)
        /\ events'[Len(events)] = e /\ \A i \in 1..(Len(events) - 1) : events'[i] = events[i]
    BY <2>2, <2>5, <2>6
  <2>8. ~ PartComplete(file) /\ ~ PartComplete(file')
    BY <1>1, <1>2 DEF IInv, EndInv, PartComplete
  <2>9. ReachedCalls' = ReachedCalls /\ current.id \in ReachedCalls
    BY <1>1, <2>1 DEF ReachedCalls, Delivered
  <2>10. NoAnswer \notin Ids
    BY StdioAssumption DEF Ids
  <2>11. CASE of = current.id
    <3>1. LearntCalls' = LearntCalls \cup {current.id}
      <4>1. ASSUME NEW x \in LearntCalls' PROVE x \in LearntCalls \cup {current.id}
        BY <2>2, <2>4, <2>7, <4>1 DEF LearntCalls
      <4>2. ASSUME NEW x \in LearntCalls PROVE x \in LearntCalls'
        <5>1. PICK i \in DOMAIN events : events[i].of = events[i].id /\ x = events[i].id
          BY DEF LearntCalls
        <5>2. i # Len(events)
          BY <2>1, <2>3, <2>10, <5>1
        <5> QED
          BY <2>2, <2>7, <5>1, <5>2 DEF LearntCalls
      <4>3. current.id \in LearntCalls'
        BY <2>2, <2>4, <2>7, <2>11 DEF LearntCalls
      <4> QED
        BY <4>1, <4>2, <4>3
    <3> QED
      BY <2>1, <2>8, <2>9, <3>1 DEF Promise!Learn
  <2>12. CASE of # current.id
    <3>1. LearntCalls' = LearntCalls
      <4>1. ASSUME NEW x \in LearntCalls' PROVE x \in LearntCalls
        BY <2>2, <2>4, <2>7, <2>12, <4>1 DEF LearntCalls
      <4>2. ASSUME NEW x \in LearntCalls PROVE x \in LearntCalls'
        <5>1. PICK i \in DOMAIN events : events[i].of = events[i].id /\ x = events[i].id
          BY DEF LearntCalls
        <5>2. i # Len(events)
          BY <2>1, <2>3, <2>10, <5>1
        <5> QED
          BY <2>2, <2>7, <5>1, <5>2 DEF LearntCalls
      <4> QED
        BY <4>1, <4>2
    <3> QED
      BY <2>8, <2>9, <3>1 DEF Promise!vars
  <2> QED
    BY <2>11, <2>12
<1> QED
  BY <1>2, <1>3, <1>4

\* close() gives the verdict: complete only when every call that was reached is learnt.
LEMMA CloseJudges ==
  ASSUME NumbersApart, IInv, IInv', Close
  PROVE  UNCHANGED Promise!vars \/ Promise!Judge
<1>1. pc = "closing" /\ UNCHANGED <<reached, events, launch>>
  BY DEF Close
<1>2. ReachedCalls' = ReachedCalls /\ LearntCalls' = LearntCalls
  BY <1>1 DEF ReachedCalls, LearntCalls
<1>3. ~ PartComplete(file)
  BY <1>1, VerdictOpen
<1>4. CASE ~ PartComplete(file')
  BY <1>2, <1>3, <1>4 DEF Promise!vars
<1>5. CASE PartComplete(file')
  <2>1. ReachedCalls \subseteq LearntCalls
    <3> SUFFICES ASSUME NEW m \in reached, m.kind = "call", m.launch = launch
                 PROVE  m.id \in LearntCalls
      BY DEF ReachedCalls
    <3>1. HasCall(file', m.id)
      BY <1>1 DEF IInv, KnownInv
    <3>2. \A i \in DOMAIN events' : events'[i].of \in {NoAnswer, events'[i].id}
      BY DEF IInv, EventInv, NumbersApart
    <3>3. file' \in Seq(Rows) /\ events' \in Seq(Events) /\ \A k \in DOMAIN file' : RowOK(file'[k], events')
      BY DEF IInv, TypeInv, RowsInv
    <3>4. \E i \in DOMAIN events' : events'[i].id = m.id /\ events'[i].of = m.id
      BY <1>5, <3>1, <3>2, <3>3, CompleteSettles
    <3> QED
      BY <1>1, <3>4 DEF LearntCalls
  <2>2. LearntCalls \subseteq ReachedCalls
    <3> SUFFICES ASSUME NEW i \in DOMAIN events, events[i].of = events[i].id
                 PROVE  events[i].id \in ReachedCalls
      BY DEF LearntCalls
    <3>1. events[i].id \in Ids
      <4>1. events \in Seq(Events)
        BY DEF IInv, TypeInv
      <4>2. events[i] \in Events
        BY <4>1
      <4> QED
        BY <4>2 DEF Events
    <3>2. events[i].of # NoAnswer
      BY <3>1, StdioAssumption DEF Ids
    <3>3. Delivered(events[i].id)
      BY <3>2 DEF IInv, EventInv
    <3> QED
      BY <3>3 DEF ReachedCalls, Delivered
  <2> QED
    BY <1>2, <1>3, <1>5, <2>1, <2>2 DEF Promise!Judge
<1> QED
  BY <1>4, <1>5

LEMMA StepImplements ==
  ASSUME NumbersApart, MaxLaunches = 1, IInv, IInv', [Next]_vars
  PROVE  [Promise!Next]_(Promise!vars)
<1> DEFINE Quiet == /\ UNCHANGED <<events, launch>> /\ reached \subseteq reached'
                    /\ \A m \in reached' \ reached : m.kind # "call"
                    /\ file' = file \/ (pc # "closed" /\ pc' # "closed")
<1>1. ASSUME Quiet PROVE UNCHANGED Promise!vars
  BY <1>1, NoCaptureStep
<1>2. CASE UNCHANGED vars
  <2>1. Quiet
    BY <1>2 DEF vars
  <2> QED
    BY <1>1, <2>1
<1>3. CASE Pump \/ ChokeOnOdd \/ EndOfInput \/ Kill \/ AgentCloses \/ ServerChats \/ ServerWritesHalf
           \/ ServerStops \/ ServerLags \/ (\E kind \in AgentKinds : AgentSends(kind))
           \/ (\E line \in Sayable : ServerSays(line))
  <2>1. UNCHANGED <<events, launch, reached, file>>
    BY <1>3 DEF Pump, ChokeOnOdd, EndOfInput, Kill, AgentCloses, ServerChats, ServerWritesHalf,
                ServerStops, ServerLags, AgentSends, ServerSays
  <2>2. Quiet
    BY <2>1
  <2> QED
    BY <1>1, <2>2
<1>4. CASE Start \/ Refused \/ Deadline
  <2>1. Quiet
    BY <1>4 DEF Start, Refused, Deadline, Unanswered, HandOver, serverVars
  <2> QED
    BY <1>1, <2>1
<1>5. CASE Forward
  BY <1>5, ForwardLearnsNothing
<1>6. CASE Sent
  BY <1>6, SentReaches DEF Promise!Next, Ids
<1>7. CASE ReadLine
  BY <1>7, ReadLineLearns DEF Promise!Next, Ids
<1>8. CASE Close
  BY <1>8, CloseJudges DEF Promise!Next
<1>9. CASE Relaunch
  <2>1. launch \in 1..1 /\ launch < 1
    BY <1>9 DEF Relaunch, IInv, TypeInv
  <2> QED
    BY <2>1
<1> HIDE DEF Quiet
<1> QED
  BY <1>2, <1>3, <1>4, <1>5, <1>6, <1>7, <1>8, <1>9 DEF Next, Serve, Environment

\* One launch of the proxy keeps the promise of Capture: a verdict of complete is given
\* once, over calls that are all known, and no call reaches the server after it.
THEOREM Implements == ASSUME NumbersApart, MaxLaunches = 1 PROVE Spec => ImplementsCapture
<1>1. Init => Promise!Init
  <2> SUFFICES ASSUME Init PROVE Promise!Init
    OBVIOUS
  <2>1. ReachedCalls = {} /\ LearntCalls = {} /\ ~ PartComplete(file)
    BY DEF Init, ReachedCalls, LearntCalls, PartComplete, PartEnded
  <2> QED
    BY <2>1 DEF Promise!Init
<1>2. IInv /\ IInv' /\ [Next]_vars => [Promise!Next]_(Promise!vars)
  BY StepImplements
<1> QED
  BY <1>1, <1>2, Invariance, PTL DEF Spec, ImplementsCapture, Promise!Spec
---------------------------------------------------------------------------
(* Type correctness: the rest of the state, which no other proof needs.    *)

\* The server's process and its two pipes.
Servers == [alive : BOOLEAN, reads : BOOLEAN, writes : BOOLEAN, half : BOOLEAN, full : BOOLEAN]

PlaceInv ==
    /\ agent \in {"open", "quiet", "gone"}
    /\ pc \in {"start", "idle", "sending", "waiting", "closing", "closed", "failed", "killed"}
    /\ current \in {m \in Messages : m.kind \in Relayed} \cup {NoMessage}
    /\ server \in Servers /\ (server.full => server.reads)
    /\ server.reads \/ server.writes => server.alive
    /\ partial \in BOOLEAN /\ pumping \in BOOLEAN

LEMMA PlaceStep == ASSUME IInv, PlaceInv, [Next]_vars PROVE PlaceInv'
<1> USE DEF PlaceInv
<1>1. CASE UNCHANGED vars
  BY <1>1 DEF vars, agentVars, serverVars, pumpVars
<1>2. CASE Start \/ Close \/ Relaunch
  <2>1. /\ Exited \in Servers /\ Running \in Servers /\ Running.alive /\ ~ Running.full
        /\ ~ Exited.reads /\ ~ Exited.writes /\ ~ Exited.full
    BY DEF Exited, Running, Servers
  <2>2. /\ server' \in {server, Running, Exited} /\ agent' = agent
        /\ pc' \in {"idle", "failed", "closed", "start"}
        /\ current' \in {current, NoMessage}
    BY <1>2 DEF Start, Close, Relaunch, agentVars
  <2>3. partial' \in {partial, FALSE} /\ pumping' \in {pumping, TRUE, FALSE}
    BY <1>2 DEF Start, Close, Relaunch
  <2> QED
    BY <2>1, <2>2, <2>3
<1>3. CASE Sent \/ Refused \/ ChokeOnOdd
  <2>1. UNCHANGED <<agent, server, partial, pumping>> /\ current' \in {current, NoMessage}
    BY <1>3 DEF Sent, Refused, ChokeOnOdd, agentVars, serverVars, pumpVars
  <2>2. pc' \in {"idle", "closing", "waiting"}
    BY <1>3 DEF Sent, Refused, ChokeOnOdd, HandOver
  <2> QED
    BY <2>1, <2>2
<1>4. CASE Forward
  <2>1. Message \in Messages /\ Message.kind \in Relayed
    BY <1>4 DEF Forward, Reads, Message, IInv, TypeInv
  <2>2. UNCHANGED <<agent, server, partial, pumping>> /\ pc' = "sending" /\ current' = Message
    BY <1>4 DEF Forward, agentVars, serverVars, pumpVars
  <2> QED
    BY <2>1, <2>2
<1>5. CASE ReadLine \/ Deadline
  <2>1. UNCHANGED <<agent, server, partial, pumping>>
    BY <1>5 DEF ReadLine, Deadline, agentVars, serverVars, pumpVars
  <2>2. pc' \in {"idle", "closing", pc} /\ current' \in {NoMessage, current}
    BY <1>5, ReadLineCases DEF Deadline, Unanswered, Answered, SetAside, HandOver
  <2> QED
    BY <2>1, <2>2
<1>6. CASE EndOfInput \/ Kill
  BY <1>6 DEF EndOfInput, Kill, agentVars, serverVars, pumpVars
<1>7. CASE Pump
  BY <1>7 DEF Pump, agentVars, serverVars
<1>8. CASE AgentCloses \/ ServerChats \/ \E kind \in AgentKinds : AgentSends(kind)
  BY <1>8 DEF AgentCloses, AgentSends, ServerChats, agentVars, serverVars, pumpVars
<1>9. CASE ServerWritesHalf \/ ServerStops \/ ServerLags \/ \E line \in Sayable : ServerSays(line)
  <2>1. UNCHANGED <<agent, pc, current, partial, pumping>>
    BY <1>9 DEF ServerSays, ServerWritesHalf, ServerStops, ServerLags, agentVars, pumpVars
  <2>2. \/ \E b \in BOOLEAN : server' = [server EXCEPT !.half = b]
        \/ server' = [server EXCEPT !.reads = FALSE, !.full = FALSE] /\ server.alive
        \/ server' = [server EXCEPT !.writes = FALSE] /\ server.alive
        \/ server' = Exited
        \/ server' = [server EXCEPT !.full = ~ server.full] /\ server.reads
    BY <1>9 DEF ServerSays, ServerWritesHalf, ServerStops, ServerLags
  <2>3. /\ server' \in Servers /\ (server'.full => server'.reads)
        /\ server'.reads \/ server'.writes => server'.alive
    <3>1. CASE \E b \in BOOLEAN : server' = [server EXCEPT !.half = b]
      BY <3>1 DEF Servers
    <3>2. CASE server' = [server EXCEPT !.reads = FALSE, !.full = FALSE] /\ server.alive
      BY <3>2 DEF Servers
    <3>3. CASE server' = [server EXCEPT !.writes = FALSE] /\ server.alive
      BY <3>3 DEF Servers
    <3>4. CASE server' = Exited
      BY <3>4 DEF Exited, Servers
    <3>5. CASE server' = [server EXCEPT !.full = ~ server.full] /\ server.reads
      BY <3>5 DEF Servers
    <3> QED
      BY <2>2, <3>1, <3>2, <3>3, <3>4, <3>5
  <2> QED
    BY <2>1, <2>3
<1> QED
  BY <1>1, <1>2, <1>3, <1>4, <1>5, <1>6, <1>7, <1>8, <1>9 DEF Next, Serve, Environment

\* Every variable keeps its type.
THEOREM TypeCorrect == Spec => []TypeOK
<1>1. Init => PlaceInv
  <2>1. Exited \in Servers
    BY DEF Exited, Servers
  <2>2. ~ Exited.reads /\ ~ Exited.writes /\ ~ Exited.full
    BY DEF Exited
  <2> QED
    BY <2>1, <2>2 DEF Init, PlaceInv
<1>2. IInv /\ PlaceInv /\ [Next]_vars => PlaceInv'
  BY PlaceStep
<1>3. ASSUME IInv, PlaceInv PROVE TypeOK
  <2>1. (current # NoMessage) <=> (current.kind \in Relayed)
    BY <1>3 DEF PlaceInv, NoMessage, Relayed, Requests
  <2>2. /\ reached \subseteq [kind : Kinds, id : ToSet(AgentIds) \cup {NoId}, launch : 1..launch]
        /\ taken \subseteq [kind : Kinds, id : ToSet(AgentIds) \cup {NoId}]
        /\ used \in 0..Len(AgentIds) /\ launch \in 1..MaxLaunches
    BY <1>3 DEF IInv, TypeInv, Messages, Asked, Ids, Kinds
  <2>3. \A i \in DOMAIN events : events[i].index = i - 1
    BY <1>3 DEF IInv, EventInv
  <2>4. {server.half, server.full} \subseteq BOOLEAN
    BY <1>3 DEF PlaceInv, Servers
  <2> QED
    BY <1>3, <2>1, <2>2, <2>3, <2>4 DEF TypeOK, PlaceInv
<1> QED
  BY <1>1, <1>2, <1>3, Invariance, PTL DEF Spec
=============================================================================
