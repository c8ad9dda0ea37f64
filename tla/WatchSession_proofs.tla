------------------------ MODULE WatchSession_proofs ------------------------
(***************************************************************************)
(* Theorems about WatchSession for any number of servers, runs and calls:  *)
(* what a run publishes is its own, whole when it says so, and in order.   *)
(***************************************************************************)
EXTENDS WatchSession, TLAPS, FiniteSetTheorems, SequenceTheorems, WellFoundedInduction

----------------------------------------------------------------------------
(* Positions.                                                              *)

\* A set of positions has a first one.
LEMMA FirstExists ==
  ASSUME NEW S, S \subseteq Nat, S # {}
  PROVE  \E m \in S : \A n \in S : m <= n
<1>1. PICK m \in S : \A n \in S : ~ (<<n, m>> \in OpToRel(<, Nat))
  BY NatLessThanWellFounded, WFMin
<1>2. OpToRel(<, Nat) = { pair \in Nat \X Nat : pair[1] < pair[2] }
  BY DEF OpToRel
<1>3. ASSUME NEW n \in S PROVE m <= n
  <2>1. <<n, m>> \in Nat \X Nat /\ ~ (n < m)
    BY <1>1, <1>2
  <2> QED
    BY <2>1
<1> QED
  BY <1>3


\* The calls are told apart by their ids.
IdsOnce == \A m, n \in DOMAIN CallIds : CallIds[m] = CallIds[n] => m = n

\* No server is configured with a command and a url: one that is has its command
\* interposed and stays open to the agent by its url.
OneTransport == \A r \in 1..MaxRuns : \A c \in Configs[r] : \A s \in Servers : c[s] # "both"

\* A directory in which a run found a configuration is not used for one that finds none:
\* such a run leaves the manifest of the earlier one in force.
Finds(r) == \E c \in Configs[r] : c # NoConfig
FoundAgain == \A q, r \in 1..MaxRuns : q < r /\ Finds(q) => NoConfig \notin Configs[r]

---------------------------------------------------------------------------
(* The inductive invariant.                                                *)

Ids    == ToSet(CallIds)
Events == [index : Nat, id : Ids, of : Ids \cup {NoAnswer}]
Gaps   == [reason : {"proxy_start_failed", "transport"}, after : Ids \cup {NoAnchor}]
Rows   == [row : [kind : {"absent", "end", "discover"}] \cup [kind : {"gap"}, gap : Gaps]
                 \cup [kind : {"call", "result"}, event : Events],
           run : Nat, at : Nat]
MadeCalls == [run : Nat \ {0}, server : Servers, id : Ids]
OpenCalls == [server : Servers, run : Nat \ {0}, at : Nat, event : Events]

TypeInv ==
    /\ run \in 1..MaxRuns /\ clock \in 1..MaxMoment
    /\ pc \in {"start", "listen", "rewrite", "child", "ended", "assembled", "aborted"}
    /\ config \in [Servers -> AllShapes \cup {"no_config"}]
    /\ listeners \subseteq Remote
    /\ proxy \in [Servers -> {"none", "running", "gone"}]
    /\ stray \in [Servers -> Nat] /\ \A s \in Servers : stray[s] < run
    /\ files \in [Servers -> Seq(Rows)] /\ made \in Seq(MadeCalls)
    /\ open \subseteq OpenCalls /\ hasty \subseteq 1..run
    /\ DOMAIN published = 1..MaxRuns

\* The calls made, each with the id that was its turn, by runs up to this one.
MadeInv ==
    /\ Len(made) <= Len(CallIds)
    /\ \A n \in DOMAIN made : made[n].id = CallIds[n] /\ made[n].run <= run
    /\ pc \notin {"child", "ended", "assembled"} => \A n \in DOMAIN made : made[n].run < run

\* The manifest is this run's from the rewriting on, and an earlier one's before; a run
\* that found no configuration has none in force, when there was none to be left behind.
\* A proxy has a manifest of its run or a later one.
Running == pc \in {"child", "ended", "assembled"}
ThisManifest ==
    LET interposed == With({"stdio", "both"}) \cup (With({"http"}) \cap listeners)
    IN  [run |-> run, interposed |-> interposed, direct |-> Servers \ (interposed \cup With({"absent"}))]
Found == config \in Configs[run] /\ config # NoConfig
ManifestInv ==
    /\ manifest.run \in Nat /\ manifest.run <= run
    /\ manifest # NoManifest => manifest.run >= 1 /\ Finds(manifest.run)
    /\ pc \in {"start", "listen", "rewrite", "aborted"} => manifest.run < run
    /\ pc \in {"listen", "rewrite"} => Found
    /\ pc = "start" => config = NoConfig /\ listeners = {}
    /\ Running =>
          \/ config = NoConfig /\ listeners = {} /\ (FoundAgain => manifest = NoManifest)
          \/ Found /\ manifest = ThisManifest
    /\ \A s \in Servers : /\ proxy[s] # "none" => Running /\ config[s] \in {"stdio", "both"}
                          /\ stray[s] <= manifest.run

\* A row about a call: the run that made the call wrote it, under a manifest of its own or
\* a later one, and the row's index is the call's.
Backed(event, r, moment) ==
    /\ event.index + 1 \in DOMAIN made
    /\ made[event.index + 1].id = event.id /\ made[event.index + 1].run = r
    /\ moment <= clock /\ r <= manifest.run

CallRows(f) == { k \in DOMAIN f : f[k].row.kind \in {"call", "result"} }
RowsInv ==
    \A s \in Servers : \A k \in CallRows(files[s]) :
        Backed(files[s][k].row.event, files[s][k].run, files[s][k].at)

\* A result of this run comes after the call it is about.
CallAt(f, k, index) == f[k].row.kind = "call" /\ f[k].run = run /\ f[k].row.event.index = index
FirstInv ==
    \A s \in Servers : \A k \in CallRows(files[s]) :
        files[s][k].row.kind = "result" /\ files[s][k].run = run =>
            \E j \in CallRows(files[s]) : j < k /\ CallAt(files[s], j, files[s][k].row.event.index)

\* A call whose outcome is out was made, and one of this run is in its file, which is not
\* opened afresh before the outcome is there.
OpenInv ==
    \A c \in open :
        /\ Backed(c.event, c.run, c.at)
        /\ c.run = run =>
              /\ config[c.server] \in {"stdio", "both"} => proxy[c.server] = "running"
              /\ \E k \in CallRows(files[c.server]) : CallAt(files[c.server], k, c.event.index)

\* The order of the rows is the order of the calls.
OrderInv ==
    \A s, t \in Servers : \A j \in CallRows(files[s]), k \in CallRows(files[t]) :
        /\ files[s][j].row.kind = "call" /\ files[t][k].row.kind = "call"
        /\ files[s][j].row.event.index < files[t][k].row.event.index
        => /\ files[s][j].at <= files[t][k].at
           /\ s = t => j < k

\* A call of this run that went through a recorder is in its file, which is opened afresh
\* for the first proxy, before any call, and then only for an agent that is hasty.
HeldInv ==
    run \notin hasty =>
        \A n \in DOMAIN made :
            LET s == made[n].server
            IN  made[n].run = run /\ ~Direct(s) =>
                    /\ config[s] = "stdio" => proxy[s] # "none"
                    /\ \E k \in CallRows(files[s]) : CallAt(files[s], k, n - 1)

\* A proxy that is running has not written its end.
EndInv ==
    OneTransport =>
        \A s \in Servers : proxy[s] = "running" =>
            \A k \in DOMAIN files[s] : files[s][k].row.kind = "end" => files[s][k].run # run

\* A run that has published a complete trace has no proxy left.
DoneInv ==
    OneTransport =>
        \A r \in 1..MaxRuns : published[r].complete =>
            \A s \in Servers : stray[s] # r /\ (r = run => proxy[s] # "running")

\* What has been published, and what has not.
PublishedInv ==
    /\ \A r \in 1..MaxRuns : r > run \/ (r = run /\ pc # "assembled") => published[r] = NoTrace
    /\ FoundAgain => PublishedIsThisRun
    /\ FoundAgain /\ OneTransport => CompleteIsWhole
    /\ FoundAgain /\ IdsOnce => OrderIsObserved

IInv == /\ TypeInv /\ MadeInv /\ ManifestInv /\ RowsInv /\ FirstInv /\ OpenInv /\ OrderInv
        /\ HeldInv /\ EndInv /\ DoneInv /\ PublishedInv

---------------------------------------------------------------------------
(* The sequence in which a trace is told: InOrder.                         *)

\* A finite set that a relation orders is told element by element, in that order.
LEMMA Told ==
  ASSUME NEW set, IsFiniteSet(set), NEW before,
         \A x \in set : <<x, x>> \notin before,
         \A x, y \in set : x # y => <<x, y>> \in before \/ <<y, x>> \in before,
         \A x, y, z \in set : <<x, y>> \in before /\ <<y, z>> \in before => <<x, z>> \in before
  PROVE  LET told == InOrder(set, before)
         IN  /\ Len(told) \in Nat /\ DOMAIN told = 1..Len(told)
             /\ \A n \in DOMAIN told : told[n] \in set
             /\ \A x \in set : \E n \in DOMAIN told : told[n] = x
             /\ \A m, n \in DOMAIN told : m < n => <<told[m], told[n]>> \in before
<1> DEFINE below(x) == { y \in set : <<y, x>> \in before }
           C == Cardinality(set)
           rank == [x \in set |-> Cardinality(below(x)) + 1]
           told == InOrder(set, before)
<1>1. C \in Nat
  BY FS_CardinalityType
<1>2. ASSUME NEW x \in set
      PROVE  /\ IsFiniteSet(below(x)) /\ Cardinality(below(x)) \in Nat
             /\ rank[x] = Cardinality(below(x)) + 1 /\ rank[x] \in 1..C
  <2>1. below(x) \in SUBSET set /\ x \notin below(x)
    OBVIOUS
  <2>2. IsFiniteSet(below(x)) /\ Cardinality(below(x)) <= C /\ Cardinality(below(x)) # C
    BY <2>1, FS_Subset
  <2>3. Cardinality(below(x)) \in Nat
    BY <2>2, FS_CardinalityType
  <2>4. rank[x] = Cardinality(below(x)) + 1
    OBVIOUS
  <2> HIDE DEF rank, below
  <2> QED
    BY <1>1, <2>2, <2>3, <2>4
<1>3. ASSUME NEW x \in set, NEW y \in set, <<x, y>> \in before PROVE rank[x] < rank[y]
  <2>1. below(x) \in SUBSET below(y) /\ x \in below(y) /\ x \notin below(x)
    BY <1>3
  <2>2. Cardinality(below(x)) <= Cardinality(below(y)) /\ Cardinality(below(x)) # Cardinality(below(y))
    BY <1>2, <2>1, FS_Subset
  <2> HIDE DEF rank, below
  <2> QED
    BY <1>2, <2>2
<1>4. \A x, y \in set : rank[x] = rank[y] => x = y
  <2> SUFFICES ASSUME NEW x \in set, NEW y \in set, x # y PROVE rank[x] # rank[y]
    OBVIOUS
  <2>1. rank[x] < rank[y] \/ rank[y] < rank[x]
    BY <1>3
  <2> HIDE DEF rank, below
  <2> QED
    BY <1>2, <2>1
<1>5. rank \in Injection(set, 1..C)
  <2>1. rank \in [set -> 1..C]
    BY <1>2
  <2> HIDE DEF rank
  <2> QED
    BY <1>4, <2>1 DEF Injection, IsInjective
<1>6. IsFiniteSet(1..C) /\ Cardinality(1..C) = C
  BY <1>1, FS_Interval
<1>7. rank \in Surjection(set, 1..C)
  BY <1>1, <1>5, <1>6, FS_Injection
<1>8. \A n \in 1..C : \E x \in set : rank[x] = n
  BY <1>7 DEF Surjection
<1>9. told = [n \in 1..C |-> CHOOSE x \in set : Cardinality(below(x)) = n - 1]
  BY DEF InOrder
<1>10. ASSUME NEW n \in 1..C PROVE told[n] \in set /\ rank[told[n]] = n
  <2>1. PICK x \in set : rank[x] = n
    BY <1>8
  <2>2. Cardinality(below(x)) = n - 1
    <3>1. rank[x] = Cardinality(below(x)) + 1 /\ Cardinality(below(x)) \in Nat
      BY <1>2
    <3> HIDE DEF rank, below
    <3> QED
      BY <2>1, <3>1
  <2>3. told[n] = CHOOSE y \in set : Cardinality(below(y)) = n - 1
    BY <1>9
  <2>4. told[n] \in set /\ Cardinality(below(told[n])) = n - 1
    BY <2>2, <2>3
  <2> QED
    BY <2>4
<1>11. DOMAIN told = 1..C /\ Len(told) = C
  BY <1>1, <1>9
<1> HIDE DEF told, rank
<1>12. ASSUME NEW x \in set PROVE \E n \in 1..C : told[n] = x
  <2>1. rank[x] \in 1..C /\ told[rank[x]] \in set /\ rank[told[rank[x]]] = rank[x]
    BY <1>2, <1>10
  <2> QED
    BY <1>4, <2>1
<1>13. ASSUME NEW m \in 1..C, NEW n \in 1..C, m < n PROVE <<told[m], told[n]>> \in before
  <2>1. told[m] \in set /\ told[n] \in set /\ rank[told[m]] = m /\ rank[told[n]] = n
    BY <1>10
  <2>2. told[m] # told[n] /\ ~ (<<told[n], told[m]>> \in before)
    <3>1. ASSUME <<told[n], told[m]>> \in before PROVE FALSE
      <4>1. n < m
        BY <1>3, <2>1, <3>1
      <4> QED
        BY <1>13, <4>1
    <3> QED
      BY <1>13, <2>1, <3>1
  <2> QED
    BY <2>1, <2>2
<1> QED
  BY <1>1, <1>10, <1>11, <1>12, <1>13 DEF told

\* Two elements at m < n that differ: somewhere between them two neighbours differ.
LEMMA ChangeBetween ==
  ASSUME NEW N \in Nat, NEW f, DOMAIN f = 1..N, NEW m \in 1..N, NEW n \in 1..N, m < n, f[m] # f[n]
  PROVE  \E k \in m..(n - 1) : f[k] # f[k+1]
<1> DEFINE other == { k \in m..n : f[k] # f[m] }
<1>1. other \subseteq Nat /\ n \in other
  OBVIOUS
<1>2. PICK k \in other : \A j \in other : k <= j
  BY <1>1, FirstExists
<1>3. k \in (m+1)..n /\ k - 1 \notin other /\ k - 1 \in m..(n - 1)
  <2>1. k \in m..n /\ k # m
    OBVIOUS
  <2>2. ~ (k <= k - 1)
    BY <2>1
  <2> QED
    BY <1>2, <2>1, <2>2
<1>4. f[k-1] = f[m] /\ f[k] # f[m] /\ (k - 1) + 1 = k
  BY <1>3
<1> QED
  BY <1>3, <1>4

---------------------------------------------------------------------------
(* Files: a row appended.                                                  *)

\* The same rows about calls; and these or none.
Same(f, g) == CallRows(g) = CallRows(f) /\ \A k \in CallRows(f) : g[k] = f[k]
Quiet(f, g) == CallRows(g) = {} \/ Same(f, g)

LEMMA Grown ==
  ASSUME NEW S, NEW f \in Seq(S), NEW e \in S
  PROVE  LET g == Append(f, e)
         IN  /\ g \in Seq(S) /\ Len(f) \in Nat /\ Len(g) = Len(f) + 1
             /\ DOMAIN f = 1..Len(f) /\ DOMAIN g = 1..(Len(f) + 1)
             /\ g[Len(f) + 1] = e /\ \A n \in DOMAIN f : n \in DOMAIN g /\ g[n] = f[n]
             /\ \A n \in DOMAIN g : n \in DOMAIN f \/ n = Len(f) + 1
<1> DEFINE g == Append(f, e)
<1>1. /\ g \in Seq(S) /\ DOMAIN f = 1..Len(f) /\ Len(f) \in Nat /\ Len(g) = Len(f) + 1
      /\ DOMAIN g = 1..(Len(f) + 1) /\ g[Len(f) + 1] = e /\ \A k \in 1..Len(f) : g[k] = f[k]
  OBVIOUS
<1> HIDE DEF g
<1> QED
  BY <1>1 DEF g

LEMMA Entered ==
  ASSUME NEW f \in Seq(Rows), NEW row \in Rows
  PROVE  LET g == Append(f, row)
         IN  /\ g \in Seq(Rows) /\ Len(f) \in Nat /\ DOMAIN f = 1..Len(f) /\ DOMAIN g = 1..(Len(f) + 1)
             /\ g[Len(f) + 1] = row /\ \A k \in DOMAIN f : k \in DOMAIN g /\ g[k] = f[k]
             /\ \A k \in DOMAIN g : k \in DOMAIN f \/ k = Len(f) + 1
             /\ \A k \in CallRows(f) : k \in CallRows(g) /\ k \in 1..Len(f)
             /\ \A k \in CallRows(g) : k \in CallRows(f) \/ (k = Len(f) + 1 /\ row.row.kind \in {"call", "result"})
<1> DEFINE g == Append(f, row)
<1>1. /\ g \in Seq(Rows) /\ Len(f) \in Nat /\ DOMAIN f = 1..Len(f) /\ DOMAIN g = 1..(Len(f) + 1)
      /\ g[Len(f) + 1] = row
      /\ \A k \in DOMAIN f : k \in DOMAIN g /\ g[k] = f[k]
      /\ \A k \in DOMAIN g : k \in DOMAIN f \/ k = Len(f) + 1
  BY Grown
<1> HIDE DEF g
<1>2. \A k \in CallRows(f) : k \in CallRows(g) /\ k \in 1..Len(f)
  BY <1>1 DEF CallRows
<1>3. ASSUME NEW k \in CallRows(g)
      PROVE  k \in CallRows(f) \/ (k = Len(f) + 1 /\ row.row.kind \in {"call", "result"})
  BY <1>1 DEF CallRows
<1> QED
  BY <1>1, <1>2, <1>3 DEF g

LEMMA RowAppended ==
  ASSUME NEW f \in Seq(Rows), NEW row \in Rows, row.row.kind \notin {"call", "result"}
  PROVE  Append(f, row) \in Seq(Rows) /\ Same(f, Append(f, row))
<1> DEFINE g == Append(f, row)
<1>1. /\ g \in Seq(Rows) /\ \A k \in CallRows(f) : k \in CallRows(g) /\ g[k] = f[k]
      /\ \A k \in CallRows(g) : k \in CallRows(f)
  BY Entered DEF CallRows
<1> HIDE DEF g
<1> QED
  BY <1>1 DEF Same, g

\* The rows that are not about a call.
LEMMA OtherRows ==
  ASSUME NEW r \in Nat
  PROVE  /\ Plain(EndRow, r) \in Rows /\ Plain(EndRow, r).row.kind = "end" /\ Plain(EndRow, r).run = r
         /\ Plain(DiscoverRow, r) \in Rows /\ Plain(DiscoverRow, r).row.kind = "discover"
         /\ \A reason \in {"proxy_start_failed", "transport"}, after \in Ids \cup {NoAnchor} :
               /\ Plain(GapRow(reason, after), r) \in Rows
               /\ Plain(GapRow(reason, after), r).row.kind = "gap"
<1>1. Plain(EndRow, r) \in Rows /\ Plain(EndRow, r).row.kind = "end" /\ Plain(EndRow, r).run = r
  BY DEF Plain, Stamped, EndRow, Rows
<1>2. Plain(DiscoverRow, r) \in Rows /\ Plain(DiscoverRow, r).row.kind = "discover"
  BY DEF Plain, Stamped, DiscoverRow, Rows
<1>3. ASSUME NEW reason \in {"proxy_start_failed", "transport"}, NEW after \in Ids \cup {NoAnchor}
      PROVE  /\ Plain(GapRow(reason, after), r) \in Rows
             /\ Plain(GapRow(reason, after), r).row.kind = "gap"
  BY DEF Plain, Stamped, GapRow, Rows, Gaps
<1> QED
  BY <1>1, <1>2, <1>3

---------------------------------------------------------------------------
(* What every step needs.                                                  *)

\* Where the numbers are, and of which types the sequences.
LEMMA Naturals ==
  ASSUME IInv
  PROVE  /\ run \in Nat /\ run >= 1 /\ run \in 1..MaxRuns /\ MaxRuns \in Nat
         /\ clock \in Nat /\ manifest.run \in Nat /\ manifest.run <= run
         /\ \A n \in DOMAIN made : made[n] \in MadeCalls /\ made[n].run \in Nat /\ made[n].run <= run
         /\ Len(made) \in Nat /\ DOMAIN made = 1..Len(made) /\ made \in Seq(MadeCalls)
         /\ \A s \in Servers : files[s] \in Seq(Rows) /\ \A k \in DOMAIN files[s] : files[s][k] \in Rows
<1>1. run \in Nat /\ run >= 1 /\ clock \in Nat /\ MaxRuns \in Nat /\ run \in 1..MaxRuns
  BY WatchAssumption DEF IInv, TypeInv
<1>2. made \in Seq(MadeCalls) /\ Len(made) \in Nat /\ DOMAIN made = 1..Len(made)
  BY DEF IInv, TypeInv
<1>3. ASSUME NEW n \in DOMAIN made PROVE made[n] \in MadeCalls /\ made[n].run \in Nat /\ made[n].run <= run
  <2>1. made[n] \in MadeCalls
    BY <1>2
  <2> QED
    BY <2>1 DEF IInv, MadeInv, MadeCalls
<1>4. \A s \in Servers : files[s] \in Seq(Rows) /\ \A k \in DOMAIN files[s] : files[s][k] \in Rows
  BY DEF IInv, TypeInv
<1> QED
  BY <1>1, <1>2, <1>3, <1>4 DEF IInv, ManifestInv

\* The rows about calls, typed.
LEMMA CallRowType ==
  ASSUME IInv, NEW s \in Servers, NEW k \in CallRows(files[s])
  PROVE  /\ files[s][k] \in Rows /\ files[s][k].row.event \in Events /\ files[s][k].row.event.index \in Nat
         /\ files[s][k].run \in Nat /\ files[s][k].at \in Nat /\ k \in Nat
         /\ files[s][k].row.kind \in {"call", "result"}
<1>1. files[s][k] \in Rows /\ files[s][k].row.kind \in {"call", "result"} /\ k \in Nat
  BY Naturals DEF CallRows
<1>2. files[s][k].row.event \in Events /\ files[s][k].run \in Nat /\ files[s][k].at \in Nat
  BY <1>1 DEF Rows
<1> QED
  BY <1>1, <1>2 DEF Events

\* A run with a server that has a command or a url has its own manifest in force.
LEMMA InForce ==
  ASSUME IInv, Running, NEW s \in Servers, config[s] \in {"stdio", "both", "http"}
  PROVE  Found /\ manifest = ThisManifest /\ manifest.run = run
<1>1. config # NoConfig
  BY DEF NoConfig
<1> QED
  BY <1>1 DEF IInv, ManifestInv, ThisManifest

LEMMA BackedKept ==
  ASSUME NEW event, NEW r \in Nat, NEW moment \in Nat, Backed(event, r, moment),
         clock \in Nat, clock' \in Nat, clock <= clock',
         manifest.run \in Nat, manifest'.run \in Nat, manifest.run <= manifest'.run,
         \A n \in DOMAIN made : n \in DOMAIN made' /\ made'[n] = made[n]
  PROVE  /\ event.index + 1 \in DOMAIN made'
         /\ made'[event.index + 1].id = event.id /\ made'[event.index + 1].run = r
         /\ moment <= clock' /\ r <= manifest'.run
  BY DEF Backed

---------------------------------------------------------------------------
(* What a step that adds no call leaves as it was.                         *)

LEMMA QuietFiles ==
  ASSUME IInv, made' = made, clock' = clock, open' \subseteq open, run' \in Nat, run <= run',
         manifest'.run \in Nat, manifest.run <= manifest'.run,
         \A s \in Servers : Quiet(files[s], files'[s]),
         \A c \in open' : c.run = run' =>
            /\ Same(files[c.server], files'[c.server])
            /\ config'[c.server] \in {"stdio", "both"} => proxy'[c.server] = "running"
  PROVE  RowsInv' /\ FirstInv' /\ OpenInv' /\ OrderInv'
<1>1. /\ clock \in Nat /\ clock <= clock' /\ manifest.run \in Nat /\ run \in Nat /\ manifest.run <= run
      /\ \A n \in DOMAIN made : n \in DOMAIN made' /\ made'[n] = made[n]
  BY Naturals
<1>2. ASSUME NEW s \in Servers, NEW k \in CallRows(files'[s])
      PROVE  k \in CallRows(files[s]) /\ files'[s][k] = files[s][k] /\ Same(files[s], files'[s])
  BY <1>2 DEF Quiet, Same
<1>3. RowsInv'
  <2> SUFFICES ASSUME NEW s \in Servers, NEW k \in CallRows(files'[s])
               PROVE  Backed(files[s][k].row.event, files[s][k].run, files[s][k].at)'
    BY <1>2 DEF RowsInv, Backed
  <2>1. k \in CallRows(files[s]) /\ files'[s][k] = files[s][k]
    BY <1>2
  <2>2. Backed(files[s][k].row.event, files[s][k].run, files[s][k].at)
    BY <2>1 DEF IInv, RowsInv
  <2>3. files[s][k].run \in Nat /\ files[s][k].at \in Nat
    BY <2>1, CallRowType
  <2> QED
    BY <1>1, <2>1, <2>2, <2>3 DEF Backed
<1>4. FirstInv'
  <2> SUFFICES ASSUME NEW s \in Servers, NEW k \in CallRows(files'[s]),
                      files'[s][k].row.kind = "result", files'[s][k].run = run'
               PROVE  \E j \in CallRows(files'[s]) : 
                         /\ j < k /\ files'[s][j].row.kind = "call" /\ files'[s][j].run = run'
                         /\ files'[s][j].row.event.index = files'[s][k].row.event.index
    BY DEF FirstInv, CallAt
  <2>1. k \in CallRows(files[s]) /\ files'[s][k] = files[s][k] /\ Same(files[s], files'[s])
    BY <1>2
  <2>2. run' = run
    <3>1. files[s][k].run <= manifest.run /\ files[s][k].run \in Nat
      BY <2>1, CallRowType DEF IInv, RowsInv, Backed
    <3> QED
      BY <1>1, <2>1, <3>1
  <2>3. PICK j \in CallRows(files[s]) : j < k /\ CallAt(files[s], j, files[s][k].row.event.index)
    BY <2>1, <2>2 DEF IInv, FirstInv
  <2>4. j \in CallRows(files'[s]) /\ files'[s][j] = files[s][j]
    BY <2>1 DEF Same
  <2> QED
    BY <2>1, <2>2, <2>3, <2>4 DEF CallAt
<1>5. OpenInv'
  <2> SUFFICES ASSUME NEW c \in open'
               PROVE  /\ Backed(c.event, c.run, c.at)'
                      /\ c.run = run' =>
                            /\ config'[c.server] \in {"stdio", "both"} => proxy'[c.server] = "running"
                            /\ \E k \in CallRows(files'[c.server]) :
                                  /\ files'[c.server][k].row.kind = "call" /\ files'[c.server][k].run = run'
                                  /\ files'[c.server][k].row.event.index = c.event.index
    BY DEF OpenInv, CallAt
  <2>1. c \in open /\ c \in OpenCalls /\ Backed(c.event, c.run, c.at)
    BY DEF IInv, TypeInv, OpenInv
  <2>2. c.run \in Nat /\ c.at \in Nat /\ c.server \in Servers
    BY <2>1 DEF OpenCalls
  <2>3. Backed(c.event, c.run, c.at)'
    BY <1>1, <2>1, <2>2 DEF Backed
  <2>4. ASSUME c.run = run'
        PROVE  \E k \in CallRows(files'[c.server]) :
                  /\ files'[c.server][k].row.kind = "call" /\ files'[c.server][k].run = run'
                  /\ files'[c.server][k].row.event.index = c.event.index
    <3>1. c.run = run
      BY <1>1, <2>1, <2>2, <2>4 DEF Backed
    <3>2. PICK k \in CallRows(files[c.server]) : CallAt(files[c.server], k, c.event.index)
      BY <2>1, <3>1 DEF IInv, OpenInv
    <3>3. k \in CallRows(files'[c.server]) /\ files'[c.server][k] = files[c.server][k]
      BY <2>4 DEF Same
    <3> QED
      BY <2>4, <3>1, <3>2, <3>3 DEF CallAt
  <2> QED
    BY <2>3, <2>4
<1>6. OrderInv'
  <2> SUFFICES ASSUME NEW s \in Servers, NEW t \in Servers,
                      NEW j \in CallRows(files'[s]), NEW k \in CallRows(files'[t]),
                      files'[s][j].row.kind = "call", files'[t][k].row.kind = "call",
                      files'[s][j].row.event.index < files'[t][k].row.event.index
               PROVE  /\ files'[s][j].at <= files'[t][k].at
                      /\ s = t => j < k
    BY DEF OrderInv
  <2>1. /\ j \in CallRows(files[s]) /\ files'[s][j] = files[s][j]
        /\ k \in CallRows(files[t]) /\ files'[t][k] = files[t][k]
    BY <1>2
  <2> QED
    BY <2>1 DEF IInv, OrderInv
<1> QED
  BY <1>3, <1>4, <1>5, <1>6

LEMMA CallAdded ==
  ASSUME made \in Seq(MadeCalls), NEW call \in MadeCalls, made' = Append(made, call)
  PROVE  /\ Len(made) \in Nat /\ DOMAIN made = 1..Len(made) /\ DOMAIN made' = 1..(Len(made) + 1)
         /\ made' \in Seq(MadeCalls) /\ Len(made') = Len(made) + 1
         /\ made'[Len(made) + 1] = call /\ \A n \in DOMAIN made : n \in DOMAIN made' /\ made'[n] = made[n]
         /\ \A n \in DOMAIN made' : n \in DOMAIN made \/ n = Len(made) + 1
<1>1. LET g == Append(made, call)
      IN  /\ g \in Seq(MadeCalls) /\ Len(made) \in Nat /\ Len(g) = Len(made) + 1
          /\ DOMAIN made = 1..Len(made) /\ DOMAIN g = 1..(Len(made) + 1)
          /\ g[Len(made) + 1] = call /\ \A n \in DOMAIN made : n \in DOMAIN g /\ g[n] = made[n]
          /\ \A n \in DOMAIN g : n \in DOMAIN made \/ n = Len(made) + 1
  BY Grown
<1> QED
  BY <1>1

\* What has been published of an earlier run is not touched by what this run does, and a
\* call is not made in a run that has published a complete trace.
LEMMA PublishedKept ==
  ASSUME IInv, published' = published, run' \in Nat, run <= run', hasty \subseteq hasty',
         pc # "assembled" \/ pc' = pc \/ run < run',
         \/ made' = made
         \/ \E call \in MadeCalls : /\ made' = Append(made, call)
                                    /\ Len(made) + 1 \in DOMAIN CallIds /\ call.id = CallIds[Len(made) + 1]
                                    /\ call.run \in 1..MaxRuns
                                    /\ OneTransport => ~published[call.run].complete
  PROVE  PublishedInv'
<1> DEFINE N == Len(made) + 1
<1>1. /\ run \in Nat /\ DOMAIN published = 1..MaxRuns /\ made \in Seq(MadeCalls)
      /\ Len(made) \in Nat /\ DOMAIN made = 1..Len(made)
  BY WatchAssumption DEF IInv, TypeInv
<1>2. ASSUME NEW r \in 1..MaxRuns, r > run' \/ (r = run' /\ pc' # "assembled") PROVE published[r] = NoTrace
  <2>1. r > run \/ (r = run /\ pc # "assembled")
    BY <1>1, <1>2, WatchAssumption
  <2> QED
    BY <2>1 DEF IInv, PublishedInv
<1>3. /\ \A n \in DOMAIN made : n \in DOMAIN made' /\ made'[n] = made[n]
      /\ \A n \in DOMAIN made' \ DOMAIN made :
            /\ n = N /\ N \in DOMAIN CallIds /\ made'[n].id = CallIds[N]
            /\ OneTransport => ~published[made'[n].run].complete
  <2>1. CASE made' = made
    BY <2>1
  <2>2. CASE made' # made
    <3>1. PICK call \in MadeCalls : /\ made' = Append(made, call)
                                    /\ N \in DOMAIN CallIds /\ call.id = CallIds[N]
                                    /\ OneTransport => ~published[call.run].complete
      BY <2>2
    <3>2. /\ made'[N] = call /\ \A n \in DOMAIN made : n \in DOMAIN made' /\ made'[n] = made[n]
          /\ \A n \in DOMAIN made' : n \in DOMAIN made \/ n = N
      BY <1>1, <3>1, CallAdded
    <3> HIDE DEF N
    <3> QED
      BY <3>1, <3>2
  <2> QED
    BY <2>1, <2>2
<1>4. \A r \in 1..MaxRuns : CallsOf(r) \subseteq CallsOf(r)'
  BY <1>3 DEF CallsOf
<1> HIDE DEF N
<1>5. FoundAgain => PublishedIsThisRun'
  BY <1>4 DEF IInv, PublishedInv, PublishedIsThisRun
<1>6. FoundAgain /\ OneTransport => CompleteIsWhole'
  <2> SUFFICES ASSUME FoundAgain, OneTransport, NEW r \in (1..MaxRuns) \ hasty', published[r].complete
               PROVE  CallsOf(r)' \subseteq ToSet(published[r].events)
    BY DEF CompleteIsWhole
  <2>1. CallsOf(r)' \subseteq CallsOf(r)
    <3> SUFFICES ASSUME NEW n \in DOMAIN made', made'[n].run = r
                 PROVE  n \in DOMAIN made /\ made'[n] = made[n]
      BY DEF CallsOf
    <3> QED
      BY <1>3
  <2>2. CallsOf(r) \subseteq ToSet(published[r].events)
    BY DEF IInv, PublishedInv, CompleteIsWhole
  <2> QED
    BY <2>1, <2>2
<1>7. FoundAgain /\ IdsOnce => OrderIsObserved'
  <2> SUFFICES ASSUME FoundAgain, IdsOnce, NEW r \in 1..MaxRuns, published[r].complete,
                      NEW i \in DOMAIN made', NEW j \in DOMAIN made',
                      i < j, made'[i].run = r, made'[j].run = r,
                      NEW m \in DOMAIN published[r].events, NEW n \in DOMAIN published[r].events,
                      published[r].events[m] = made'[i].id, published[r].events[n] = made'[j].id
               PROVE  m < n
    BY DEF OrderIsObserved
  \* What a trace tells was made before it was published.
  <2>1. ASSUME NEW q \in DOMAIN made', made'[q].id \in ToSet(published[r].events)
        PROVE  q \in DOMAIN made /\ made'[q] = made[q]
    <3>1. PICK p \in DOMAIN made : made[p].id = made'[q].id
      BY <2>1 DEF IInv, PublishedInv, PublishedIsThisRun, CallsOf
    <3>2. made[p].id = CallIds[p] /\ p \in DOMAIN CallIds /\ p # N
      BY <1>1, WatchAssumption DEF IInv, MadeInv, N
    <3>3. ASSUME q \notin DOMAIN made PROVE FALSE
      <4>1. N \in DOMAIN CallIds /\ made'[q].id = CallIds[N]
        BY <1>3, <3>3
      <4> QED
        BY <3>1, <3>2, <4>1 DEF IdsOnce
    <3> QED
      BY <1>3, <3>3
  <2>2. made'[i].id \in ToSet(published[r].events) /\ made'[j].id \in ToSet(published[r].events)
    BY DEF ToSet
  <2>3. i \in DOMAIN made /\ made'[i] = made[i] /\ j \in DOMAIN made /\ made'[j] = made[j]
    BY <2>1, <2>2
  <2> QED
    BY <2>3 DEF IInv, PublishedInv, OrderIsObserved
<1> QED
  BY <1>2, <1>5, <1>6, <1>7 DEF PublishedInv

\* A run that has published a complete trace stays without a proxy.
LEMMA DoneKept ==
  ASSUME IInv, published' = published, run' = run,
         \A s \in Servers : /\ stray'[s] \in {0, stray[s]}
                            /\ proxy'[s] = "running" => proxy[s] = "running" \/ pc # "assembled"
  PROVE  DoneInv'
<1> SUFFICES ASSUME OneTransport, NEW r \in 1..MaxRuns, published[r].complete, NEW s \in Servers
             PROVE  stray'[s] # r /\ (r = run => proxy'[s] # "running")
  BY DEF DoneInv
<1>1. stray[s] # r /\ (r = run => proxy[s] # "running")
  BY DEF IInv, DoneInv
<1>2. r = run => pc = "assembled"
  BY DEF IInv, PublishedInv, NoTrace
<1>3. r # 0
  BY WatchAssumption
<1> QED
  BY <1>1, <1>2, <1>3

\* A call that went through a recorder stays in its file.
LEMMA HeldKept ==
  ASSUME IInv, run' = run, made' = made, config' = config, listeners' = listeners, hasty \subseteq hasty',
         \A s \in Servers : \/ Same(files[s], files'[s]) /\ (proxy[s] # "none" => proxy'[s] # "none")
                            \/ config[s] \in {"stdio", "both"} /\ (proxy[s] = "none" \/ run \in hasty')
  PROVE  HeldInv'
<1> SUFFICES ASSUME run \notin hasty', NEW n \in DOMAIN made, made[n].run = run, ~Direct(made[n].server)'
             PROVE  LET s == made[n].server
                    IN  /\ config[s] = "stdio" => proxy'[s] # "none"
                        /\ \E k \in CallRows(files'[s]) :
                              /\ files'[s][k].row.kind = "call" /\ files'[s][k].run = run
                              /\ files'[s][k].row.event.index = n - 1
  BY DEF HeldInv, CallAt
<1> DEFINE s == made[n].server
<1>1. s \in Servers /\ ~Direct(s) /\ config[s] # "both"
  BY Naturals DEF MadeCalls, Direct
<1>2. config[s] = "stdio" => proxy[s] # "none"
  BY <1>1 DEF IInv, HeldInv
<1>3. PICK k \in CallRows(files[s]) : CallAt(files[s], k, n - 1)
  BY <1>1 DEF IInv, HeldInv
<1>4. Same(files[s], files'[s]) /\ (proxy[s] # "none" => proxy'[s] # "none")
  BY <1>1, <1>2
<1>5. k \in CallRows(files'[s]) /\ files'[s][k] = files[s][k]
  BY <1>4 DEF Same
<1> QED
  BY <1>2, <1>3, <1>4, <1>5 DEF CallAt

\* No call has been made in a run whose agent has not been started.
LEMMA HeldByNone ==
  ASSUME IInv, made' = made, \A n \in DOMAIN made : made[n].run # run'
  PROVE  HeldInv'
  BY DEF HeldInv

\* No proxy runs before the agent, and none after its run.
LEMMA NoProxy ==
  ASSUME IInv, ~Running
  PROVE  \A s \in Servers : proxy[s] = "none"
  BY DEF IInv, ManifestInv

LEMMA InitInv == Init => IInv
<1> SUFFICES ASSUME Init PROVE IInv
  OBVIOUS
<1> USE DEF Init
<1>1. MaxRuns \in Nat /\ 1 \in 1..MaxRuns /\ 1 \in 1..MaxMoment
  BY WatchAssumption
<1>2. Absent \in Seq(Rows) /\ CallRows(Absent) = {} /\ <<>> \in Seq(MadeCalls)
  <2>1. [row |-> [kind |-> "absent"], run |-> 0, at |-> 0] \in Rows
    BY DEF Rows
  <2>2. Absent \in Seq(Rows)
    BY <2>1 DEF Absent
  <2>3. CallRows(Absent) = {}
    BY DEF Absent, CallRows
  <2> QED
    BY <2>2, <2>3
<1>3. TypeInv
  BY <1>1, <1>2 DEF TypeInv, NoConfig
<1>4. MadeInv
  BY WatchAssumption DEF MadeInv
<1>5. ManifestInv
  BY DEF ManifestInv, NoManifest, Running
<1>6. RowsInv /\ FirstInv /\ OpenInv /\ OrderInv /\ HeldInv /\ EndInv
  BY <1>2 DEF RowsInv, FirstInv, OpenInv, OrderInv, HeldInv, EndInv
<1>7. PublishedInv /\ DoneInv
  <2>1. NoTrace.events = <<>> /\ NoTrace.complete = FALSE /\ ToSet(NoTrace.events) = {}
    BY DEF NoTrace, ToSet
  <2>2. \A r \in 1..MaxRuns : published[r] = NoTrace
    OBVIOUS
  <2> QED
    BY <2>1, <2>2 DEF PublishedInv, DoneInv, PublishedIsThisRun, CompleteIsWhole, OrderIsObserved
<1> QED
  BY <1>3, <1>4, <1>5, <1>6, <1>7 DEF IInv

---------------------------------------------------------------------------
(* The steps of a run before the agent is there.                           *)

LEMMA NothingYet ==
  ASSUME IInv, ~Running
  PROVE  /\ \A c \in open : c.run # run
         /\ \A n \in DOMAIN made : made[n].run # run
         /\ \A s \in Servers : proxy[s] = "none"
<1>1. ASSUME NEW n \in DOMAIN made PROVE made[n].run # run
  BY Naturals DEF IInv, MadeInv, Running
<1>2. ASSUME NEW c \in open PROVE c.run # run
  BY <1>1 DEF IInv, OpenInv, Backed
<1> QED
  BY <1>1, <1>2, NoProxy

LEMMA Before ==
  ASSUME IInv, ~Running,
         UNCHANGED <<run, clock, made, open, proxy, stray, hasty, published>>,
         manifest'.run \in Nat, manifest.run <= manifest'.run,
         \A s \in Servers : Quiet(files[s], files'[s])
  PROVE  /\ RowsInv' /\ FirstInv' /\ OpenInv' /\ OrderInv' /\ HeldInv'
         /\ EndInv' /\ DoneInv' /\ PublishedInv'
<1>1. run \in Nat /\ pc # "assembled"
  BY Naturals DEF Running
<1>2. RowsInv' /\ FirstInv' /\ OpenInv' /\ OrderInv'
  <2>1. \A c \in open' : c.run # run'
    BY NothingYet
  <2>2. open' \subseteq open /\ run' \in Nat /\ run <= run'
    BY <1>1
  <2> QED
    BY <2>1, <2>2, QuietFiles
<1>3. HeldInv'
  BY NothingYet, HeldByNone
<1>4. EndInv'
  BY NothingYet DEF EndInv
<1>5. DoneInv'
  BY DoneKept
<1>6. PublishedInv'
  BY <1>1, PublishedKept
<1> QED
  BY <1>2, <1>3, <1>4, <1>5, <1>6

LEMMA ReadConfigStep == ASSUME IInv, ReadConfig PROVE IInv'
<1> USE DEF ReadConfig
<1>1. pc = "start" /\ ~Running /\ run \in Nat /\ run \in 1..MaxRuns /\ manifest.run \in Nat
  BY Naturals DEF Running
<1>2. manifest.run < run /\ config = NoConfig /\ listeners = {}
  BY <1>1 DEF IInv, ManifestInv
<1>3. config' \in [Servers -> AllShapes \cup {"no_config"}]
  BY <1>1, WatchAssumption DEF NoConfig
<1>4. TypeInv'
  BY <1>2, <1>3 DEF IInv, TypeInv
<1>5. MadeInv'
  BY DEF IInv, MadeInv
<1>6. ManifestInv'
  <2>1. \A s \in Servers : proxy'[s] = "none" /\ stray'[s] <= manifest'.run
    BY <1>1, NothingYet DEF IInv, ManifestInv
  <2>2. CASE config' # NoConfig /\ pc' = "listen"
    BY <1>1, <1>2, <2>1, <2>2 DEF IInv, ManifestInv, Running, Found
  <2>3. CASE config' = NoConfig /\ pc' = "child"
    <3>1. FoundAgain => manifest = NoManifest
      <4> SUFFICES ASSUME FoundAgain, manifest # NoManifest PROVE FALSE
        OBVIOUS
      <4>1. manifest.run >= 1 /\ Finds(manifest.run)
        BY DEF IInv, ManifestInv
      <4>2. manifest.run \in 1..MaxRuns
        BY <1>1, <1>2, <4>1, WatchAssumption
      <4>3. NoConfig \notin Configs[run]
        BY <1>1, <1>2, <4>1, <4>2 DEF FoundAgain
      <4> QED
        BY <2>3, <4>3
    <3> QED
      BY <1>1, <1>2, <2>1, <2>3, <3>1 DEF IInv, ManifestInv, Running
  <2> QED
    BY <2>2, <2>3
<1>7. /\ RowsInv' /\ FirstInv' /\ OpenInv' /\ OrderInv' /\ HeldInv'
      /\ EndInv' /\ DoneInv' /\ PublishedInv'
  <2>1. \A s \in Servers : Quiet(files[s], files'[s])
    BY DEF Quiet, Same
  <2> QED
    BY <1>1, <2>1, Before
<1> QED
  BY <1>4, <1>5, <1>6, <1>7 DEF IInv

LEMMA ListenStep == ASSUME IInv, NEW bound \in SUBSET Servers, Listen(bound) PROVE IInv'
<1> USE DEF Listen
<1>1. pc = "listen" /\ ~Running /\ run \in Nat /\ manifest.run \in Nat
  BY Naturals DEF Running
<1>2. \A s \in Servers : files'[s] \in Seq(Rows) /\ Quiet(files[s], files'[s])
  <2> TAKE s \in Servers
  <2>1. CASE s \in bound
    <3>1. files'[s] = <<>>
      BY <2>1
    <3>2. <<>> \in Seq(Rows) /\ CallRows(<<>>) = {}
      BY DEF CallRows
    <3> QED
      BY <3>1, <3>2 DEF Quiet
  <2>2. CASE s \notin bound /\ s \in Remote
    <3> DEFINE gap == Plain(GapRow("proxy_start_failed", NoAnchor), run)
               end == Plain(EndRow, run)
    <3>1. files'[s] = <<gap, end>>
      BY <2>2
    <3>2. gap \in Rows /\ end \in Rows /\ gap.row.kind = "gap" /\ end.row.kind = "end"
      BY <1>1, OtherRows
    <3> HIDE DEF gap, end
    <3>3. <<gap, end>> \in Seq(Rows) /\ CallRows(<<gap, end>>) = {}
      BY <3>2 DEF CallRows
    <3> QED
      BY <3>1, <3>3 DEF Quiet
  <2>3. CASE s \notin bound /\ s \notin Remote
    <3>1. files'[s] = files[s] /\ files[s] \in Seq(Rows)
      BY <2>3, Naturals
    <3> QED
      BY <3>1 DEF Quiet, Same
  <2> QED
    BY <2>1, <2>2, <2>3
<1>3. TypeInv'
  <2>1. files' \in [Servers -> Seq(Rows)]
    <3>1. DOMAIN files' = Servers /\ files' = [s \in Servers |-> files'[s]]
      OBVIOUS
    <3> QED
      BY <1>2, <3>1
  <2>2. listeners' \subseteq Remote'
    BY DEF Remote, With
  <2> QED
    BY <2>1, <2>2 DEF IInv, TypeInv
<1>4. MadeInv'
  BY DEF IInv, MadeInv
<1>5. ManifestInv'
  BY <1>1 DEF IInv, ManifestInv, Running, Found
<1>6. /\ RowsInv' /\ FirstInv' /\ OpenInv' /\ OrderInv' /\ HeldInv'
      /\ EndInv' /\ DoneInv' /\ PublishedInv'
  <2>1. UNCHANGED <<run, clock, made, open, proxy, stray, hasty, published, manifest>>
    OBVIOUS
  <2> HIDE DEF Listen
  <2> QED
    BY <1>1, <1>2, <2>1, Before
<1> QED
  BY <1>3, <1>4, <1>5, <1>6 DEF IInv

\* Closing a listener adds a row to its file and touches none.
LEMMA Closing ==
  ASSUME IInv, CloseListeners
  PROVE  /\ files' \in [Servers -> Seq(Rows)]
         /\ \A s \in Servers : /\ files'[s] \in Seq(Rows) /\ Same(files[s], files'[s])
                               /\ s \notin listeners => files'[s] = files[s]
<1> DEFINE end == Plain(EndRow, run)
<1>1. end \in Rows /\ end.row.kind = "end" /\ \A s \in Servers : files[s] \in Seq(Rows)
  BY Naturals, OtherRows
<1>2. files' = [s \in Servers |-> IF s \in listeners THEN Append(files[s], end) ELSE files[s]]
  BY DEF CloseListeners
<1> HIDE DEF end
<1>3. ASSUME NEW s \in Servers
      PROVE  /\ files'[s] \in Seq(Rows) /\ Same(files[s], files'[s])
             /\ s \notin listeners => files'[s] = files[s]
  <2>1. CASE s \in listeners
    <3>1. files'[s] = Append(files[s], end)
      BY <1>2, <2>1
    <3> QED
      BY <1>1, <2>1, <3>1, RowAppended
  <2>2. CASE s \notin listeners
    <3>1. files'[s] = files[s]
      BY <1>2, <2>2
    <3> QED
      BY <1>1, <3>1 DEF Same
  <2> QED
    BY <2>1, <2>2
<1>4. files' \in [Servers -> Seq(Rows)]
  BY <1>2, <1>3
<1> QED
  BY <1>3, <1>4

LEMMA RewriteStep == ASSUME IInv, Rewrite PROVE IInv'
<1>1. /\ pc = "rewrite" /\ pc' \in {"aborted", "child"} /\ ~Running
      /\ UNCHANGED <<run, config, listeners, proxy, stray, open, clock, made, hasty, published>>
  BY DEF Rewrite, Running
<1>2. /\ run \in Nat /\ run >= 1 /\ run \in 1..MaxRuns /\ manifest.run \in Nat /\ manifest.run < run /\ Found
      /\ \A s \in Servers : proxy[s] = "none" /\ stray[s] < run /\ stray[s] \in Nat
  BY <1>1, Naturals, NothingYet DEF IInv, TypeInv, ManifestInv
<1>3. \/ pc' = "aborted" /\ manifest' = manifest
      \/ pc' = "child" /\ manifest' = ThisManifest
  BY DEF Rewrite, ThisManifest
<1>4. /\ files' \in [Servers -> Seq(Rows)]
      /\ \A s \in Servers : Quiet(files[s], files'[s])
  <2>1. CASE CloseListeners
    BY <2>1, Closing DEF Quiet
  <2>2. CASE UNCHANGED files
    BY <2>2 DEF Quiet, Same, IInv, TypeInv
  <2> QED
    BY <2>1, <2>2 DEF Rewrite
<1>5. ThisManifest.run = run /\ ThisManifest' = ThisManifest /\ Found' = Found
  BY <1>1 DEF ThisManifest, With, Found
<1>6. TypeInv'
  <2>1. listeners' \subseteq Remote'
    BY <1>1 DEF IInv, TypeInv, Remote, With
  <2> QED
    BY <1>1, <1>4, <2>1 DEF IInv, TypeInv
<1>7. MadeInv'
  BY <1>1 DEF IInv, MadeInv
<1>8. ManifestInv'
  <2>1. CASE pc' = "aborted" /\ manifest' = manifest
    BY <1>1, <1>2, <2>1 DEF IInv, ManifestInv, Running
  <2>2. CASE pc' = "child" /\ manifest' = ThisManifest
    <3>1. manifest'.run = run /\ Finds(run)
      BY <1>2, <1>5, <2>2 DEF Found, Finds
    <3>2. \A s \in Servers : proxy'[s] = "none" /\ stray'[s] <= manifest'.run
      BY <1>1, <1>2, <3>1
    <3> QED
      BY <1>1, <1>2, <1>5, <2>2, <3>1, <3>2 DEF ManifestInv, Running
  <2> QED
    BY <1>3, <2>1, <2>2
<1>9. /\ RowsInv' /\ FirstInv' /\ OpenInv' /\ OrderInv' /\ HeldInv'
      /\ EndInv' /\ DoneInv' /\ PublishedInv'
  <2>1. manifest'.run \in Nat /\ manifest.run <= manifest'.run
    BY <1>2, <1>3, <1>5
  <2> QED
    BY <1>1, <1>4, <2>1, Before
<1> QED
  BY <1>6, <1>7, <1>8, <1>9 DEF IInv

---------------------------------------------------------------------------
(* The steps of the agent and of the transports that add no call.          *)

\* What no step between the rewriting and the assembling touches.
LEMMA SameRun ==
  ASSUME IInv, UNCHANGED <<run, config, listeners, manifest, clock, made, published>>,
         pc' = pc \/ (pc = "child" /\ pc' = "ended"),
         files' \in [Servers -> Seq(Rows)], open' \subseteq open, hasty \subseteq hasty', hasty' \subseteq 1..run,
         proxy' \in [Servers -> {"none", "running", "gone"}], stray' \in [Servers -> Nat],
         \A s \in Servers :
            /\ stray'[s] \in {0, stray[s]}
            /\ proxy'[s] # "none" => Running /\ config[s] \in {"stdio", "both"}
            /\ proxy'[s] = "running" => proxy[s] = "running" \/ pc # "assembled"
            /\ \/ Same(files[s], files'[s]) /\ (proxy[s] # "none" => proxy'[s] # "none")
               \/ /\ CallRows(files'[s]) = {} /\ config[s] \in {"stdio", "both"}
                  /\ proxy[s] # "running" /\ (proxy[s] = "none" \/ run \in hasty'),
         \A c \in open' : c.run = run /\ config[c.server] \in {"stdio", "both"} => proxy'[c.server] = "running",
         EndInv'
  PROVE  IInv'
<1>1. run \in Nat /\ manifest.run \in Nat /\ run \in 1..MaxRuns
  BY Naturals
<1>2. ThisManifest' = ThisManifest /\ Remote' = Remote /\ Found' = Found /\ Running' = Running
  BY DEF ThisManifest, Remote, With, Found, Running
<1>3. TypeInv'
  <2>1. ASSUME NEW s \in Servers PROVE stray'[s] < run
    <3>1. stray[s] < run /\ 0 < run /\ stray'[s] \in {0, stray[s]}
      BY <1>1 DEF IInv, TypeInv
    <3> QED
      BY <3>1
  <2> QED
    BY <1>2, <2>1 DEF IInv, TypeInv
<1>4. MadeInv'
  BY DEF IInv, MadeInv
<1>5. ManifestInv'
  <2>1. /\ manifest # NoManifest => manifest.run >= 1 /\ Finds(manifest.run)
        /\ manifest.run <= run
        /\ pc \in {"start", "listen", "rewrite", "aborted"} => manifest.run < run
        /\ pc \in {"listen", "rewrite"} => Found
        /\ pc = "start" => config = NoConfig /\ listeners = {}
        /\ Running => \/ config = NoConfig /\ listeners = {} /\ (FoundAgain => manifest = NoManifest)
                      \/ Found /\ manifest = ThisManifest
    BY DEF IInv, ManifestInv
  <2>2. \A s \in Servers : stray'[s] <= manifest.run
    BY <1>1 DEF IInv, ManifestInv
  <2> QED
    BY <1>1, <1>2, <2>1, <2>2 DEF ManifestInv
<1>6. RowsInv' /\ FirstInv' /\ OpenInv' /\ OrderInv'
  <2>1. \A s \in Servers : Quiet(files[s], files'[s])
    BY DEF Quiet
  <2>2. ASSUME NEW c \in open', c.run = run'
        PROVE  /\ Same(files[c.server], files'[c.server])
               /\ config'[c.server] \in {"stdio", "both"} => proxy'[c.server] = "running"
    <3>1. c \in open /\ c.server \in Servers
      BY DEF IInv, TypeInv, OpenCalls
    <3>2. config[c.server] \in {"stdio", "both"} => proxy[c.server] = "running"
      BY <2>2, <3>1 DEF IInv, OpenInv
    <3> QED
      BY <2>2, <3>1, <3>2
  <2> QED
    BY <1>1, <2>1, <2>2, QuietFiles
<1>7. HeldInv'
  BY HeldKept
<1>8. DoneInv'
  BY DoneKept
<1>9. PublishedInv'
  BY <1>1, PublishedKept
<1> QED
  BY <1>3, <1>4, <1>5, <1>6, <1>7, <1>8, <1>9 DEF IInv

\* A running proxy's file gets no end but of an earlier run.
LEMMA EndKept ==
  ASSUME IInv, run' = run,
         \A s \in Servers : proxy'[s] = "running" =>
            \/ files'[s] = <<>>
            \/ /\ proxy[s] = "running"
               /\ \A k \in DOMAIN files'[s] :
                     \/ k \in DOMAIN files[s] /\ files'[s][k] = files[s][k]
                     \/ files'[s][k].row.kind # "end"
                     \/ files'[s][k].run # run
  PROVE  EndInv'
<1> SUFFICES ASSUME OneTransport, NEW s \in Servers, proxy'[s] = "running",
                    NEW k \in DOMAIN files'[s], files'[s][k].row.kind = "end"
             PROVE  files'[s][k].run # run
  BY DEF EndInv
<1>1. files'[s] # <<>>
  OBVIOUS
<1> QED
  BY <1>1 DEF IInv, EndInv

LEMMA LaunchStep == ASSUME IInv, NEW s \in Servers, Launch(s) PROVE IInv'
<1>1. /\ pc = "child" /\ config[s] \in {"stdio", "both"} /\ proxy[s] # "running"
      /\ hasty' = hasty \cup (IF proxy[s] = "gone" THEN {run} ELSE {})
      /\ UNCHANGED <<run, pc, config, listeners, manifest, stray, open, clock, made, published>>
  BY DEF Launch, With, setup
<1>2. Running /\ run \in 1..run
  BY <1>1, Naturals DEF Running
<1>3. /\ proxy \in [Servers -> {"none", "running", "gone"}] /\ files \in [Servers -> Seq(Rows)]
      /\ stray \in [Servers -> Nat] /\ hasty \subseteq 1..run
      /\ \A t \in Servers : proxy[t] # "none" => config[t] \in {"stdio", "both"}
  BY DEF IInv, TypeInv, ManifestInv
<1>4. PICK g \in Seq(Rows) : /\ files' = [files EXCEPT ![s] = g] /\ CallRows(g) = {}
                             /\ \/ proxy' = [proxy EXCEPT ![s] = "running"] /\ g = <<>>
                                \/ proxy' = proxy
  <2> DEFINE gap == Plain(GapRow("proxy_start_failed", NoAnchor), run)
  <2>1. <<>> \in Seq(Rows) /\ CallRows(<<>>) = {}
    BY DEF CallRows
  <2>2. gap \in Rows /\ gap.row.kind = "gap"
    BY Naturals, OtherRows
  <2>3. \/ files' = [files EXCEPT ![s] = <<>>] /\ proxy' = [proxy EXCEPT ![s] = "running"]
        \/ files' = [files EXCEPT ![s] = <<gap>>] /\ proxy' = proxy
    BY DEF Launch
  <2> HIDE DEF gap
  <2>4. <<gap>> \in Seq(Rows) /\ CallRows(<<gap>>) = {}
    BY <2>2 DEF CallRows
  <2> QED
    BY <2>1, <2>3, <2>4
<1>5. /\ files' \in [Servers -> Seq(Rows)] /\ files'[s] = g
      /\ \A t \in Servers \ {s} : files'[t] = files[t] /\ proxy'[t] = proxy[t]
      /\ proxy' \in [Servers -> {"none", "running", "gone"}]
      /\ \/ proxy'[s] = "running" /\ g = <<>>
         \/ proxy'[s] = proxy[s]
  BY <1>3, <1>4
<1>6. hasty \subseteq hasty' /\ hasty' \subseteq 1..run /\ (proxy[s] = "none" \/ run \in hasty')
  BY <1>1, <1>2, <1>3, <1>5
<1>7. ASSUME NEW t \in Servers
      PROVE  /\ proxy'[t] # "none" => Running /\ config[t] \in {"stdio", "both"}
             /\ \/ Same(files[t], files'[t]) /\ (proxy[t] # "none" => proxy'[t] # "none")
                \/ /\ CallRows(files'[t]) = {} /\ config[t] \in {"stdio", "both"}
                   /\ proxy[t] # "running" /\ (proxy[t] = "none" \/ run \in hasty')
  <2>1. CASE t = s
    BY <1>1, <1>2, <1>4, <1>5, <1>6, <2>1
  <2>2. CASE t # s
    BY <1>2, <1>3, <1>5, <2>2 DEF Same
  <2> QED
    BY <2>1, <2>2
<1>8. ASSUME NEW c \in open', c.run = run, config[c.server] \in {"stdio", "both"}
      PROVE  proxy'[c.server] = "running"
  <2>1. c.server \in Servers /\ proxy[c.server] = "running"
    BY <1>1, <1>8 DEF IInv, TypeInv, OpenInv, OpenCalls
  <2> QED
    BY <1>1, <1>5, <2>1
<1>9. EndInv'
  BY <1>1, <1>5, EndKept
<1> QED
  BY <1>1, <1>3, <1>5, <1>6, <1>7, <1>8, <1>9, SameRun

\* A row that is not about a call is entered, and proxies may end.
LEMMA RowStep ==
  ASSUME IInv, NEW s \in Servers, NEW row \in Rows, row.row.kind \notin {"call", "result"},
         files' = [files EXCEPT ![s] = Append(files[s], row)],
         UNCHANGED <<run, pc, config, listeners, manifest, clock, made, hasty, published>>,
         open' \subseteq open,
         proxy' \in [Servers -> {"none", "running", "gone"}], stray' \in [Servers -> Nat],
         \A t \in Servers : /\ stray'[t] \in {0, stray[t]}
                            /\ proxy'[t] = proxy[t] \/ (proxy[t] = "running" /\ proxy'[t] = "gone"),
         \A c \in open' : c.run = run => proxy'[c.server] = proxy[c.server],
         proxy'[s] = "running" => row.row.kind # "end" \/ row.run # run
  PROVE  IInv'
<1>1. files \in [Servers -> Seq(Rows)] /\ hasty \subseteq 1..run
  BY DEF IInv, TypeInv
<1>2. /\ Append(files[s], row) \in Seq(Rows) /\ Same(files[s], Append(files[s], row))
      /\ \A k \in DOMAIN Append(files[s], row) :
            \/ k \in DOMAIN files[s] /\ Append(files[s], row)[k] = files[s][k]
            \/ Append(files[s], row)[k] = row
  <2>1. files[s] \in Seq(Rows)
    BY <1>1
  <2> QED
    BY <2>1, RowAppended, Entered
<1>3. /\ files' \in [Servers -> Seq(Rows)] /\ files'[s] = Append(files[s], row)
      /\ \A t \in Servers \ {s} : files'[t] = files[t]
  BY <1>1, <1>2
<1>4. \A t \in Servers : Same(files[t], files'[t])
  BY <1>2, <1>3 DEF Same
<1>5. EndInv'
  <2> SUFFICES ASSUME NEW t \in Servers, proxy'[t] = "running", NEW k \in DOMAIN files'[t]
               PROVE  /\ proxy[t] = "running"
                      /\ \/ k \in DOMAIN files[t] /\ files'[t][k] = files[t][k]
                         \/ files'[t][k].row.kind # "end"
                         \/ files'[t][k].run # run
    BY EndKept
  <2>1. CASE t = s
    BY <1>2, <1>3, <2>1
  <2>2. CASE t # s
    BY <1>3, <2>2
  <2> QED
    BY <2>1, <2>2
<1>6. ASSUME NEW t \in Servers, proxy'[t] # "none" PROVE Running /\ config[t] \in {"stdio", "both"}
  BY <1>6 DEF IInv, ManifestInv
<1>7. ASSUME NEW c \in open', c.run = run, config[c.server] \in {"stdio", "both"}
      PROVE  proxy'[c.server] = "running"
  BY <1>7 DEF IInv, OpenInv
<1> QED
  BY <1>1, <1>3, <1>4, <1>5, <1>6, <1>7, SameRun

LEMMA DiscoverStep == ASSUME IInv, NEW s \in Servers, DiscoverTools(s) PROVE IInv'
<1> DEFINE row == Plain(DiscoverRow, run)
<1>1. /\ files' = [files EXCEPT ![s] = Append(files[s], row)]
      /\ UNCHANGED <<run, pc, config, listeners, manifest, proxy, stray, open, clock, made, hasty, published>>
  BY DEF DiscoverTools, setup
<1>2. row \in Rows /\ row.row.kind = "discover"
  BY Naturals, OtherRows
<1>3. proxy \in [Servers -> {"none", "running", "gone"}] /\ stray \in [Servers -> Nat]
  BY DEF IInv, TypeInv
<1> HIDE DEF row
<1> QED
  BY <1>1, <1>2, <1>3, RowStep

LEMMA ProxyEndsStep == ASSUME IInv, NEW s \in Servers, NEW r \in 1..run, ProxyEnds(s, r) PROVE IInv'
<1> DEFINE row == Plain(EndRow, r)
<1>1. /\ files' = [files EXCEPT ![s] = Append(files[s], row)] /\ Out(s, r) = {}
      /\ UNCHANGED <<run, pc, config, listeners, manifest, open, clock, made, hasty, published>>
      /\ \/ r = run /\ proxy[s] = "running" /\ proxy' = [proxy EXCEPT ![s] = "gone"] /\ UNCHANGED stray
         \/ stray[s] = r /\ stray' = [stray EXCEPT ![s] = 0] /\ UNCHANGED proxy
  BY DEF ProxyEnds, setup
<1>2. row \in Rows /\ row.row.kind = "end" /\ row.run = r
  BY Naturals, OtherRows
<1>3. /\ proxy \in [Servers -> {"none", "running", "gone"}] /\ stray \in [Servers -> Nat]
      /\ stray[s] < run /\ run \in Nat
  BY Naturals DEF IInv, TypeInv
<1>4. /\ proxy' \in [Servers -> {"none", "running", "gone"}] /\ stray' \in [Servers -> Nat]
      /\ \A t \in Servers : /\ stray'[t] \in {0, stray[t]}
                            /\ proxy'[t] = proxy[t] \/ (proxy[t] = "running" /\ proxy'[t] = "gone")
                            /\ t # s => proxy'[t] = proxy[t]
      /\ proxy'[s] # proxy[s] => r = run
      /\ proxy'[s] = "running" => r # run
  BY <1>1, <1>3
<1>5. ASSUME NEW c \in open', c.run = run PROVE proxy'[c.server] = proxy[c.server]
  <2>1. c \in open /\ c.server \in Servers
    BY <1>1 DEF IInv, TypeInv, OpenCalls
  <2>2. c.server = s => r # run
    BY <1>1, <1>5, <2>1 DEF Out
  <2> QED
    BY <1>4, <2>1, <2>2
<1> HIDE DEF row
<1> QED
  BY <1>1, <1>2, <1>4, <1>5, RowStep

LEMMA ProxyKilledStep == ASSUME IInv, NEW s \in Servers, ProxyKilled(s) PROVE IInv'
<1>1. /\ proxy[s] = "running" /\ proxy' = [proxy EXCEPT ![s] = "gone"] /\ open' = open \ Out(s, run)
      /\ UNCHANGED <<run, pc, config, listeners, manifest, files, stray, clock, made, hasty, published>>
  BY DEF ProxyKilled, setup
<1>2. /\ proxy \in [Servers -> {"none", "running", "gone"}] /\ stray \in [Servers -> Nat]
      /\ files \in [Servers -> Seq(Rows)] /\ hasty \subseteq 1..run
  BY DEF IInv, TypeInv
<1>3. /\ proxy' \in [Servers -> {"none", "running", "gone"}] /\ proxy'[s] = "gone"
      /\ \A t \in Servers \ {s} : proxy'[t] = proxy[t]
  BY <1>1, <1>2
<1>4. \A t \in Servers : Same(files[t], files'[t])
  BY <1>1 DEF Same
<1>5. \A t \in Servers : proxy'[t] # "none" => Running /\ config[t] \in {"stdio", "both"}
  BY <1>1, <1>3 DEF IInv, ManifestInv
<1>6. ASSUME NEW c \in open', c.run = run, config[c.server] \in {"stdio", "both"}
      PROVE  proxy'[c.server] = "running"
  <2>1. c \in open /\ c.server \in Servers /\ c.server # s
    BY <1>1, <1>6 DEF IInv, TypeInv, OpenCalls, Out
  <2> QED
    BY <1>3, <1>6, <2>1 DEF IInv, OpenInv
<1>7. EndInv'
  BY <1>1, <1>3, EndKept
<1> QED
  BY <1>1, <1>2, <1>3, <1>4, <1>5, <1>6, <1>7, SameRun

LEMMA AgentExitsStep == ASSUME IInv, AgentExits PROVE IInv'
<1>1. /\ pc = "child" /\ pc' = "ended" /\ CloseListeners
      /\ UNCHANGED <<run, config, listeners, manifest, proxy, stray, open, clock, made, hasty, published>>
  BY DEF AgentExits, setup
<1>2. /\ files' \in [Servers -> Seq(Rows)]
      /\ \A s \in Servers : Same(files[s], files'[s]) /\ (s \notin listeners => files'[s] = files[s])
  BY <1>1, Closing
<1>3. /\ proxy \in [Servers -> {"none", "running", "gone"}] /\ stray \in [Servers -> Nat] /\ hasty \subseteq 1..run
      /\ \A s \in Servers : proxy[s] # "none" => Running /\ config[s] \in {"stdio", "both"}
  BY DEF IInv, TypeInv, ManifestInv
<1>4. EndInv'
  <2> SUFFICES ASSUME OneTransport, NEW s \in Servers, proxy[s] = "running"
               PROVE  files'[s] = files[s]
    BY <1>1 DEF IInv, EndInv
  <2>1. Running /\ config[s] \in {"stdio", "both"}
    BY <1>3
  <2>2. config[s] # "both"
    BY <2>1, InForce, Naturals DEF Found, OneTransport
  <2>3. s \notin listeners
    BY <2>1, <2>2 DEF IInv, TypeInv, Remote, With
  <2> QED
    BY <1>2, <2>3
<1>5. \A c \in open' : c.run = run /\ config[c.server] \in {"stdio", "both"} => proxy'[c.server] = "running"
  BY <1>1 DEF IInv, OpenInv
<1> QED
  BY <1>1, <1>2, <1>3, <1>4, <1>5, SameRun

LEMMA NextRunStep == ASSUME IInv, NextRun PROVE IInv'
<1>1. /\ pc \in {"assembled", "aborted"} /\ run < MaxRuns /\ run' = run + 1 /\ pc' = "start"
      /\ config' = NoConfig /\ listeners' = {} /\ open' \subseteq open
      /\ stray' = [s \in Servers |-> IF proxy[s] = "running" THEN run ELSE stray[s]]
      /\ proxy' = [s \in Servers |-> "none"]
      /\ UNCHANGED <<manifest, files, clock, made, hasty, published>>
  BY DEF NextRun
<1>2. /\ run \in Nat /\ run \in 1..MaxRuns /\ MaxRuns \in Nat /\ manifest.run \in Nat /\ manifest.run <= run
      /\ \A s \in Servers : stray[s] \in Nat /\ stray[s] < run /\ stray[s] <= manifest.run
  BY Naturals DEF IInv, TypeInv, ManifestInv
<1>3. \A s \in Servers : /\ stray'[s] \in Nat /\ stray'[s] <= run /\ stray'[s] <= manifest.run
                         /\ stray'[s] = stray[s] \/ (stray'[s] = run /\ proxy[s] = "running")
  <2> TAKE s \in Servers
  <2>1. CASE proxy[s] = "running"
    <3>1. manifest.run = run
      BY <2>1, InForce DEF IInv, ManifestInv
    <3> QED
      BY <1>1, <1>2, <2>1, <3>1
  <2>2. CASE proxy[s] # "running"
    BY <1>1, <1>2, <2>2
  <2> QED
    BY <2>1, <2>2
<1>4. \A n \in DOMAIN made : made[n].run \in Nat /\ made[n].run <= run
  BY Naturals
<1>5. TypeInv'
  <2>1. run' \in 1..MaxRuns /\ hasty' \subseteq 1..run' /\ 1..run \subseteq 1..run'
    BY <1>1, <1>2 DEF IInv, TypeInv
  <2>2. /\ stray' \in [Servers -> Nat] /\ proxy' \in [Servers -> {"none", "running", "gone"}]
        /\ \A s \in Servers : stray'[s] < run'
    BY <1>1, <1>2, <1>3
  <2>3. config' \in [Servers -> AllShapes \cup {"no_config"}] /\ listeners' \subseteq Remote'
    BY <1>1 DEF NoConfig
  <2> QED
    BY <1>1, <2>1, <2>2, <2>3 DEF IInv, TypeInv
<1>6. MadeInv'
  BY <1>1, <1>2, <1>4 DEF IInv, MadeInv
<1>7. ManifestInv'
  <2>1. manifest # NoManifest => manifest.run >= 1 /\ Finds(manifest.run)
    BY DEF IInv, ManifestInv
  <2> QED
    BY <1>1, <1>2, <1>3, <2>1 DEF ManifestInv, Running
<1>8. RowsInv' /\ FirstInv' /\ OpenInv' /\ OrderInv'
  <2>1. \A s \in Servers : Quiet(files[s], files'[s])
    BY <1>1 DEF Quiet, Same
  <2>2. ASSUME NEW c \in open' PROVE c.run # run'
    <3>1. c \in open /\ c \in OpenCalls /\ c.run <= manifest.run
      BY <1>1 DEF IInv, TypeInv, OpenInv, Backed
    <3>2. c.run \in Nat
      BY <3>1 DEF OpenCalls
    <3> QED
      BY <1>1, <1>2, <3>1, <3>2
  <2> QED
    BY <1>1, <1>2, <2>1, <2>2, QuietFiles
<1>9. HeldInv' /\ EndInv'
  <2>1. \A n \in DOMAIN made : made[n].run # run'
    BY <1>1, <1>2, <1>4
  <2>2. EndInv'
    BY <1>1 DEF EndInv
  <2> QED
    BY <1>1, <2>1, <2>2, HeldByNone
<1>10. DoneInv'
  <2> SUFFICES ASSUME OneTransport, NEW r \in 1..MaxRuns, published[r].complete, NEW s \in Servers
               PROVE  stray'[s] # r /\ proxy'[s] # "running"
    BY <1>1 DEF DoneInv
  <2>1. stray[s] # r /\ (r = run => proxy[s] # "running")
    BY DEF IInv, DoneInv
  <2> QED
    BY <1>1, <1>3, <2>1
<1>11. PublishedInv'
  BY <1>1, <1>2, PublishedKept
<1> QED
  BY <1>5, <1>6, <1>7, <1>8, <1>9, <1>10, <1>11 DEF IInv

---------------------------------------------------------------------------
(* The calls and their outcomes.                                           *)

LEMMA NewCall ==
  ASSUME IInv, NEW s \in Servers, NEW r \in 1..run, Make(s, r), run' = run, pc' = pc, Running \/ r < run
  PROVE  LET N == Len(made) + 1
             call == [run |-> r, server |-> s, id |-> CallIds[N]]
         IN  /\ N \in Nat /\ N \in DOMAIN CallIds /\ CallIds[N] \in Ids
             /\ call \in MadeCalls /\ made' = Append(made, call)
             /\ DOMAIN made = 1..(N - 1) /\ DOMAIN made' = 1..N /\ made' \in Seq(MadeCalls)
             /\ made'[N] = call /\ \A n \in DOMAIN made : n \in DOMAIN made' /\ made'[n] = made[n]
             /\ \A n \in DOMAIN made' : n \in DOMAIN made \/ n = N
             /\ MadeInv'
<1> DEFINE N == Len(made) + 1
           call == [run |-> r, server |-> s, id |-> CallIds[N]]
<1>1. Len(made) < Len(CallIds) /\ made' = Append(made, call)
  BY DEF Make
<1>2. made \in Seq(MadeCalls) /\ Len(made) \in Nat /\ run \in Nat /\ r \in Nat \ {0} /\ r <= run /\ CallIds \in Seq(Ids)
  BY Naturals, WatchAssumption DEF Ids
<1>3. N \in Nat /\ N \in DOMAIN CallIds /\ CallIds[N] \in Ids
  BY <1>1, <1>2
<1>4. call \in MadeCalls
  BY <1>2, <1>3 DEF MadeCalls
<1>5. call.id = CallIds[N] /\ call.run = r
  OBVIOUS
<1> HIDE DEF call
<1>6. /\ DOMAIN made = 1..(N - 1) /\ DOMAIN made' = 1..N /\ made' \in Seq(MadeCalls) /\ Len(made') = N
      /\ made'[N] = call /\ \A n \in DOMAIN made : n \in DOMAIN made' /\ made'[n] = made[n]
      /\ \A n \in DOMAIN made' : n \in DOMAIN made \/ n = N
  BY <1>1, <1>2, <1>4, CallAdded
<1>7. MadeInv'
  <2>1. Len(made') <= Len(CallIds)
    BY <1>1, <1>2, <1>6
  <2>2. ASSUME NEW n \in DOMAIN made' PROVE made'[n].id = CallIds[n] /\ made'[n].run <= run
    <3>1. CASE n \in DOMAIN made
      BY <1>6, <3>1 DEF IInv, MadeInv
    <3>2. CASE n = N
      BY <1>2, <1>5, <1>6, <3>2
    <3> QED
      BY <1>6, <3>1, <3>2
  <2>3. ASSUME ~Running, NEW n \in DOMAIN made' PROVE made'[n].run < run
    <3>1. CASE n \in DOMAIN made
      BY <1>6, <2>3, <3>1 DEF IInv, MadeInv, Running
    <3>2. CASE n = N
      BY <1>5, <1>6, <2>3, <3>2
    <3> QED
      BY <1>6, <3>1, <3>2
  <2> QED
    BY <2>1, <2>2, <2>3 DEF MadeInv, Running
<1> QED
  BY <1>1, <1>3, <1>4, <1>6, <1>7 DEF call

\* A run in which a call may still be made has published no complete trace.
LEMMA NotDone ==
  ASSUME IInv, OneTransport, NEW s \in Servers, NEW r \in 1..run,
         Proxying(s, r) \/ (r = run /\ pc # "assembled")
  PROVE  ~published[r].complete
<1>1. r \in 1..MaxRuns /\ r # 0
  BY Naturals
<1>2. CASE r = run /\ pc # "assembled"
  BY <1>1, <1>2 DEF IInv, PublishedInv, NoTrace
<1>3. CASE Proxying(s, r)
  BY <1>1, <1>3 DEF IInv, DoneInv, Proxying
<1> QED
  BY <1>2, <1>3

\* What is left to show of a call once its record is dealt with.
LEMMA CallStep ==
  ASSUME IInv, NEW s \in Servers, NEW r \in 1..run, Make(s, r),
         Proxying(s, r) \/ (r = run /\ pc \in {"child", "ended"}),
         UNCHANGED <<run, pc, config, listeners, manifest, proxy, stray, published>>,
         hasty \subseteq hasty'
  PROVE  MadeInv' /\ ManifestInv' /\ DoneInv' /\ PublishedInv'
<1> DEFINE N == Len(made) + 1
           call == [run |-> r, server |-> s, id |-> CallIds[N]]
<1>1. Running \/ r < run
  <2>1. CASE Proxying(s, r) /\ r # run
    BY <2>1, Naturals DEF IInv, TypeInv, Proxying
  <2>2. CASE r = run
    BY <2>2, Naturals DEF IInv, TypeInv, ManifestInv, Proxying, Running
  <2> QED
    BY <2>1, <2>2
<1>2. /\ N \in DOMAIN CallIds /\ call \in MadeCalls /\ made' = Append(made, call) /\ MadeInv'
  BY <1>1, NewCall
<1>3. call.run = r /\ call.id = CallIds[N]
  OBVIOUS
<1> HIDE DEF call
<1>4. ManifestInv'
  BY DEF IInv, ManifestInv, Running, ThisManifest, With, Found
<1>5. DoneInv'
  BY DoneKept
<1>6. PublishedInv'
  <2>1. run \in Nat /\ r \in 1..MaxRuns
    BY Naturals
  <2>2. OneTransport => ~published[r].complete
    BY NotDone
  <2>3. \E c \in MadeCalls : /\ made' = Append(made, c)
                             /\ Len(made) + 1 \in DOMAIN CallIds /\ c.id = CallIds[Len(made) + 1]
                             /\ c.run \in 1..MaxRuns
                             /\ OneTransport => ~published[c.run].complete
    BY <1>2, <1>3, <2>1, <2>2
  <2> QED
    BY <2>1, <2>3, PublishedKept
<1> QED
  BY <1>2, <1>4, <1>5, <1>6

LEMMA CallDirectStep == ASSUME IInv, NEW s \in Servers, CallDirect(s) PROVE IInv'
<1> DEFINE N == Len(made) + 1
           call == [run |-> run, server |-> s, id |-> CallIds[N]]
<1>1. /\ Direct(s) /\ Make(s, run) /\ pc = "child" /\ run \in 1..run /\ Running
      /\ UNCHANGED <<run, pc, config, listeners, manifest, files, proxy, stray, open, clock, hasty, published>>
  BY Naturals DEF CallDirect, setup, Running
<1>2. /\ made'[N] = call /\ \A n \in DOMAIN made : n \in DOMAIN made' /\ made'[n] = made[n]
      /\ \A n \in DOMAIN made' : n \in DOMAIN made \/ n = N
      /\ made' \in Seq(MadeCalls)
  BY <1>1, NewCall
<1>3. call.server = s
  OBVIOUS
<1> HIDE DEF call
<1>4. TypeInv'
  BY <1>1, <1>2 DEF IInv, TypeInv, Remote, With
<1>5. MadeInv' /\ ManifestInv' /\ DoneInv' /\ PublishedInv'
  BY <1>1, CallStep
<1>6. \A event, r, moment : Backed(event, r, moment) => Backed(event, r, moment)'
  BY <1>1, <1>2 DEF Backed
<1>7. RowsInv' /\ OpenInv'
  <2>1. RowsInv'
    BY <1>1, <1>6 DEF IInv, RowsInv
  <2>2. OpenInv'
    BY <1>1, <1>6 DEF IInv, OpenInv, CallAt
  <2> QED
    BY <2>1, <2>2
<1>8. FirstInv' /\ OrderInv' /\ EndInv'
  BY <1>1 DEF IInv, FirstInv, OrderInv, EndInv, CallAt
<1>9. HeldInv'
  <2> SUFFICES ASSUME run \notin hasty, NEW n \in DOMAIN made', made'[n].run = run, ~Direct(made'[n].server)
               PROVE  LET t == made'[n].server
                      IN  /\ config[t] = "stdio" => proxy[t] # "none"
                          /\ \E k \in CallRows(files[t]) : CallAt(files[t], k, n - 1)
    BY <1>1 DEF HeldInv, CallAt, Direct
  <2>1. n \in DOMAIN made /\ made'[n] = made[n]
    BY <1>1, <1>2, <1>3
  <2> QED
    BY <2>1 DEF IInv, HeldInv
<1> QED
  BY <1>4, <1>5, <1>7, <1>8, <1>9 DEF IInv

\* A row about a call is entered: where it is, and that the others stay.
LEMMA OneRow ==
  ASSUME IInv, NEW s \in Servers, NEW row \in Rows, row.row.kind \in {"call", "result"},
         files' = [files EXCEPT ![s] = Append(files[s], row)]
  PROVE  LET L == Len(files[s]) + 1
         IN  /\ files' \in [Servers -> Seq(Rows)] /\ L \in Nat
             /\ L \in CallRows(files'[s]) /\ files'[s][L] = row
             /\ \A t \in Servers : \A k \in CallRows(files[t]) :
                   k \in CallRows(files'[t]) /\ files'[t][k] = files[t][k] /\ (t = s => k < L)
             /\ \A t \in Servers : \A k \in CallRows(files'[t]) :
                   \/ k \in CallRows(files[t]) /\ files'[t][k] = files[t][k]
                   \/ t = s /\ k = L
             /\ \A t \in Servers : \A k \in DOMAIN files'[t] :
                   \/ k \in DOMAIN files[t] /\ files'[t][k] = files[t][k]
                   \/ files'[t][k].row.kind # "end"
<1> DEFINE L == Len(files[s]) + 1
           g == Append(files[s], row)
<1>1. files \in [Servers -> Seq(Rows)] /\ files[s] \in Seq(Rows)
  BY DEF IInv, TypeInv
<1>2. /\ g \in Seq(Rows) /\ L \in Nat /\ L \in DOMAIN g /\ g[L] = row
      /\ \A k \in DOMAIN files[s] : k \in DOMAIN g /\ g[k] = files[s][k]
      /\ \A k \in DOMAIN g : k \in DOMAIN files[s] \/ k = L
      /\ \A k \in CallRows(files[s]) : k \in CallRows(g) /\ k < L
      /\ \A k \in CallRows(g) : k \in CallRows(files[s]) \/ k = L
  BY <1>1, Entered
<1> HIDE DEF L, g
<1>3. files' \in [Servers -> Seq(Rows)] /\ files'[s] = g /\ \A t \in Servers \ {s} : files'[t] = files[t]
  BY <1>1, <1>2 DEF g
<1>4. L \in CallRows(g) /\ g[L].row.kind # "end"
  BY <1>2 DEF CallRows
<1>5. \A k \in CallRows(files[s]) : k \in DOMAIN files[s]
  BY DEF CallRows
<1> QED
  BY <1>2, <1>3, <1>4, <1>5 DEF L

LEMMA CallObservedStep ==
  ASSUME IInv, NEW s \in Servers, NEW r \in 1..run, NEW moment \in clock..MaxMoment, CallObserved(s, r, moment)
  PROVE  IInv'
<1> DEFINE N == Len(made) + 1
           L == Len(files[s]) + 1
           call == [run |-> r, server |-> s, id |-> CallIds[N]]
           event == Event(Len(made), CallIds[N])
           row == Stamped(CallRow(event), r, moment)
           new == [server |-> s, run |-> r, at |-> moment, event |-> event]
<1>1. /\ (Proxying(s, r) /\ Out(s, r) = {}) \/ Serving(s, r)
      /\ Make(s, r) /\ clock' = moment
      /\ files' = [files EXCEPT ![s] = Append(files[s], row)] /\ open' = open \cup {new}
      /\ hasty' \subseteq hasty \cup {run} /\ hasty \subseteq hasty'
      /\ UNCHANGED <<run, pc, config, listeners, manifest, proxy, stray, published>>
  BY DEF CallObserved, setup
<1>0. run' = run
  BY <1>1
<1>2. /\ run \in Nat /\ run >= 1 /\ r \in Nat \ {0} /\ clock \in Nat /\ moment \in Nat /\ clock <= moment
      /\ moment \in 1..MaxMoment /\ manifest.run \in Nat
      /\ stray[s] < run /\ stray[s] \in Nat /\ stray[s] <= manifest.run
  BY Naturals, WatchAssumption DEF IInv, TypeInv, ManifestInv
<1>3. /\ Proxying(s, r) \/ (r = run /\ pc \in {"child", "ended"})
      /\ Running \/ r < run
      /\ r = run => Running /\ config[s] \in {"stdio", "both", "http"}
      /\ r = run /\ config[s] \in {"stdio", "both"} => proxy[s] = "running"
      /\ r <= manifest.run
  <2>1. CASE r = run /\ Serving(s, r)
    <3>1. Running /\ config[s] = "http"
      BY <2>1 DEF Serving, Running
    <3>2. manifest.run = run
      BY <3>1, InForce
    <3> QED
      BY <1>2, <2>1, <3>1, <3>2 DEF Serving
  <2>2. CASE r = run /\ Proxying(s, r)
    <3>1. proxy[s] = "running"
      BY <1>2, <2>2 DEF Proxying
    <3>2. Running /\ config[s] \in {"stdio", "both"}
      BY <3>1 DEF IInv, ManifestInv
    <3>3. manifest.run = run
      BY <3>2, InForce
    <3> QED
      BY <1>2, <2>2, <3>1, <3>2, <3>3
  <2>3. CASE r # run
    <3>1. Proxying(s, r) /\ r = stray[s]
      BY <1>1, <2>3 DEF Proxying, Serving
    <3> QED
      BY <1>2, <2>3, <3>1
  <2> QED
    BY <1>1, <2>1, <2>2, <2>3
<1>4. /\ N \in Nat /\ CallIds[N] \in Ids /\ Len(made) \in Nat
      /\ made'[N] = call /\ \A n \in DOMAIN made : n \in DOMAIN made' /\ made'[n] = made[n]
      /\ \A n \in DOMAIN made' : n \in DOMAIN made \/ n = N
      /\ N \in DOMAIN made' /\ made' \in Seq(MadeCalls) /\ DOMAIN made = 1..(N - 1)
  BY <1>1, <1>3, Naturals, NewCall
<1>5. call.run = r /\ call.server = s /\ call.id = CallIds[N]
  OBVIOUS
<1>6. event \in Events /\ event.index = Len(made) /\ event.id = CallIds[N]
  BY <1>4 DEF Event, Events
<1> HIDE DEF event, call
<1>7. /\ row \in Rows /\ row.row.kind = "call" /\ row.row.event = event /\ row.run = r /\ row.at = moment
  BY <1>2, <1>6 DEF Stamped, CallRow, Rows
<1>8. /\ new \in OpenCalls /\ new.server = s /\ new.run = r /\ new.at = moment /\ new.event = event
  BY <1>2, <1>6 DEF OpenCalls
<1> HIDE DEF row, new
<1>9. /\ files' \in [Servers -> Seq(Rows)] /\ L \in Nat
      /\ L \in CallRows(files'[s]) /\ files'[s][L] = row
      /\ \A t \in Servers : \A k \in CallRows(files[t]) :
            k \in CallRows(files'[t]) /\ files'[t][k] = files[t][k] /\ (t = s => k < L)
      /\ \A t \in Servers : \A k \in CallRows(files'[t]) :
            \/ k \in CallRows(files[t]) /\ files'[t][k] = files[t][k]
            \/ t = s /\ k = L
      /\ \A t \in Servers : \A k \in DOMAIN files'[t] :
            \/ k \in DOMAIN files[t] /\ files'[t][k] = files[t][k]
            \/ files'[t][k].row.kind # "end"
  BY <1>1, <1>7, OneRow
<1> HIDE DEF L, N
<1>10. Len(made) + 1 = N
  BY DEF N
<1>11. TypeInv'
  <2>1. run \in 1..run
    BY <1>2
  <2> QED
    BY <1>1, <1>2, <1>4, <1>8, <1>9, <2>1 DEF IInv, TypeInv, Remote, With
<1>12. MadeInv' /\ ManifestInv' /\ DoneInv' /\ PublishedInv'
  BY <1>1, <1>3, CallStep
<1>13. ASSUME NEW e, NEW q, NEW m \in Nat, Backed(e, q, m)
       PROVE  /\ e.index + 1 \in DOMAIN made'
              /\ made'[e.index + 1].id = e.id /\ made'[e.index + 1].run = q
              /\ m <= clock' /\ q <= manifest'.run
  <2>1. /\ e.index + 1 \in DOMAIN made /\ made[e.index + 1].id = e.id /\ made[e.index + 1].run = q
        /\ m <= clock /\ q <= manifest.run
    BY <1>13 DEF Backed
  <2>2. e.index + 1 \in DOMAIN made' /\ made'[e.index + 1] = made[e.index + 1]
    BY <1>4, <2>1
  <2>3. m <= moment
    BY <1>2, <2>1
  <2> QED
    BY <1>1, <2>1, <2>2, <2>3
<1>14. /\ event.index + 1 \in DOMAIN made'
       /\ made'[event.index + 1].id = event.id /\ made'[event.index + 1].run = r
       /\ moment <= clock' /\ r <= manifest'.run
  <2>1. event.index + 1 = N
    BY <1>6, <1>10
  <2>2. moment <= clock'
    BY <1>1, <1>2
  <2> QED
    BY <1>1, <1>3, <1>4, <1>5, <1>6, <2>1, <2>2
<1>15. RowsInv'
  <2> SUFFICES ASSUME NEW t \in Servers, NEW k \in CallRows(files'[t])
               PROVE  /\ files'[t][k].row.event.index + 1 \in DOMAIN made'
                      /\ made'[files'[t][k].row.event.index + 1].id = files'[t][k].row.event.id
                      /\ made'[files'[t][k].row.event.index + 1].run = files'[t][k].run
                      /\ files'[t][k].at <= clock' /\ files'[t][k].run <= manifest'.run
    BY DEF RowsInv, Backed
  <2>1. CASE k \in CallRows(files[t]) /\ files'[t][k] = files[t][k]
    <3>1. Backed(files[t][k].row.event, files[t][k].run, files[t][k].at)
      BY <2>1 DEF IInv, RowsInv
    <3>2. files[t][k].at \in Nat
      BY <2>1, CallRowType
    <3>3. /\ files[t][k].row.event.index + 1 \in DOMAIN made'
          /\ made'[files[t][k].row.event.index + 1].id = files[t][k].row.event.id
          /\ made'[files[t][k].row.event.index + 1].run = files[t][k].run
          /\ files[t][k].at <= clock' /\ files[t][k].run <= manifest'.run
      BY <1>13, <3>1, <3>2
    <3> QED
      BY <2>1, <3>3
  <2>2. CASE t = s /\ k = L
    <3>1. files'[t][k] = row
      BY <1>9, <2>2
    <3> QED
      BY <1>7, <1>14, <3>1
  <2> QED
    BY <1>9, <2>1, <2>2
<1>16. FirstInv'
  <2> SUFFICES ASSUME NEW t \in Servers, NEW k \in CallRows(files'[t]),
                      files'[t][k].row.kind = "result", files'[t][k].run = run
               PROVE  \E j \in CallRows(files'[t]) :
                         /\ j < k /\ files'[t][j].row.kind = "call" /\ files'[t][j].run = run
                         /\ files'[t][j].row.event.index = files'[t][k].row.event.index
    BY <1>0 DEF FirstInv, CallAt
  <2>1. k \in CallRows(files[t]) /\ files'[t][k] = files[t][k]
    BY <1>7, <1>9
  <2>2. PICK j \in CallRows(files[t]) : j < k /\ CallAt(files[t], j, files[t][k].row.event.index)
    BY <2>1 DEF IInv, FirstInv
  <2>3. j \in CallRows(files'[t]) /\ files'[t][j] = files[t][j]
    BY <1>9
  <2> QED
    BY <2>1, <2>2, <2>3 DEF CallAt
<1>17. OpenInv'
  <2> SUFFICES ASSUME NEW c \in open'
               PROVE  /\ c.event.index + 1 \in DOMAIN made'
                      /\ made'[c.event.index + 1].id = c.event.id /\ made'[c.event.index + 1].run = c.run
                      /\ c.at <= clock' /\ c.run <= manifest'.run
                      /\ c.run = run =>
                            /\ config[c.server] \in {"stdio", "both"} => proxy[c.server] = "running"
                            /\ \E k \in CallRows(files'[c.server]) :
                                  /\ files'[c.server][k].row.kind = "call" /\ files'[c.server][k].run = run
                                  /\ files'[c.server][k].row.event.index = c.event.index
    BY <1>1 DEF OpenInv, CallAt, Backed
  <2>1. CASE c \in open
    <3>1. Backed(c.event, c.run, c.at) /\ c.run \in Nat /\ c.at \in Nat /\ c.server \in Servers
      BY <2>1 DEF IInv, TypeInv, OpenInv, OpenCalls
    <3>2. ASSUME c.run = run
          PROVE  /\ config[c.server] \in {"stdio", "both"} => proxy[c.server] = "running"
                 /\ \E k \in CallRows(files'[c.server]) :
                       /\ files'[c.server][k].row.kind = "call" /\ files'[c.server][k].run = run
                       /\ files'[c.server][k].row.event.index = c.event.index
      <4>1. /\ config[c.server] \in {"stdio", "both"} => proxy[c.server] = "running"
            /\ \E k \in CallRows(files[c.server]) : CallAt(files[c.server], k, c.event.index)
        BY <2>1, <3>2 DEF IInv, OpenInv
      <4>2. PICK k \in CallRows(files[c.server]) : CallAt(files[c.server], k, c.event.index)
        BY <4>1
      <4>3. k \in CallRows(files'[c.server]) /\ files'[c.server][k] = files[c.server][k]
        BY <1>9, <3>1
      <4> QED
        BY <4>1, <4>2, <4>3 DEF CallAt
    <3> QED
      BY <1>13, <3>1, <3>2
  <2>2. CASE c = new
    <3>1. /\ c.event.index + 1 \in DOMAIN made'
          /\ made'[c.event.index + 1].id = c.event.id /\ made'[c.event.index + 1].run = c.run
          /\ c.at <= clock' /\ c.run <= manifest'.run
      BY <1>8, <1>14, <2>2
    <3>2. c.run = run /\ config[c.server] \in {"stdio", "both"} => proxy[c.server] = "running"
      BY <1>3, <1>8, <2>2
    <3>3. L \in CallRows(files'[s]) /\ files'[s][L] = row
      BY <1>9
    <3> QED
      BY <1>7, <1>8, <2>2, <3>1, <3>2, <3>3
  <2> QED
    BY <1>1, <2>1, <2>2
<1>18. OrderInv'
  <2> SUFFICES ASSUME NEW t \in Servers, NEW u \in Servers,
                      NEW j \in CallRows(files'[t]), NEW k \in CallRows(files'[u]),
                      files'[t][j].row.kind = "call", files'[u][k].row.kind = "call",
                      files'[t][j].row.event.index < files'[u][k].row.event.index
               PROVE  files'[t][j].at <= files'[u][k].at /\ (t = u => j < k)
    BY DEF OrderInv
  <2>1. \A v \in Servers : \A i \in CallRows(files[v]) :
           /\ files[v][i].row.event.index < Len(made) /\ files[v][i].row.event.index \in Nat
           /\ files[v][i].at <= clock /\ files[v][i].at \in Nat
    <3> TAKE v \in Servers
    <3> TAKE i \in CallRows(files[v])
    <3>1. /\ files[v][i].row.event.index \in Nat /\ files[v][i].at \in Nat
          /\ files[v][i].row.event.index + 1 \in DOMAIN made /\ files[v][i].at <= clock
      BY CallRowType DEF IInv, RowsInv, Backed
    <3>2. files[v][i].row.event.index + 1 \in 1..(N - 1) /\ N = Len(made) + 1
      BY <1>4, <1>10, <3>1
    <3> DEFINE index == files[v][i].row.event.index
    <3>3. index \in Nat /\ index + 1 \in 1..(N - 1) /\ N = Len(made) + 1 /\ Len(made) \in Nat /\ N \in Nat
      BY <1>4, <3>1, <3>2
    <3> HIDE DEF index
    <3>4. index < Len(made)
      BY <3>3
    <3> QED
      BY <3>1, <3>3, <3>4 DEF index
  <2>2. CASE k \in CallRows(files[u]) /\ files'[u][k] = files[u][k]
    <3>1. j \in CallRows(files[t]) /\ files'[t][j] = files[t][j]
      <4> SUFFICES ASSUME t = s /\ j = L PROVE FALSE
        BY <1>9
      <4>1. files'[t][j].row.event.index = Len(made)
        BY <1>6, <1>7, <1>9
      <4> QED
        BY <1>4, <2>1, <2>2, <4>1
    <3> QED
      BY <2>2, <3>1 DEF IInv, OrderInv
  <2>3. CASE u = s /\ k = L
    <3>1. files'[u][k].at = moment /\ files'[u][k].row.event.index = Len(made)
      BY <1>6, <1>7, <1>9, <2>3
    <3>2. j \in CallRows(files[t]) /\ files'[t][j] = files[t][j]
      <4> SUFFICES ASSUME t = s /\ j = L PROVE FALSE
        BY <1>9
      <4>1. files'[t][j].row.event.index = Len(made)
        BY <1>6, <1>7, <1>9
      <4> QED
        BY <1>4, <3>1, <4>1
    <3>3. files'[t][j].at <= files'[u][k].at
      BY <1>2, <2>1, <3>1, <3>2
    <3>4. t = s => j < L
      BY <1>9, <3>2
    <3> QED
      BY <2>3, <3>3, <3>4
  <2> QED
    BY <1>9, <2>2, <2>3
<1>19. HeldInv'
  <2> SUFFICES ASSUME run \notin hasty', NEW n \in DOMAIN made', made'[n].run = run, ~Direct(made'[n].server)
               PROVE  LET t == made'[n].server
                      IN  /\ config[t] = "stdio" => proxy[t] # "none"
                          /\ \E k \in CallRows(files'[t]) :
                                /\ files'[t][k].row.kind = "call" /\ files'[t][k].run = run
                                /\ files'[t][k].row.event.index = n - 1
    BY <1>1 DEF HeldInv, CallAt, Direct
  <2>1. CASE n = N
    <3>1. made'[n].server = s /\ r = run /\ n - 1 = Len(made)
      BY <1>4, <1>5, <1>10, <2>1
    <3> QED
      BY <1>3, <1>6, <1>7, <1>9, <3>1
  <2>2. CASE n \in DOMAIN made
    <3> DEFINE t == made[n].server
    <3>1. made'[n] = made[n] /\ t \in Servers /\ run \notin hasty
      BY <1>1, <1>4, <2>2, Naturals DEF MadeCalls
    <3>2. /\ config[t] = "stdio" => proxy[t] # "none"
          /\ \E k \in CallRows(files[t]) : CallAt(files[t], k, n - 1)
      BY <2>2, <3>1 DEF IInv, HeldInv
    <3>3. \A k \in CallRows(files[t]) : k \in CallRows(files'[t]) /\ files'[t][k] = files[t][k]
      BY <1>9, <3>1
    <3> QED
      BY <3>1, <3>2, <3>3 DEF CallAt
  <2> QED
    BY <1>4, <2>1, <2>2
<1>20. EndInv'
  <2> SUFFICES ASSUME NEW t \in Servers, proxy'[t] = "running"
               PROVE  /\ proxy[t] = "running"
                      /\ \A k \in DOMAIN files'[t] :
                            \/ k \in DOMAIN files[t] /\ files'[t][k] = files[t][k]
                            \/ files'[t][k].row.kind # "end"
    BY <1>1, EndKept
  <2> QED
    BY <1>1, <1>9
<1> QED
  BY <1>11, <1>12, <1>15, <1>16, <1>17, <1>18, <1>19, <1>20 DEF IInv

LEMMA SettleStep ==
  ASSUME IInv, NEW c \in open, NEW answered \in BOOLEAN, Settle(c, answered)
  PROVE  IInv'
<1> DEFINE s == c.server
           result == Stamped(ResultRow([c.event EXCEPT !.of = c.event.id]), c.run, c.at)
           gap == Plain(GapRow("transport", c.event.id), c.run)
           L == Len(files[s]) + 1
<1>1. /\ files' = [files EXCEPT ![s] = Append(files[s], IF answered THEN result ELSE gap)]
      /\ open' = open \ {c}
      /\ UNCHANGED <<run, pc, config, listeners, manifest, proxy, stray, clock, made, hasty, published>>
  BY DEF Settle, setup
<1>0. /\ open' \subseteq open
      /\ UNCHANGED <<run, pc, config, listeners, manifest, proxy, stray, clock, made, hasty, published>>
  BY <1>1
<1>2. /\ s \in Servers /\ c.run \in Nat /\ c.at \in Nat /\ c.event \in Events /\ Backed(c.event, c.run, c.at)
      /\ c.run = run => \E k \in CallRows(files[s]) : CallAt(files[s], k, c.event.index)
  BY DEF IInv, TypeInv, OpenCalls, OpenInv
<1>3. proxy \in [Servers -> {"none", "running", "gone"}] /\ stray \in [Servers -> Nat]
  BY DEF IInv, TypeInv
<1>4. CASE ~answered
  <2>1. c.event.id \in Ids
    BY <1>2 DEF Events
  <2>2. gap \in Rows /\ gap.row.kind = "gap"
    BY <1>2, <2>1, OtherRows
  <2>3. files' = [files EXCEPT ![s] = Append(files[s], gap)] /\ open' \subseteq open
    BY <1>1, <1>4
  <2> HIDE DEF gap, s
  <2> QED
    BY <1>1, <1>2, <1>3, <2>2, <2>3, RowStep
<1>5. CASE answered
  <2> DEFINE event == [c.event EXCEPT !.of = c.event.id]
  <2>1. event \in Events /\ event.index = c.event.index /\ event.id = c.event.id
    BY <1>2 DEF Events
  <2> HIDE DEF event
  <2>2. /\ result \in Rows /\ result.row.kind = "result" /\ result.row.event.index = c.event.index
        /\ result.row.event.id = c.event.id /\ result.run = c.run /\ result.at = c.at
    <3>1. result = Stamped(ResultRow(event), c.run, c.at)
      BY DEF event
    <3> QED
      BY <1>2, <2>1, <3>1 DEF Stamped, ResultRow, Rows
  <2>3. files' = [files EXCEPT ![s] = Append(files[s], result)]
    BY <1>1, <1>5
  <2> HIDE DEF result, s
  <2>4. /\ files' \in [Servers -> Seq(Rows)] /\ L \in Nat
        /\ L \in CallRows(files'[s]) /\ files'[s][L] = result
        /\ \A t \in Servers : \A k \in CallRows(files[t]) :
              k \in CallRows(files'[t]) /\ files'[t][k] = files[t][k] /\ (t = s => k < L)
        /\ \A t \in Servers : \A k \in CallRows(files'[t]) :
              \/ k \in CallRows(files[t]) /\ files'[t][k] = files[t][k]
              \/ t = s /\ k = L
        /\ \A t \in Servers : \A k \in DOMAIN files'[t] :
              \/ k \in DOMAIN files[t] /\ files'[t][k] = files[t][k]
              \/ files'[t][k].row.kind # "end"
    BY <1>2, <2>2, <2>3, OneRow
  <2> HIDE DEF L
  <2>5. TypeInv' /\ MadeInv' /\ ManifestInv'
    <3>1. TypeInv'
      BY <1>1, <2>4 DEF IInv, TypeInv, Remote, With
    <3>2. MadeInv'
      BY <1>1 DEF IInv, MadeInv
    <3>3. ManifestInv'
      BY <1>1 DEF IInv, ManifestInv, Running, ThisManifest, With, Found
    <3> QED
      BY <3>1, <3>2, <3>3
  <2>6. RowsInv'
    <3> SUFFICES ASSUME NEW t \in Servers, NEW k \in CallRows(files'[t])
                 PROVE  Backed(files'[t][k].row.event, files'[t][k].run, files'[t][k].at)
      BY <1>1 DEF RowsInv, Backed
    <3>1. CASE k \in CallRows(files[t]) /\ files'[t][k] = files[t][k]
      BY <3>1 DEF IInv, RowsInv
    <3>2. CASE t = s /\ k = L
      BY <1>2, <2>2, <2>4, <3>2 DEF Backed
    <3> QED
      BY <2>4, <3>1, <3>2
  <2>7. FirstInv'
    <3> SUFFICES ASSUME NEW t \in Servers, NEW k \in CallRows(files'[t]),
                        files'[t][k].row.kind = "result", files'[t][k].run = run
                 PROVE  \E j \in CallRows(files'[t]) :
                           /\ j < k /\ files'[t][j].row.kind = "call" /\ files'[t][j].run = run
                           /\ files'[t][j].row.event.index = files'[t][k].row.event.index
      BY <1>0 DEF FirstInv, CallAt
    <3>1. CASE k \in CallRows(files[t]) /\ files'[t][k] = files[t][k]
      <4>1. PICK j \in CallRows(files[t]) : j < k /\ CallAt(files[t], j, files[t][k].row.event.index)
        BY <3>1 DEF IInv, FirstInv
      <4>2. j \in CallRows(files'[t]) /\ files'[t][j] = files[t][j]
        BY <2>4
      <4> QED
        BY <3>1, <4>1, <4>2 DEF CallAt
    <3>2. CASE t = s /\ k = L
      <4>1. files'[t][k] = result
        BY <2>4, <3>2
      <4>2. PICK j \in CallRows(files[s]) : CallAt(files[s], j, c.event.index)
        BY <1>2, <2>2, <4>1
      <4>3. j \in CallRows(files'[s]) /\ files'[s][j] = files[s][j] /\ j < L
        BY <1>2, <2>4
      <4> QED
        BY <2>2, <3>2, <4>1, <4>2, <4>3 DEF CallAt
    <3> QED
      BY <2>4, <3>1, <3>2
  <2>8. OpenInv'
    <3> SUFFICES ASSUME NEW d \in open
                 PROVE  /\ Backed(d.event, d.run, d.at)
                        /\ d.run = run =>
                              /\ config[d.server] \in {"stdio", "both"} => proxy[d.server] = "running"
                              /\ \E k \in CallRows(files'[d.server]) :
                                    /\ files'[d.server][k].row.kind = "call" /\ files'[d.server][k].run = run
                                    /\ files'[d.server][k].row.event.index = d.event.index
      BY <1>0 DEF OpenInv, Backed, CallAt
    <3>1. /\ d.server \in Servers /\ Backed(d.event, d.run, d.at)
          /\ d.run = run =>
                /\ config[d.server] \in {"stdio", "both"} => proxy[d.server] = "running"
                /\ \E k \in CallRows(files[d.server]) : CallAt(files[d.server], k, d.event.index)
      BY DEF IInv, TypeInv, OpenInv, OpenCalls
    <3>2. \A k \in CallRows(files[d.server]) :
             k \in CallRows(files'[d.server]) /\ files'[d.server][k] = files[d.server][k]
      BY <2>4, <3>1
    <3> QED
      BY <3>1, <3>2 DEF CallAt
  <2>9. OrderInv'
    <3> SUFFICES ASSUME NEW t \in Servers, NEW u \in Servers,
                        NEW j \in CallRows(files'[t]), NEW k \in CallRows(files'[u]),
                        files'[t][j].row.kind = "call", files'[u][k].row.kind = "call",
                        files'[t][j].row.event.index < files'[u][k].row.event.index
                 PROVE  files'[t][j].at <= files'[u][k].at /\ (t = u => j < k)
      BY DEF OrderInv
    <3>1. /\ j \in CallRows(files[t]) /\ files'[t][j] = files[t][j]
          /\ k \in CallRows(files[u]) /\ files'[u][k] = files[u][k]
      BY <2>2, <2>4
    <3> QED
      BY <3>1 DEF IInv, OrderInv
  <2>10. HeldInv'
    <3> SUFFICES ASSUME run \notin hasty, NEW n \in DOMAIN made, made[n].run = run, ~Direct(made[n].server)
                 PROVE  LET t == made[n].server
                        IN  /\ config[t] = "stdio" => proxy[t] # "none"
                            /\ \E k \in CallRows(files'[t]) :
                                  /\ files'[t][k].row.kind = "call" /\ files'[t][k].run = run
                                  /\ files'[t][k].row.event.index = n - 1
      BY <1>0 DEF HeldInv, CallAt, Direct
    <3> DEFINE t == made[n].server
    <3>1. t \in Servers
      BY Naturals DEF MadeCalls
    <3>2. /\ config[t] = "stdio" => proxy[t] # "none"
          /\ \E k \in CallRows(files[t]) : CallAt(files[t], k, n - 1)
      BY DEF IInv, HeldInv
    <3>3. \A k \in CallRows(files[t]) : k \in CallRows(files'[t]) /\ files'[t][k] = files[t][k]
      BY <2>4, <3>1
    <3> QED
      BY <3>2, <3>3 DEF CallAt
  <2>11. EndInv'
    <3> SUFFICES ASSUME NEW t \in Servers, proxy'[t] = "running"
                 PROVE  /\ proxy[t] = "running"
                        /\ \A k \in DOMAIN files'[t] :
                              \/ k \in DOMAIN files[t] /\ files'[t][k] = files[t][k]
                              \/ files'[t][k].row.kind # "end"
      BY <1>1, EndKept
    <3> QED
      BY <1>1, <2>4
  <2>12. DoneInv' /\ PublishedInv'
    BY <1>1, Naturals, DoneKept, PublishedKept
  <2> QED
    BY <2>5, <2>6, <2>7, <2>8, <2>9, <2>10, <2>11, <2>12 DEF IInv
<1> QED
  BY <1>4, <1>5

---------------------------------------------------------------------------
(* The assembling.                                                         *)

LEMMA Ranks == \A s \in Servers : Rank(s) \in Nat /\ Names[Rank(s)] = s
<1> TAKE s \in Servers
<1>1. \E i \in DOMAIN Names : Names[i] = s
  BY DEF Servers, ToSet
<1>2. DOMAIN Names \subseteq Nat
  BY WatchAssumption
<1> QED
  BY <1>1, <1>2 DEF Rank

\* What is placed is a row about a call, in a file, the first about it, and not of another run.
LEMMA PlacedRow ==
  ASSUME IInv, NEW x \in Placed
  PROVE  /\ x.server \in Servers /\ x.row \in CallRows(files[x.server]) /\ x.row \in Nat
         /\ x = [server |-> x.server, row |-> x.row]
         /\ ~IsForeign(files[x.server][x.row])
         /\ Moment(x) \in Nat
         /\ \A m \in CallRows(files[x.server]) :
               /\ ~IsForeign(files[x.server][m])
               /\ files[x.server][m].row.event.index = files[x.server][x.row].row.event.index
               => x.row <= m
<1>0. PICK s \in PartsRead : x \in { [server |-> s, row |-> k] : k \in FirstRows(Part(s)) }
  BY DEF Placed
<1>1. PICK k \in FirstRows(Part(s)) : x = [server |-> s, row |-> k]
  BY <1>0
<1>2. s \in Servers /\ files[s] \in Seq(Rows)
  BY Naturals DEF PartsRead, Parts
<1>3. k \in DOMAIN files[s] /\ ~IsForeign(files[s][k]) /\ files[s][k].row.kind \in {"call", "result"}
  <2>1. k \in Ours(s) /\ Part(s)[k].kind \in {"call", "result"}
    BY DEF FirstRows, Part
  <2>2. Part(s)[k] = files[s][k].row
    BY <2>1 DEF Part
  <2> QED
    BY <2>1, <2>2 DEF Ours
<1>4. k \in CallRows(files[s])
  BY <1>3 DEF CallRows
<1>5. files[s][k].at \in Nat /\ k \in Nat
  BY <1>2, <1>4, CallRowType
<1>6. ASSUME NEW m \in CallRows(files[s]), ~IsForeign(files[s][m]),
             files[s][m].row.event.index = files[s][k].row.event.index
      PROVE  k <= m
  <2>1. m \in Ours(s) /\ k \in Ours(s) /\ files[s][m].row.kind \in {"call", "result"}
    BY <1>3, <1>6 DEF Ours, CallRows
  <2>2. DOMAIN Part(s) = Ours(s) /\ Part(s)[m] = files[s][m].row /\ Part(s)[k] = files[s][k].row
    BY <2>1 DEF Part
  <2>3. m \in About(Part(s), Part(s)[k].event.index)
    BY <1>6, <2>1, <2>2 DEF About
  <2> QED
    BY <1>1, <2>3 DEF FirstRows
<1>7. x.server = s /\ x.row = k
  BY <1>1
<1> QED
  BY <1>1, <1>2, <1>3, <1>4, <1>5, <1>6, <1>7 DEF Moment

LEMMA PlacedIsFinite == ASSUME IInv PROVE IsFiniteSet(Placed)
<1> DEFINE of(s) == { [server |-> s, row |-> k] : k \in FirstRows(Part(s)) }
<1>1. IsFiniteSet(PartsRead)
  <2>1. IsFiniteSet(DOMAIN Names)
    BY WatchAssumption, FS_Interval
  <2> DEFINE name == [i \in DOMAIN Names |-> Names[i]]
  <2>2. name \in Surjection(DOMAIN Names, Servers)
    BY DEF Surjection, Servers, ToSet
  <2>3. IsFiniteSet(Servers)
    BY <2>1, <2>2, FS_Surjection
  <2>4. PartsRead \in SUBSET Servers
    BY DEF PartsRead, Parts
  <2> QED
    BY <2>3, <2>4, FS_Subset
<1>2. ASSUME NEW s \in PartsRead PROVE IsFiniteSet(of(s))
  <2>1. files[s] \in Seq(Rows)
    BY Naturals DEF PartsRead, Parts
  <2>2. FirstRows(Part(s)) \in SUBSET (1..Len(files[s])) /\ IsFiniteSet(1..Len(files[s]))
    BY <2>1, FS_Interval DEF FirstRows, Part, Ours
  <2>3. IsFiniteSet(FirstRows(Part(s)))
    BY <2>2, FS_Subset
  <2> DEFINE at == [k \in FirstRows(Part(s)) |-> [server |-> s, row |-> k]]
  <2>4. at \in Surjection(FirstRows(Part(s)), of(s))
    BY DEF Surjection
  <2> QED
    BY <2>3, <2>4, FS_Surjection
<1> DEFINE all == [s \in PartsRead |-> of(s)]
<1>3. all \in Surjection(PartsRead, { of(s) : s \in PartsRead })
  BY DEF Surjection
<1>4. IsFiniteSet({ of(s) : s \in PartsRead })
  BY <1>1, <1>3, FS_Surjection
<1>5. \A T \in { of(s) : s \in PartsRead } : IsFiniteSet(T)
  BY <1>2
<1>6. IsFiniteSet(UNION { of(s) : s \in PartsRead })
  BY <1>4, <1>5, FS_UNION
<1> QED
  BY <1>6 DEF Placed

\* The trace has every event placed, each after those that are earlier.
LEMMA TraceInOrder ==
  ASSUME IInv
  PROVE  /\ Len(Ordered) \in Nat /\ DOMAIN Ordered = 1..Len(Ordered)
         /\ \A n \in DOMAIN Ordered : Ordered[n] \in Placed
         /\ \A x \in Placed : \E n \in DOMAIN Ordered : Ordered[n] = x
         /\ \A m, n \in DOMAIN Ordered : m < n => Earlier(Ordered[m], Ordered[n])
<1> DEFINE before == { xy \in Placed \X Placed : Earlier(xy[1], xy[2]) }
<1>1. \A x, y \in Placed : <<x, y>> \in before <=> Earlier(x, y)
  OBVIOUS
<1> HIDE DEF before
<1>2. \A x \in Placed : x.server \in Servers /\ Moment(x) \in Nat /\ Rank(x.server) \in Nat /\ x.row \in Nat
  BY PlacedRow, Ranks
<1>3. \A x \in Placed : <<x, x>> \notin before
  <2>1. \A x \in Placed : ~Earlier(x, x)
    BY <1>2 DEF Earlier
  <2> QED
    BY <1>1, <2>1
<1>4. \A x, y \in Placed : x # y => <<x, y>> \in before \/ <<y, x>> \in before
  <2> SUFFICES ASSUME NEW x \in Placed, NEW y \in Placed, x # y
               PROVE  Earlier(x, y) \/ Earlier(y, x)
    BY <1>1
  <2>1. x.server # y.server \/ x.row # y.row
    BY PlacedRow
  <2>2. x.server # y.server => Rank(x.server) # Rank(y.server)
    BY <1>2, Ranks
  <2> QED
    BY <1>2, <2>1, <2>2 DEF Earlier
<1>5. \A x, y, z \in Placed : <<x, y>> \in before /\ <<y, z>> \in before => <<x, z>> \in before
  <2> SUFFICES ASSUME NEW x \in Placed, NEW y \in Placed, NEW z \in Placed, Earlier(x, y), Earlier(y, z)
               PROVE  Earlier(x, z)
    BY <1>1
  <2> QED
    BY <1>2 DEF Earlier
<1>6. Ordered = InOrder(Placed, before)
  BY DEF Ordered, before
<1>7. /\ Len(Ordered) \in Nat /\ DOMAIN Ordered = 1..Len(Ordered)
      /\ \A n \in DOMAIN Ordered : Ordered[n] \in Placed
      /\ \A x \in Placed : \E n \in DOMAIN Ordered : Ordered[n] = x
      /\ \A m, n \in DOMAIN Ordered : m < n => <<Ordered[m], Ordered[n]>> \in before
  BY <1>3, <1>4, <1>5, <1>6, PlacedIsFinite, Told
<1> QED
  BY <1>1, <1>7

\* In a run with a manifest of its own, what is placed is a row of this run, and its call is
\* one of this run's.
LEMMA PlacedIsOurs ==
  ASSUME IInv, FoundAgain, pc = "ended", NEW x \in Placed
  PROVE  LET row == files[x.server][x.row]
         IN  /\ row.run = run /\ manifest = ThisManifest /\ manifest.run = run /\ manifest # NoManifest
             /\ row.row.event.index + 1 \in DOMAIN made
             /\ made[row.row.event.index + 1].id = row.row.event.id
             /\ made[row.row.event.index + 1].run = run
<1> DEFINE row == files[x.server][x.row]
           N == row.row.event.index + 1
<1>1. x.server \in Servers /\ x.row \in CallRows(files[x.server]) /\ ~IsForeign(row)
  BY PlacedRow
<1>2. /\ N \in DOMAIN made /\ made[N].id = row.row.event.id /\ made[N].run = row.run
      /\ row.run <= manifest.run
  BY <1>1 DEF IInv, RowsInv, Backed
<1> HIDE DEF N
<1>3. made[N].run \in Nat \ {0} /\ run \in Nat \ {0}
  <2>1. made[N] \in MadeCalls
    BY <1>2, Naturals
  <2> QED
    BY <2>1, Naturals DEF MadeCalls
<1>4. manifest # NoManifest
  BY <1>2, <1>3 DEF NoManifest
<1>5. row.run = manifest.run
  BY <1>1, <1>4 DEF IsForeign
<1>6. manifest = ThisManifest
  BY <1>4 DEF IInv, ManifestInv, Running
<1>7. manifest.run = run
  BY <1>6 DEF ThisManifest
<1> QED
  BY <1>2, <1>4, <1>5, <1>6, <1>7 DEF N

\* What a run tells is what its agent did.
LEMMA OwnCalls ==
  ASSUME IInv, FoundAgain, pc = "ended", NEW x \in Placed
  PROVE  Id(x) \in CallsOf(run)
<1> DEFINE N == files[x.server][x.row].row.event.index + 1
<1>1. N \in DOMAIN made /\ made[N].id = files[x.server][x.row].row.event.id /\ made[N].run = run
  BY PlacedIsOurs
<1> QED
  BY <1>1 DEF Id, CallsOf

\* What is placed is the row the call was entered with: its outcome comes later in the file.
LEMMA PlacedIsTheCall ==
  ASSUME IInv, FoundAgain, pc = "ended", NEW x \in Placed
  PROVE  files[x.server][x.row].row.kind = "call"
<1> DEFINE f == files[x.server]
<1>1. /\ x.server \in Servers /\ x.row \in CallRows(f) /\ x.row \in Nat
      /\ \A m \in CallRows(f) :
            ~IsForeign(f[m]) /\ f[m].row.event.index = f[x.row].row.event.index => x.row <= m
  BY PlacedRow
<1>2. f[x.row].run = run /\ manifest.run = run
  BY PlacedIsOurs
<1> SUFFICES ASSUME f[x.row].row.kind = "result" PROVE FALSE
  BY <1>1 DEF CallRows
<1>3. PICK j \in CallRows(f) : j < x.row /\ CallAt(f, j, f[x.row].row.event.index)
  BY <1>1, <1>2 DEF IInv, FirstInv
<1>4. ~IsForeign(f[j]) /\ f[j].row.event.index = f[x.row].row.event.index
  BY <1>2, <1>3 DEF CallAt, IsForeign
<1>5. x.row <= j /\ j \in Nat
  BY <1>1, <1>3, <1>4, CallRowType
<1> QED
  BY <1>1, <1>3, <1>5

\* A trace that is whole has every call: each went through a recorder, or was on a road
\* the manifest names as left alone.
LEMMA WholeHasAll ==
  ASSUME IInv, OneTransport, FoundAgain, pc = "ended", WholeTrace, run \notin hasty,
         NEW n \in DOMAIN made, made[n].run = run
  PROVE  \E x \in Placed : Id(x) = made[n].id
<1> DEFINE s == made[n].server
           f == files[s]
<1>1. s \in Servers /\ f \in Seq(Rows) /\ run \in Nat \ {0}
  BY Naturals DEF MadeCalls
<1>2. manifest # NoManifest /\ manifest.direct = {}
  BY DEF WholeTrace, NotInterposed
<1>3. manifest = ThisManifest /\ Found /\ manifest.run = run
  BY <1>2 DEF IInv, ManifestInv, Running, ThisManifest
<1>4. ~Direct(s)
  <2> SUFFICES ASSUME Direct(s) PROVE FALSE
    OBVIOUS
  <2>1. config[s] \in AllShapes /\ config[s] # "both" /\ config[s] # "no_config"
    <3>1. config \in Configs[run] /\ config # NoConfig /\ run \in 1..MaxRuns
      BY <1>3, Naturals DEF Found
    <3>2. config[s] # "both"
      BY <1>1, <3>1 DEF OneTransport
    <3>3. config \in [Servers -> AllShapes]
      BY <3>1, WatchAssumption
    <3>4. config[s] \in AllShapes
      BY <1>1, <3>3
    <3> QED
      BY <3>2, <3>4 DEF AllShapes
  <2>2. config[s] = "other" \/ (config[s] = "http" /\ s \notin listeners)
    BY <2>1 DEF Direct
  <2>3. s \in manifest.direct
    BY <1>1, <1>3, <2>2 DEF ThisManifest, With
  <2> QED
    BY <1>2, <2>3
<1>5. PICK k \in CallRows(f) : CallAt(f, k, n - 1)
  BY <1>4 DEF IInv, HeldInv
<1>6. k \in Ours(s) /\ k \in DOMAIN f /\ f[k].row.kind = "call" /\ f[k].run = run
  BY <1>3, <1>5 DEF Ours, IsForeign, CallRows, CallAt
<1>7. s \in PartsRead
  <2>1. f # Absent
    BY <1>6 DEF Absent
  <2> QED
    BY <1>1, <1>6, <2>1 DEF PartsRead, Parts
<1> DEFINE part  == Part(s)
           about == About(part, f[k].row.event.index)
<1>8. \A m \in Ours(s) : part[m] = f[m].row /\ m \in DOMAIN f
  BY DEF Part, Ours
<1>9. DOMAIN part = Ours(s)
  BY DEF Part
<1> HIDE DEF part
<1>10. about \subseteq Nat /\ k \in about
  BY <1>1, <1>6, <1>8, <1>9 DEF About
<1>11. PICK m \in about : \A j \in about : m <= j
  BY <1>10, FirstExists
<1>12. /\ m \in Ours(s) /\ m \in CallRows(f)
       /\ f[m].row.event.index = f[k].row.event.index
       /\ part[m].kind \in {"call", "result"} /\ part[m].event.index = f[k].row.event.index
  BY <1>8, <1>9, <1>11 DEF About, CallRows
<1>13. m \in FirstRows(part)
  <2>1. m \in DOMAIN part
    BY <1>9, <1>12
  <2> QED
    BY <1>11, <1>12, <2>1 DEF FirstRows
<1>14. f[m].row.event.id = made[n].id
  <2>1. f[m].row.event.index = n - 1 /\ n \in Nat
    BY <1>5, <1>12, Naturals DEF CallAt
  <2>2. made[f[m].row.event.index + 1].id = f[m].row.event.id
    BY <1>1, <1>12 DEF IInv, RowsInv, Backed
  <2> QED
    BY <2>1, <2>2
<1>15. [server |-> s, row |-> m] \in Placed
  <2>1. [server |-> s, row |-> m] \in { [server |-> s, row |-> i] : i \in FirstRows(part) }
    BY <1>13
  <2> QED
    BY <1>7, <2>1 DEF Placed, part
<1>16. Id([server |-> s, row |-> m]) = made[n].id
  BY <1>14 DEF Id
<1> QED
  BY <1>15, <1>16

\* Two calls of which one comes after the other in a trace whose order was observed.
LEMMA ObservedOrder ==
  ASSUME IInv, IdsOnce, FoundAgain, pc = "ended", ~OrderNotObserved,
         NEW i \in DOMAIN made, NEW j \in DOMAIN made, i < j,
         NEW m \in DOMAIN Ordered, NEW n \in DOMAIN Ordered,
         Id(Ordered[m]) = made[i].id, Id(Ordered[n]) = made[j].id
  PROVE  m < n
<1> DEFINE x == Ordered[m]
           y == Ordered[n]
           N == Len(Ordered)
           server == [k \in 1..N |-> Ordered[k].server]
<1>1. /\ N \in Nat /\ DOMAIN Ordered = 1..N /\ \A k \in 1..N : Ordered[k] \in Placed
      /\ \A k, l \in 1..N : k < l => Earlier(Ordered[k], Ordered[l])
  BY TraceInOrder
<1>2. \A k \in 1..N : Moment(Ordered[k]) \in Nat
  BY <1>1, PlacedRow
<1>3. /\ x.server \in Servers /\ x.row \in CallRows(files[x.server]) /\ x.row \in Nat
      /\ y.server \in Servers /\ y.row \in CallRows(files[y.server]) /\ y.row \in Nat
  BY <1>1, PlacedRow
<1>4. ASSUME NEW z \in Placed, NEW l \in DOMAIN made, Id(z) = made[l].id
      PROVE  files[z.server][z.row].row.kind = "call" /\ files[z.server][z.row].row.event.index = l - 1
  <2> DEFINE index == files[z.server][z.row].row.event.index
  <2>1. index + 1 \in DOMAIN made /\ made[index + 1].id = Id(z)
    BY PlacedIsOurs DEF Id
  <2>2. index \in Nat
    BY PlacedRow, CallRowType
  <2>3. /\ made[index + 1].id = CallIds[index + 1] /\ made[l].id = CallIds[l]
        /\ index + 1 \in DOMAIN CallIds /\ l \in DOMAIN CallIds
    <3>1. \A k \in DOMAIN made : k \in DOMAIN CallIds /\ made[k].id = CallIds[k]
      BY WatchAssumption, Naturals DEF IInv, MadeInv
    <3> HIDE DEF index
    <3> QED
      BY <2>1, <3>1
  <2>4. index + 1 = l
    BY <1>4, <2>1, <2>3 DEF IdsOnce
  <2>5. l \in Nat
    BY Naturals
  <2> QED
    BY <2>2, <2>4, <2>5, PlacedIsTheCall
<1>5. Moment(x) <= Moment(y) /\ (x.server = y.server => x.row < y.row)
  <2>1. /\ files[x.server][x.row].row.kind = "call" /\ files[x.server][x.row].row.event.index = i - 1
        /\ files[y.server][y.row].row.kind = "call" /\ files[y.server][y.row].row.event.index = j - 1
    BY <1>1, <1>4
  <2>2. i - 1 < j - 1
    BY Naturals
  <2> QED
    BY <1>3, <2>1, <2>2 DEF IInv, OrderInv, Moment
<1> SUFFICES ASSUME ~ (m < n) PROVE FALSE
  OBVIOUS
<1>6. n < m
  <2>1. made[i].id # made[j].id
    <3>1. i \in DOMAIN CallIds /\ j \in DOMAIN CallIds /\ i # j
      BY WatchAssumption, Naturals DEF IInv, TypeInv, MadeInv
    <3>2. made[i].id = CallIds[i] /\ made[j].id = CallIds[j]
      BY DEF IInv, MadeInv
    <3> QED
      BY <3>1, <3>2 DEF IdsOnce
  <2>2. m # n
    BY <2>1
  <2> QED
    BY <1>1, <2>2
<1>7. Earlier(y, x)
  BY <1>1, <1>6
<1>8. Moment(x) = Moment(y) /\ x.server # y.server
  <2>1. Moment(x) \in Nat /\ Moment(y) \in Nat /\ Rank(x.server) \in Nat
    BY <1>1, <1>2, <1>3, Ranks
  <2>2. Moment(x) = Moment(y)
    BY <1>5, <1>7, <2>1 DEF Earlier
  <2>3. ASSUME x.server = y.server PROVE FALSE
    <3>1. x.row < y.row /\ ~ (y.row < x.row)
      BY <1>3, <1>5, <2>3
    <3> QED
      BY <1>7, <2>1, <2>2, <2>3, <3>1 DEF Earlier
  <2> QED
    BY <2>2, <2>3
<1>9. DOMAIN server = 1..N /\ \A k \in 1..N : server[k] = Ordered[k].server
  OBVIOUS
<1> HIDE DEF server
<1>10. PICK k \in n..(m - 1) : server[k] # server[k + 1]
  <2>1. server[n] # server[m] /\ n \in 1..N /\ m \in 1..N
    BY <1>1, <1>8, <1>9
  <2> QED
    BY <1>1, <1>6, <1>9, <2>1, ChangeBetween
<1>11. k \in 1..(N - 1) /\ k \in 1..N /\ k + 1 \in 1..N /\ n <= k /\ k + 1 <= m
  BY <1>1, <1>10
<1>12. \A a, b \in 1..N : a <= b => Moment(Ordered[a]) <= Moment(Ordered[b])
  <2> SUFFICES ASSUME NEW a \in 1..N, NEW b \in 1..N, a <= b
               PROVE  Moment(Ordered[a]) <= Moment(Ordered[b])
    OBVIOUS
  <2>1. CASE a = b
    BY <1>2, <2>1
  <2>2. CASE a < b
    <3>1. Earlier(Ordered[a], Ordered[b])
      BY <1>1, <2>2
    <3> QED
      BY <1>2, <3>1 DEF Earlier
  <2> QED
    BY <2>1, <2>2
<1>13. /\ Moment(y) <= Moment(Ordered[k]) /\ Moment(Ordered[k]) <= Moment(Ordered[k + 1])
       /\ Moment(Ordered[k + 1]) <= Moment(x)
  BY <1>1, <1>11, <1>12
<1>14. Moment(Ordered[k]) = Moment(Ordered[k + 1])
  BY <1>1, <1>2, <1>8, <1>11, <1>13
<1>15. Ordered[k].server # Ordered[k + 1].server
  BY <1>9, <1>10, <1>11
<1> QED
  BY <1>11, <1>14, <1>15 DEF OrderNotObserved


\* A run whose trace is whole has no proxy left: one that is running has not written its end.
LEMMA WholeIsDone ==
  ASSUME IInv, OneTransport, pc = "ended", WholeTrace, NEW s \in Servers, proxy[s] = "running"
  PROVE  FALSE
<1>1. Running /\ config[s] \in {"stdio", "both"}
  BY DEF IInv, ManifestInv
<1>2. manifest = ThisManifest /\ manifest.run = run /\ run \in Nat /\ run >= 1
  BY <1>1, InForce, Naturals
<1>3. s \in manifest.interposed /\ manifest # NoManifest
  BY <1>1, <1>2 DEF ThisManifest, With, NoManifest
<1>4. s \in PartsRead /\ PartComplete(Part(s))
  BY <1>3 DEF WholeTrace, InventoryMissing
<1>5. PICK k \in DOMAIN Part(s) : Part(s)[k].kind = "end"
  BY <1>4 DEF PartComplete, PartEnded
<1>6. k \in Ours(s) /\ Part(s)[k] = files[s][k].row
  BY DEF Part
<1>7. k \in DOMAIN files[s] /\ files[s][k].run = run /\ files[s][k].row.kind = "end"
  BY <1>2, <1>3, <1>5, <1>6 DEF Ours, IsForeign
<1> QED
  BY <1>7 DEF IInv, EndInv

LEMMA AssembleStep == ASSUME IInv, Assemble PROVE IInv'
<1> DEFINE trace == [events |-> [k \in DOMAIN Ordered |-> Id(Ordered[k])], complete |-> WholeTrace]
<1>1. /\ pc = "ended" /\ pc' = "assembled" /\ published' = [published EXCEPT ![run] = trace]
      /\ open' \subseteq open
      /\ UNCHANGED <<run, config, listeners, manifest, files, proxy, stray, clock, made, hasty>>
  BY DEF Assemble, setup
<1>2. /\ trace.events = [k \in DOMAIN Ordered |-> Id(Ordered[k])]
      /\ trace.complete = WholeTrace
  OBVIOUS
<1> HIDE DEF trace
<1>3. run \in 1..MaxRuns /\ DOMAIN published = 1..MaxRuns /\ run \in Nat /\ MaxRuns \in Nat
  BY Naturals, WatchAssumption DEF IInv, TypeInv
<1>4. published'[run] = trace /\ \A r \in 1..MaxRuns : r # run => published'[r] = published[r]
  BY <1>1, <1>3
<1>5. TypeInv'
  BY <1>1, <1>3 DEF IInv, TypeInv, Remote, With
<1>6. MadeInv' /\ ManifestInv'
  <2>1. MadeInv'
    BY <1>1 DEF IInv, MadeInv
  <2>2. ManifestInv'
    BY <1>1 DEF IInv, ManifestInv, Running, ThisManifest, With, Found
  <2> QED
    BY <2>1, <2>2
<1>7. RowsInv' /\ FirstInv' /\ OpenInv' /\ OrderInv'
  <2>1. \A s \in Servers : Same(files[s], files'[s])
    BY <1>1 DEF Same
  <2>2. ASSUME NEW c \in open', c.run = run, config[c.server] \in {"stdio", "both"}
        PROVE  proxy[c.server] = "running"
    BY <1>1, <2>2 DEF IInv, OpenInv
  <2>3. \A c \in open' : c.server \in Servers
    BY <1>1 DEF IInv, TypeInv, OpenCalls
  <2> QED
    BY <1>1, <2>1, <2>2, <2>3, Naturals, QuietFiles DEF Quiet
<1>8. HeldInv' /\ EndInv'
  <2>1. \A s \in Servers : Same(files[s], files'[s]) /\ proxy' = proxy
    BY <1>1 DEF Same
  <2>2. HeldInv'
    BY <1>1, <2>1, HeldKept
  <2>3. EndInv'
    BY <1>1 DEF IInv, EndInv
  <2> QED
    BY <2>2, <2>3
<1>9. DoneInv'
  <2> SUFFICES ASSUME OneTransport, NEW r \in 1..MaxRuns, published'[r].complete, NEW s \in Servers
               PROVE  stray[s] # r /\ (r = run => proxy[s] # "running")
    BY <1>1 DEF DoneInv
  <2>1. CASE r = run
    <3>1. WholeTrace
      BY <1>2, <1>4, <2>1
    <3>2. stray[s] < run /\ stray[s] \in Nat
      BY DEF IInv, TypeInv
    <3> QED
      BY <1>1, <1>3, <2>1, <3>1, <3>2, WholeIsDone
  <2>2. CASE r # run
    BY <1>4, <2>2 DEF IInv, DoneInv
  <2> QED
    BY <2>1, <2>2
<1>10. PublishedInv'
  <2>1. \A r : CallsOf(r)' = CallsOf(r)
    BY <1>1 DEF CallsOf
  <2>2. \A r \in 1..MaxRuns : r > run => published'[r] = NoTrace
    BY <1>3, <1>4 DEF IInv, PublishedInv
  <2>3. FoundAgain => PublishedIsThisRun'
    <3> SUFFICES ASSUME FoundAgain, NEW r \in 1..MaxRuns
                 PROVE  ToSet(published'[r].events) \subseteq CallsOf(r)
      BY <2>1 DEF PublishedIsThisRun
    <3>1. CASE r = run
      <4>1. \A k \in DOMAIN Ordered : Id(Ordered[k]) \in CallsOf(run)
        BY <1>1, TraceInOrder, OwnCalls
      <4> QED
        BY <1>2, <1>4, <3>1, <4>1 DEF ToSet
    <3>2. CASE r # run
      BY <1>4, <3>2 DEF IInv, PublishedInv, PublishedIsThisRun
    <3> QED
      BY <3>1, <3>2
  <2>4. FoundAgain /\ OneTransport => CompleteIsWhole'
    <3> SUFFICES ASSUME FoundAgain, OneTransport, NEW r \in (1..MaxRuns) \ hasty, published'[r].complete
                 PROVE  CallsOf(r) \subseteq ToSet(published'[r].events)
      BY <1>1, <2>1 DEF CompleteIsWhole
    <3>1. CASE r = run
      <4> SUFFICES ASSUME NEW n \in DOMAIN made, made[n].run = run
                   PROVE  \E k \in DOMAIN Ordered : Id(Ordered[k]) = made[n].id
        BY <1>2, <1>4, <3>1 DEF ToSet, CallsOf
      <4>1. WholeTrace
        BY <1>2, <1>4, <3>1
      <4>2. PICK x \in Placed : Id(x) = made[n].id
        BY <1>1, <3>1, <4>1, WholeHasAll
      <4> QED
        BY <4>2, TraceInOrder
    <3>2. CASE r # run
      BY <1>4, <3>2 DEF IInv, PublishedInv, CompleteIsWhole
    <3> QED
      BY <3>1, <3>2
  <2>5. FoundAgain /\ IdsOnce => OrderIsObserved'
    <3> SUFFICES ASSUME FoundAgain, IdsOnce, NEW r \in 1..MaxRuns, published'[r].complete,
                        NEW i \in DOMAIN made, NEW j \in DOMAIN made,
                        i < j, made[i].run = r, made[j].run = r,
                        NEW m \in DOMAIN published'[r].events, NEW n \in DOMAIN published'[r].events,
                        published'[r].events[m] = made[i].id, published'[r].events[n] = made[j].id
                 PROVE  m < n
      BY <1>1 DEF OrderIsObserved
    <3>1. CASE r = run
      <4>1. ~OrderNotObserved
        BY <1>2, <1>4, <3>1 DEF WholeTrace
      <4>2. m \in DOMAIN Ordered /\ n \in DOMAIN Ordered /\ Id(Ordered[m]) = made[i].id /\ Id(Ordered[n]) = made[j].id
        BY <1>2, <1>4, <3>1
      <4> QED
        BY <1>1, <4>1, <4>2, ObservedOrder
    <3>2. CASE r # run
      BY <1>4, <3>2 DEF IInv, PublishedInv, OrderIsObserved
    <3> QED
      BY <3>1, <3>2
  <2> QED
    BY <1>1, <2>2, <2>3, <2>4, <2>5 DEF PublishedInv
<1> QED
  BY <1>5, <1>6, <1>7, <1>8, <1>9, <1>10 DEF IInv

---------------------------------------------------------------------------
(* The theorems.                                                           *)

LEMMA NextInv == ASSUME IInv, [Next]_vars PROVE IInv'
<1>1. CASE ReadConfig
  BY <1>1, ReadConfigStep
<1>2. CASE Rewrite
  BY <1>2, RewriteStep
<1>3. CASE AgentExits
  BY <1>3, AgentExitsStep
<1>4. CASE Assemble
  BY <1>4, AssembleStep
<1>5. CASE NextRun
  BY <1>5, NextRunStep
<1>6. CASE \E bound \in SUBSET Servers : Listen(bound)
  BY <1>6, ListenStep
<1>7. ASSUME NEW s \in Servers, Launch(s) \/ CallDirect(s) \/ DiscoverTools(s) \/ ProxyKilled(s)
      PROVE  IInv'
  BY <1>7, LaunchStep, CallDirectStep, DiscoverStep, ProxyKilledStep
<1>8. ASSUME NEW s \in Servers, NEW r \in 1..run, ProxyEnds(s, r) PROVE IInv'
  BY <1>8, ProxyEndsStep
<1>9. ASSUME NEW s \in Servers, NEW r \in 1..run, NEW moment \in clock..MaxMoment, CallObserved(s, r, moment)
      PROVE  IInv'
  BY <1>9, CallObservedStep
<1>10. ASSUME NEW c \in open, NEW answered \in BOOLEAN, Settle(c, answered) PROVE IInv'
  BY <1>10, SettleStep
<1>11. CASE UNCHANGED vars
  <2>1. \A s \in Servers : Same(files[s], files'[s])
    BY <1>11 DEF vars, Same
  <2>2. /\ UNCHANGED <<run, pc, config, listeners, manifest, proxy, stray, clock, made, open, hasty, published>>
        /\ files' \in [Servers -> Seq(Rows)] /\ hasty' \subseteq 1..run
        /\ proxy' \in [Servers -> {"none", "running", "gone"}] /\ stray' \in [Servers -> Nat]
    BY <1>11 DEF vars, setup, IInv, TypeInv
  <2>3. \A s \in Servers : proxy[s] # "none" => Running /\ config[s] \in {"stdio", "both"}
    BY DEF IInv, ManifestInv
  <2>4. ASSUME NEW c \in open, c.run = run, config[c.server] \in {"stdio", "both"}
        PROVE  proxy[c.server] = "running"
    BY <2>4 DEF IInv, OpenInv
  <2>5. EndInv'
    BY <1>11 DEF vars, setup, IInv, EndInv
  <2> QED
    BY <2>1, <2>2, <2>3, <2>4, <2>5, SameRun
<1> QED
  BY <1>1, <1>2, <1>3, <1>4, <1>5, <1>6, <1>7, <1>8, <1>9, <1>10, <1>11 DEF Next

\* The invariant holds from the first run on: it is what a directory of records may
\* look like between any two steps of a run, its agent and its proxies.
THEOREM Invariance == Spec => []IInv
  BY InitInv, NextInv, PTL DEF Spec

\* Type correctness: among it that the manifest in force is of this run or an earlier one,
\* that a proxy belongs to a server with a command, and that an open call was made.
THEOREM TypeCorrect == Spec => []TypeOK
<1>1. IInv => TypeOK
  <2> SUFFICES ASSUME IInv PROVE TypeOK
    OBVIOUS
  <2>1. manifest.run \in 0..run
    BY Naturals
  <2>2. ASSUME NEW s \in Servers
        PROVE  /\ stray[s] \in 0..run-1 /\ proxy[s] \in {"none", "running", "gone"}
               /\ proxy[s] # "none" => config[s] \in {"stdio", "both"}
    BY Naturals DEF IInv, TypeInv, ManifestInv
  <2>3. ASSUME NEW c \in open PROVE c.event.index < Len(made)
    <3> DEFINE index == c.event.index
    <3>1. index + 1 \in DOMAIN made
      BY DEF IInv, OpenInv, Backed
    <3>2. index \in Nat
      BY DEF IInv, TypeInv, OpenCalls, Events
    <3> HIDE DEF index
    <3>3. index < Len(made)
      BY <3>1, <3>2, Naturals
    <3> QED
      BY <3>3 DEF index
  <2> QED
    BY <2>1, <2>2, <2>3 DEF IInv, TypeInv, TypeOK, Remote
<1> QED
  BY <1>1, Invariance, PTL

\* A run publishes the calls of its own agent: assemble() takes none from a record that an
\* earlier run, or a proxy that outlived it, left in the directory.
THEOREM OwnCallsArePublished == ASSUME FoundAgain PROVE Spec => []PublishedIsThisRun
<1>1. IInv => PublishedIsThisRun
  BY FoundAgain DEF IInv, PublishedInv
<1> QED
  BY <1>1, Invariance, PTL

\* A trace assemble() calls complete has every call the agent made in that run, if the agent
\* started each server once and left no post unanswered, however far behind its proxies are:
\* CompleteIsWhole says nothing of the runs in `hasty`, and of those it is false.
THEOREM CompleteTracesAreWhole == ASSUME FoundAgain, OneTransport PROVE Spec => []CompleteIsWhole
<1>1. IInv => CompleteIsWhole
  BY FoundAgain, OneTransport DEF IInv, PublishedInv
<1> QED
  BY <1>1, Invariance, PTL

\* A complete trace tells the calls in the order in which they were made, whichever
\* records they come from.
THEOREM CompleteTracesAreInOrder == ASSUME FoundAgain, IdsOnce PROVE Spec => []OrderIsObserved
<1>1. IInv => OrderIsObserved
  BY FoundAgain, IdsOnce DEF IInv, PublishedInv
<1> QED
  BY <1>1, Invariance, PTL
=============================================================================
