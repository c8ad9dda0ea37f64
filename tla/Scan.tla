------------------------------- MODULE Scan -------------------------------
(***************************************************************************)
(* "seamark scan --out" beside an agent that is still writing: the agent   *)
(* appends to its session files, may be killed in the middle of a line,    *)
(* rewrites what it wrote when it compacts or resumes a session, and may   *)
(* contradict itself; the command reads every session and writes one       *)
(* document and one digest for each, then the index (cli.py run_scan,      *)
(* _write_traces, _scan_salt).                                             *)
(*                                                                         *)
(* All is read before anything is written, so what the agent does during   *)
(* the writing is as if it came after it: here it does.  A document is     *)
(* named by its session's name, its salt and the scan that read it; what   *)
(* it says is Document(Read(session, files)), of the files of that moment. *)
(***************************************************************************)
EXTENDS Transcript

CONSTANTS Sessions,    \* the session files, in the order of their paths
          WithSub,     \* the sessions that launch a sub-agent
          Declared,    \* the name each session declares in its lines
          MaxLines,    \* lines written by the agent in all (bound)
          MaxMoment,   \* the last moment of the clock (bound)
          MaxScanned,  \* lines there may be when a scan starts, and after it (bound)
          MaxScans,    \* scans started (bound)
          Untimed      \* whether some records carry no timestamp (older builds)

ASSUME ScanAssumption ==
  /\ WithSub \subseteq Range(Sessions) /\ DOMAIN Declared = Range(Sessions)
  /\ {MaxLines, MaxMoment, MaxScanned, MaxScans} \subseteq Nat /\ Untimed \in BOOLEAN

VARIABLES files,    \* what the agent wrote, by source
          done,     \* what it did: one record for each call, with its source
          clock,    \* the agent's clock
          scan,     \* the command: how far it is, and what it read
          dir,      \* the documents and the digests in the directory, by file
          index,    \* index.json
          scans     \* how many scans were started

vars == <<files, done, clock, scan, dir, index, scans>>
agent == <<files, done, clock>>
output == <<dir, index>>

Sources == {<<s, "main">> : s \in Range(Sessions)} \cup {<<s, "sub">> : s \in WithSub}
SourcesOf(s) == IF s \in WithSub THEN <<<<s, "main">>, <<s, "sub">>>> ELSE <<<<s, "main">>>>

\* The salt of a document or an index that has none, a document that was cut off while it was
\* written, and an index that is not there or was cut off: neither gives a salt.
NoSalt == 0
Torn == [of |-> "torn", name |-> "torn", salt |-> NoSalt, scan |-> 0]
NoIndex == [salt |-> NoSalt, names |-> << >>]

Idle == [step |-> "idle", at |-> 1, salt |-> NoSalt, names |-> << >>, documents |-> << >>]

Init == /\ files = [f \in Sources |-> << >>] /\ done = {} /\ clock = 1
        /\ scan = Idle /\ dir = << >> /\ index = NoIndex /\ scans = 0

(***************************************************************************)
(* The agent                                                               *)
(***************************************************************************)

Written == FoldFunction(LAMBDA lines, n : n + Len(lines), 0, files)
Between == scan.step \in {"idle", "finished"}

\* A line goes at the end of its file; behind one that lacks its newline it is glued to it, even
\* one that could be read until then, and what they make together does not parse.  A record that
\* is glued comes with its newline (bound).
Grown(lines, line) ==
  IF lines # << >> /\ lines[Len(lines)].end # "newline"
    THEN [lines EXCEPT ![Len(lines)] = Garbage] ELSE Append(lines, line)

\* The writer may be stopped in the middle of the line or before its newline.
Puts(f, line) ==
  /\ Between
  /\ Written < IF scans = 0 THEN MaxLines ELSE MaxScanned
  /\ \E end \in Ends : files' = [files EXCEPT ![f] = Grown(@, [line EXCEPT !.end = end])]
  /\ UNCHANGED <<scan, output, scans>>

Stamps == {clock} \cup (IF Untimed THEN {0} ELSE {})

\* A call is made and recorded, with an id of its own; so is its result.
Call(f) ==
  LET call == Cardinality(done) + 1
  IN \E at \in Stamps :
       /\ Puts(f, Line("call", call, "args", at))
       /\ done' = done \cup {[call |-> call, source |-> f, answered |-> FALSE]}
       /\ UNCHANGED clock

Answer(d) ==
  /\ ~d.answered
  /\ Puts(d.source, Line("result", d.call, "value", clock))
  /\ done' = (done \ {d}) \cup {[d EXCEPT !.answered = TRUE]}
  /\ UNCHANGED clock

\* The last line is finished: the rest of it was in the agent's buffer.
Flush(f) ==
  LET last == Len(files[f])
  IN /\ Between
     /\ files[f] # << >> /\ files[f][last].end # "newline"
     /\ files' = [files EXCEPT ![f][last].end = "newline"]
     /\ UNCHANGED <<done, clock, scan, output, scans>>

\* Compaction and resume put a record back into the file, once more as it was or altered.
Rewrite(f) ==
  \E n \in DOMAIN files[f], value \in {"args", "value", "altered"} :
    LET line == files[f][n]
    IN /\ Parses(line)
       /\ value \in {line.value, "altered"}
       /\ Puts(f, [line EXCEPT !.value = value])
       /\ UNCHANGED <<done, clock>>

Tick == /\ Between /\ clock < MaxMoment
        /\ clock' = clock + 1
        /\ UNCHANGED <<files, done, scan, output, scans>>

(***************************************************************************)
(* The command                                                             *)
(***************************************************************************)

\* The sessions found, and the name each gives itself: the one its lines declare, or its file's.
Found == SelectSeq(Sessions, LAMBDA s : files[<<s, "main">>] # << >>)
NameOf(s) ==
  IF \E n \in DOMAIN files[<<s, "main">>] : Parses(files[<<s, "main">>][n]) THEN Declared[s] ELSE s

\* What is read of a session (read).
Read(s, all) == Trace(SourcesOf(s), all)

\* The salt kept in the directory, or a new one (_scan_salt).
Salt == IF index.salt = NoSalt THEN scans + 1 ELSE index.salt

Put(file, content) == dir' = (file :> content) @@ dir

Starts == Between /\ scans < MaxScans /\ Written <= MaxScanned

\* read_all, and the names of the files to write.  The files are read one after the other; here
\* they are read at one moment, which no source can tell, since each is written on its own.
Begin ==
  LET names == [k \in DOMAIN Found |-> NameOf(Found[k])]
  IN /\ Starts
     /\ scan' = [step |-> IF Found = << >> THEN "index" ELSE "json", at |-> 1, salt |-> Salt,
                 names |-> [k \in DOMAIN names |-> FileStem(names, k)],
                 documents |-> [k \in DOMAIN Found |->
                   [of |-> Found[k], name |-> names[k], salt |-> Salt, scan |-> scans + 1]]]
     /\ scans' = scans + 1
     /\ UNCHANGED <<agent, output>>

\* scan --demo into the same directory: one document of its own, under no salt.
BeginDemo ==
  /\ Starts
  /\ scan' = [step |-> "json", at |-> 1, salt |-> NoSalt, names |-> <<"demo">>,
              documents |-> <<[of |-> "demo", name |-> "demo", salt |-> NoSalt, scan |-> scans + 1]>>]
  /\ scans' = scans + 1
  /\ UNCHANGED <<agent, output>>

WriteDocument ==
  /\ scan.step = "json"
  /\ Put(<<scan.names[scan.at], "json">>, scan.documents[scan.at])
  /\ scan' = [scan EXCEPT !.step = "sha256"]
  /\ UNCHANGED <<agent, index, scans>>

WriteDigest ==
  /\ scan.step = "sha256"
  /\ Put(<<scan.names[scan.at], "sha256">>, scan.documents[scan.at])
  /\ scan' = IF scan.at < Len(scan.documents) THEN [scan EXCEPT !.step = "json", !.at = @ + 1]
             ELSE [scan EXCEPT !.step = "index"]
  /\ UNCHANGED <<agent, index, scans>>

\* The index says which file holds which session, and keeps the salt.
WriteIndex ==
  LET last(file) == Max({k \in DOMAIN scan.names : scan.names[k] = file})
  IN /\ scan.step = "index"
     /\ index' = [salt |-> scan.salt,
                  names |-> [file \in Range(scan.names) |-> scan.documents[last(file)].name]]
     /\ scan' = [scan EXCEPT !.step = "finished"]
     /\ UNCHANGED <<agent, dir, scans>>

\* The command is interrupted, and the file it was writing is cut off or untouched.
Crash ==
  /\ ~Between
  /\ \/ UNCHANGED output
     \/ /\ scan.step \in {"json", "sha256"}
        /\ Put(<<scan.names[scan.at], scan.step>>, Torn) /\ UNCHANGED index
     \/ /\ scan.step = "index" /\ index' = NoIndex /\ UNCHANGED dir
  /\ scan' = Idle
  /\ UNCHANGED <<agent, scans>>

Next == \/ \E f \in Sources : Call(f) \/ Flush(f) \/ Rewrite(f)
        \/ \E d \in done : Answer(d)
        \/ Tick
        \/ Begin \/ BeginDemo \/ WriteDocument \/ WriteDigest \/ WriteIndex \/ Crash

Spec == Init /\ [][Next]_vars

(***************************************************************************)
(* Properties                                                              *)
(***************************************************************************)

TypeOK ==
  /\ DOMAIN files = Sources
  /\ \A f \in Sources : \A n \in DOMAIN files[f] :
       /\ files[f][n].kind \in {"call", "result", "garbage"}
       /\ files[f][n].at \in 0..MaxMoment
       /\ files[f][n].end \in IF n < Len(files[f]) THEN {"newline"} ELSE Ends
  /\ scan.step \in {"idle", "json", "sha256", "index", "finished"}
  /\ index.salt \in 0..MaxScans

MadeBy(s) == {d \in done : d.source[1] = s}

\* Every call of a session is told once and nothing else is: whatever was copied, cut off or
\* glued together, no call has two events, an event is of a call that was made, and a call or a
\* result that is missing has a hole that says so - its own, or a record that does not parse.
\* Where the file says two things the first stands and a hole names the second.
EveryCallIsToldOnce ==
  \A s \in Range(Sessions) :
    LET t == Read(s, files)
        of(call) == {i \in DOMAIN t.events : t.events[i].call = call}
        named(reason, call) == \E h \in AllHoles(t) : h.reason = reason /\ h.after = call
        altered(call) == \E f \in Range(SourcesOf(s)) : \E n \in DOMAIN files[f] :
                           Parses(files[f][n]) /\ files[f][n].call = call
                             /\ files[f][n].value = "altered"
    IN /\ \A i \in DOMAIN t.events : \E d \in MadeBy(s) : d.call = t.events[i].call
       /\ \A d \in MadeBy(s) :
            /\ Cardinality(of(d.call)) <= 1
            /\ of(d.call) = {} => named("unparsable", NoCall)
            /\ \A i \in of(d.call) :
                 /\ t.events[i].args = "args"
                 /\ CASE t.events[i].result = "value" -> d.answered
                      [] t.events[i].result = "none" ->
                           /\ named("no result", d.call)
                           /\ d.answered => named("unparsable", NoCall)
                      [] OTHER -> FALSE
                 /\ altered(d.call) => named("contradiction", d.call)

\* A hole of a published document that follows a call cites the position of that call's event
\* in the order the document has, and one that follows none cites no position.
HolesCiteTheirEvent ==
  \A s \in Range(Sessions) :
    LET t == Read(s, files)
        document == Document(t)
    IN \A h \in document.holes :
         IF h.hole.after \in {e.call : e \in Range(t.events)}
           THEN document.events[h.index].call = h.hole.after
           ELSE h.index = 0

\* Two readings of a session, one after the other while the agent goes on, never contradict each
\* other: what both tell of a call is the same, arguments, moment and result, in the same order,
\* and for every call or result that the later no longer tells it has one more record that does
\* not parse.  Such a loss is real: a last record without its newline is read, and the next one
\* is glued to it (_lines).
Told(t) == {<<e.call, "call">> : e \in Range(t.events)}
           \cup {<<e.call, "result">> : e \in {f \in Range(t.events) : f.result # "none"}}
Unread(t) == {h \in t.holes : h.reason = "unparsable"}
Agree(t, u) ==
  LET at(i) == Position(u, t.events[i].call)
      both == {i \in DOMAIN t.events : at(i) # 0}
  IN /\ Cardinality(Told(t) \ Told(u)) <= Cardinality(Unread(u) \ Unread(t))
     /\ \A i \in both :
          /\ [u.events[at(i)] EXCEPT !.result = "none"] = [t.events[i] EXCEPT !.result = "none"]
          /\ Cardinality({t.events[i].result, u.events[at(i)].result} \ {"none"}) <= 1
     /\ \A i, j \in both : i < j => at(i) < at(j)
ReadingsAgree ==
  [][files' # files => \A s \in Range(Sessions) : Agree(Read(s, files), Read(s, files'))]_vars

\* A scan that ran to its end left one file for every session it read, with its digest beside it
\* and its name and salt in the index, whatever earlier scans and crashes had left there.
ScanIsWhole ==
  scan.step = "finished" =>
    /\ \A k \in DOMAIN scan.names :
         /\ \A file \in {"json", "sha256"} : dir[<<scan.names[k], file>>] = scan.documents[k]
         /\ index.names[scan.names[k]] = scan.documents[k].name
         /\ scan.documents[k].salt = index.salt

\* The salt "is written into the output directory the first time and read back after"
\* (cli.py:876-878): a scan that ends leaves the salt it found in the index.
SaltIsKept == [][WriteIndex /\ index.salt # NoSalt => index'.salt = index.salt]_vars

\* "A line with no timestamp keeps its position relative to its own file"
\* (trace/claude_code.py:162-163): the events of one source come in the order of its lines.
KeepsItsPlace ==
  \A s \in Range(Sessions) :
    LET t == Read(s, files)
    IN \A f \in Range(SourcesOf(s)) :
         LET own == SourceRead(f, files[f]).events
         IN \A i, j \in DOMAIN own :
              i < j => Position(t, own[i].call) < Position(t, own[j].call)
=============================================================================
