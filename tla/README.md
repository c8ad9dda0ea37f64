# seamark (actaira): a verification project

seamark watches a coding agent, writes down which tool calls it made and what came
back, and packages that record so that somebody else can check it. Its whole value is
one sentence: **what the record says happened, happened, and where something was not
observed the record says so.** These modules state that sentence for the parts that run
concurrently, fail half way or share files, check it with TLC on small instances, and
prove its core with TLAPS for every instance.

Paths below are relative to the repository; the package is `src/seamark/`.

## 1. The system

| part | source | state it keeps | operations | what is hard |
|---|---|---|---|---|
| recorder | `proxy/__init__.py` | events and gaps in memory, the record file, the lock, `closed`, `writes_failed` | `call`, `settle`, `gap`, `discover`, `close` | two threads at once, writes refused or torn, a kill between rows |
| stdio proxy | `proxy/stdio.py` | the server's pipes, a queue of whole lines, the partial line, out-of-band messages | `serve`, `request`, `notify`, `_answer_to`, `_read_line`, `_pump`, `close` | answers late, twice, out of order or in halves; deadlines; either side going away |
| http proxy | `proxy/http.py` | a loopback listener, one thread per POST | `start`, `request`, `_answers`, `close` | threads in flight while the main thread closes |
| watch session | `proxy/session.py` | the record directory, its manifest, one record per server | `run`, `rewrite_config`, `assemble` | several runs, several proxies and a directory that outlives them |
| trace model | `trace/model.py` | a trace: events, gaps | `to_dict`, `_all_gaps`, `parse_trace` | what "complete" means |
| signing key and keyring | `attest/signing.py`, `attest/keyring.py` | a key file, its archives, `keyring.json` | `load_local`, `rotate`, `revoke`, `evaluate` | several files changed one after another, no lock, windows in whole seconds |
| evidence package | `attest/package.py`, `seal.py`, `chain.py`, `merkle.py`, `dsse.py`, `timestamp.py`, `trust.py` | one archive, written once | `write_package`, `write_seal` | the order of stamping and signing; proofs over trees |
| verification | `attest/verify.py` | none | `verify_package`, `settle` | a verdict over many checks: the missing one must fail |
| time-stamps and trust | `attest/timestamp.py`, `attest/trust.py` | none | `stamp`, `verify_token`, `evaluate` | replies that are late, refused or another request's; names shared by certificates |
| capability surface | `surface/`, `cli.py` (`check`, `diff`) | none | readers, `resolve`, `merge`, `evaluate`, `surface_diff` | files that do not parse, facts only the machine knows, a comparison ordered by digests |
| agent session reader, `scan` | `trace/claude_code.py`, `cli.py` | a directory of traces, its `index.json` | `read`, `run_scan` | files the agent is still writing, records written twice, an interrupted scan |
| MCP server, command line, reports | `mcp.py`, `cli.py`, `report/` | none | dispatch, printing | nothing that is kept |

How they meet: `seamark watch` (`cli.run_watch`) makes a `WatchSession`. The session binds one
`HttpProxy` for each remote server, rewrites the agent's MCP configuration so that every local
server is launched through `python -m seamark.proxy.stdio`, and runs the agent. Each proxy owns
a `Recorder` and through it one record file in the directory; the files are the *only* channel
between the proxies and the session, which reads them after the agent has exited and assembles
the trace. `seamark seal` and `keygen` share the key file and the keyring in the same way:
through the file system, with no lock.

## 2. The modules

```
Records ─── Recorder ─── Recorder_proofs        (rows, and what a file of them means)
   ├─────── StdioProxy ── StdioProxy_proofs     (StdioProxy implements Capture)
   ├─────── HttpProxy ── HttpProxy_proofs
   └─────── WatchSession ── WatchSession_proofs
Keyring ── Keyring_proofs
Merkle ── EvidenceLog ── EvidenceLog_proofs
Trust ──┬── TrustWalk ── TrustWalk_proofs
        └── TimeStamp ── Verify ── Attestation ── Attestation_proofs
Merge ── Surface ──┬── ClaudeCode ──┐
                   ├── OtherAgents ─┼── SurfaceDiff ── SurfaceHistory
                   └── Editors ─────┤
                       Rules ───────┘
Transcript ── Scan
```

* **Records** is the vocabulary: the rows a recorder writes (`CallRow`, `ResultRow`, `GapRow`,
  `DiscoverRow`, `EndRow`), what becomes of a file when a row is appended or torn (`Appended`),
  and what a reader makes of a file: `PartIndices`, `PartEvent` (rows are merged by index, as
  `assemble` does), `PartHoles`, `PartEnded` and `PartComplete`, the conditions under which the
  assembled trace has no gap. A tool's arguments and results are abstracted to the identity of
  the call they belong to: an answer *is* the id of the call it answers, so a digest under the
  wrong call is visible. Redaction, digests and wording are left out.
* **Recorder** is one recorder used by several threads. A public method is an action that takes
  the lock, changes the memory and leaves the rows it has to write in `todo`; each row is then a
  `Write` of its own with one of three outcomes (whole, refused, torn: `_append`), so that a
  kill or another thread can come between any two. `call` takes its index and releases nothing
  until its row is written, as in the code. `close` runs once per recorder, at most, which is
  how both transports use it. Construction succeeds: a recorder that cannot open its file
  raises in the proxy's constructor and there is no record to speak of. Every row can be encoded as
  UTF-8; for one that cannot, see section 6.
* **StdioProxy** is `serve` and the pump thread, against an agent that sends any of a call, a
  discover, another request, a notification, an answer to the server, bytes that are not JSON
  or JSON that is not an object, and a server that may write anything in any order. The three
  waits (the 30 s deadline, the 10 s for the server to exit, the 2 s after end of input) are steps that may
  happen once there is nothing to read. What is relayed is taken up (`Forward`) and then delivered (`Sent`) or
  refused (`Refused`) as steps apart, since the write to the server has no deadline: it stands still while the server
  leaves its input full (`ServerLags`). The agent reads what it is handed, and a line of its own arrives whole. Writes to the
  record succeed (losing them is Recorder's subject), requests carry `_meta`, and the agent uses an id once.
* **HttpProxy** is the handler threads, the upstream's outcomes (an HTTP error, no connection, no HTTP,
  a body that breaks off, that is badly chunked, too long, not JSON, or answers another call) and the
  main thread's `run_watch`: bind, run the agent, shut down, close the record, assemble, exit. The timeout of `urlopen` is
  one socket operation's: bytes that arrive (`Drip`) are read (`ReadOn`) and start it again, and it passes (`TimeOut`) when none
  wait. An exception of `http.client`, which `request` does not catch, ends the handler without a hole (`Escape`).
  A handler that is still running when the process exits is cut off. A POST arrives whole, and the agent reads its reply.
* **Capture** is the abstract specification of a transport: calls reach a tool, their answers
  are learnt, and a verdict of "complete" is given at most once, over calls that are all known,
  after which none reaches the tool. `StdioProxy!ImplementsCapture` is the refinement.
* **WatchSession** is run after run over one directory. A server may be absent or configured
  with a command, a url, both, or neither; a listener may fail to bind. A proxy truncates its record when the agent
  launches it, may end or be killed while the agent runs and be launched again, and may outlive the agent and the
  run, still recording what it was sent. A call is a row first and an outcome later (`CallObserved`, `Settle`), so that a record may
  be assembled, opened afresh or ended between the two. A transport is reduced to these rows, which is what the
  modules above establish. `Assemble` is the whole of `assemble`: the foreign rows, the merge by
  index, the order by moment, the holes for servers that were not interposed on.
* **Keyring** is `keygen`, `keygen --rotate`, `keygen --revoke` and the key-handling half of
  `seal`: one file operation a step (exclusive creation, the write, the truncation and the
  write of the ring, the move of the old key), so that a command may stop, or another may run,
  between any two. `Accepted` is `evaluate`.

* **Merkle** is `attest/merkle.py` with a hash as the term it was taken over, so that two hashes are equal exactly when what
  was hashed is. A loop that climbs the tree is a function of how often it went round (`Levels`, `Steps`, `Climb`, `Rebuild`),
  at most `Height` times, and the recursion of `_consistency` is a function of the part of the log it is at
  (`Subproofs`); what the code returns early from is `fits = FALSE`. **EvidenceLog** puts it and `attest/chain.py` to use: a log is appended to and
  packed, a reader keeps a package and is later given another, whose log may have been rewritten and
  chained again, or whose entries came damaged. `Accepted` is the part of `verify_package` about
  the entries, `VerifyExtends` is `verify_extends`.
* **Trust** is `attest/trust.py` as functions: a certificate is a record of the fields the walk reads, and its
  signature is the key that made it. **TrustWalk** runs its loop, a turn a step, for every leaf, every bundle
  of certificates and every store of anchors of the instance.
* **TimeStamp** is what a token says (`Info`), what `verify_token` makes of it and which reply `stamp`
  keeps; **Verify** is what a package is, what `write_package` puts into it and every check of
  `verify_package`, required or advisory, for a caller who may bring a key, a ring, a store of anchors and the wish to be
  strict. The checks are a set of records, each a name with whether it passed (`Check`), and the verdict is that none
  failed and none that is required is missing. A digest is the thing it was taken of; a moment is a number and 0 is one that is missing. The log
  inside is one body here, `EvidenceLog`'s subject there.
* **Attestation** puts them between a sealer, an authority that stamps, a clock, a key that is
  retired or revoked while somebody still holds it, and a package that is changed on its way. The authority has
  a clock of its own, up to `Skew` before or behind the sealer's (`AuthorityMoments`). Its
  properties quantify over every caller (`Callers`), so that one is compared with another.
* **Merge** is the table of documented rules and `row_for`; **Surface** what all readers share: a file is a
  state (absent, broken, not a mapping, ok, a link, a submodule) and a set of entries, a fact is a name with a string.
  **ClaudeCode**, **OtherAgents** (Codex, Cursor, Gemini) and **Editors** (VS Code, dev containers,
  instruction files) are the readers with their resolvers, each a function from a disk and what is known
  (is the machine read, which version was stated) to capabilities and gaps. **Rules** is `evaluate` over
  the two core packs, rule by rule, with its three answers: fired, silent, unsettled.
* **SurfaceDiff** is the two commands, `CheckDocument` with `CheckExit` and `DiffDocuments` with `DiffExit`. What is left over on the two
  sides of one identity is paired in the order of SHA-256, an order nobody chose: `DiffDocuments` is the *set* of diffs,
  one for every order. **SurfaceHistory** edits a repository on a machine: entries are written and removed,
  files deleted, damaged, turned into links or moved into submodules, and committed; check and diff are functions of its state.
* **Transcript** is the session reader, line by line (`LineRead` folds a source, `Trace` sorts a session
  with its sub-agents, `Document` resolves every hole to the position of its call), and the name a
  trace's file gets. A line may lack its end or only its newline, and then still be read; the next line is glued to either. **Scan** puts it beside the agent that writes those files, and models the command as
  one file operation a step (a document, its digest, the next, the index with the salt) which may be interrupted at
  any of them. A document of `Scan` is named by session, salt and scan; what it says is `Document(Read(session, files))`.

In every module an action carries the name of the method or of the step of it that it models;
`PROJECT.json` gives the lines. Modules named `MC...` only give values to constants. A definition preceded
by a comment that begins "Mutant:" is a plausible bug in the definition after it: it is not used by
any specification, and exists so that each property can be shown to notice that bug.

## 3. What the runs show

| run | question | properties |
|---|---|---|
| `recorder` | threads, lost writes and a kill: can a file claim to be complete and not be? | `CompleteVouches`, `RowsNameTheirCall`, `LockIsReleased` |
| `stdio` | does the record of a launch say what happened, whatever the server writes? | `CompleteCapture`, `UnansweredIsDeclared`, `SettledByOwnAnswer`, `AgentReadsTheServer`, `ImplementsCapture` |
| `stdio_live` | which servers can hold the proxy, over two launches? | `EveryWaitEnds`, `SessionEnds` |
| `http` | threads in flight against the main thread's closing | `AnsweredIsRecorded`, `RefusalIsDeclared`, `CompleteSession`, `EveryPostEnds` |
| `watch` | two runs, two servers, one directory, proxies that end and come back | `PublishedIsThisRun`, `CompleteIsWhole`, `OrderIsObserved` |
| `keyring` | four commands in turn, one of them interrupted | `PrivateKeysKept`, `RevokedStaysRevoked`, `SealsVerify`, `WindowsMeet` |
| `log` | up to seven entries, one rewritten, any damage of one step | `AcceptedIsAsWritten`, `ExtendsIsPrefix`, `IncludedAtItsIndex` |
| `trust` | is the walk right about which paths there are, for every bundle and store? | `TrustedHasAPath`, `PathIsFound` |
| `attestation` | who may accept what, after stamping, retirement, revocation and damage? | `AcceptedAsSealed`, `SealedIsAccepted`, `AnchorsOnlyRefuse`, `StampedByThen` |
| `surface` | check and diff over every history of three edits on three machines | `SettledStaysSettled`, `UnreadIsNamed`, `NothingArrivesUnseen`, `DiffMirrors`, `DiffFromNothingIsCheck`, `OnlyTheOperatorDecides` |
| `scan` | two scans beside an agent that is still writing | `EveryCallIsToldOnce`, `HolesCiteTheirEvent`, `ScanIsWhole`, `ReadingsAgree` |
| `stdio_ids` | the first disagreement of section 6 | `SettledByOwnAnswer`, violated |

Beside the runs stand configurations that reproduce other disagreements of section 6, each with one property
that TLC refutes: `MCHttpLate.cfg`, `MCWatchStale.cfg` and `MCKeyringRace.cfg`. Section 6 says for the others which property to
check under which configuration, and which constants to change. The modules of the capture, the keyring, the log and the scan state a
`TypeOK` for the reader; those of the recorder, of both proxies, of the watch session and of the log are proved in section 5.

**Bounds, and why they are enough.** `recorder`: two threads, two calls, one gap or discovery
beside them, one lost write. A collision needs two threads, a torn line needs one loss and one row to
be glued to it, and a third thread repeats what the second does; the theorems of section 5 lift
all of these bounds. `stdio`: two messages of the agent (a leftover answer needs a second call to
be taken for) and two lines of the server, beyond one answer to each, so that an answer may
come late, twice and out of order. `stdio_live` allows a second launch and one free line, with the kinds of message
that `stdio` leaves out. `http`: three POSTs, so that two may be at any stage around the one
that fails; a request that is no call is a `discover` (`MostKinds`), since any other takes the same steps and leaves fewer rows. `watch`:
two servers (an order between records needs two), two calls, two moments (a tie and an
order), two runs; the second always finds a configuration. Its `Mixed` configurations have one server with a proxy of its
own at a time; two of them beside each other are the theorems' (section 5). `keyring`: three keys let a rotation follow a rotation; four commands reach
create, revoke, rotate, seal in any order; three moments put a tick before and after a stamp.
`log`: seven entries have every pair of sizes around the powers of two up to four, with odd nodes promoted at one, two
and three levels; one entry rewritten at any position is the case a consistency proof is for.
`trust`: nine certificates hold every case the walk tells apart (a shared name, a shared key, a cross-signature, a loop, an
expiry, a limit on the path, a key that cannot be checked), two in the bundle and two anchors put any pair of them in either order,
and a bound of three on the path is reached by the loop.
`attestation`: one package, two tokens (its own and one that is not), one change on the way, which is the adversary of each check by
itself, a key that may be retired or revoked at either of two moments, and an authority whose clock may be the other of them (`Skew = 1`).
`surface`: a property of a comparison needs two trees that differ in two places, so three edits; `Together` names the sets of files
that influence one another, since files of different vendors are never combined by the code; the machines are one
that agrees, one that does not and one whose files do not parse (a machine nobody reads is one of the callers). A machine with one managed
file that parses and one that does not is left out, see section 6.
`scan`: three lines are a call, its result and a contradiction, or two calls in two files; two moments an order and a tie; two
scans one over the other. A scan starts when at most two lines are written (`MaxScanned`), since what it writes
does not depend on how long the sessions are.

**Deadlock** is not checked: every one of these systems stops, by being closed, killed or
exiting, or by running into a bound.

**Fairness.** `Recorder`: a thread inside the lock is scheduled until it leaves (weak fairness of
`Progress`, a thread's own steps under the lock; nothing is assumed of the thread that decides to call). `StdioProxy`:
the main thread (`Serve`) and the pump thread are scheduled, weakly; a deadline that is due is a
step of `Serve`, since `queue.get(timeout=...)` and `wait(timeout=...)` return by themselves. A write to the server
does not: `Sent` is enabled only while the server's input is not full.
*Nothing* is assumed of the agent or of the server, which may stop at any step or never read, and `SessionEnds` therefore
excepts a proxy that is writing to a full pipe, again and again or for ever. `HttpProxy`:
the main thread and each handler's own steps (`Local`) are scheduled, weakly; bytes that wait are read (`ReadOn`); and a socket on
which nothing arrives times out (`TimeOut`), since `urlopen` sets the socket's timeout. That timeout starts again with every byte, and nothing
is assumed of the upstream, so `EveryPostEnds` excepts a POST for which bytes arrive again and again. The whole answer is no fair
step: whoever sends it decides.

## 4. Assumptions of the passing runs

* `http` assumes the agent exits only when its posts are answered (`AgentWaits`); without it,
  see finding 3, checked by `MCHttpLate.cfg`.
* `stdio` gives the server ids of its own for its requests (`OwnIds`); without it, finding 1.
* `stdio_live` has a server that writes finitely many lines; without it, finding 2. `SessionEnds` is about servers that
  do not leave their input full, and `EveryPostEnds` about upstreams that stop sending; without, `EverySessionEnds` and
  `EveryPostIsAnswered` of section 6.
* `watch` has a configuration in the second run, and no entry with both a command and a url
  (`Mixed`); without the first, finding 4, without the second, section 6.
* `CompleteIsWhole` is about runs that are not `hasty`: the agent starts each stdio server once, and leaves no POST to an endpoint behind that
  is taken up after it has gone. Its proxies may end early, be killed, or lag behind the agent. Without it, `CompleteIsEverything` of section 6.
* `keyring` runs one command at a time; without it, finding 5.
* `scan` gives every record its moment (`Untimed`) and both sessions one name; without the first, and with names that end in
  a number, section 6.
* `PathIsFound` is about bundles and stores in which names and keys tell certificates apart (`Unambiguous`); without it,
  `AnchorIsEnough` is refuted, section 6.
* `SealedIsAccepted` is about keys that were good when they signed, tokens of the authority readers know, and a token, if there is one, of
  a moment the carried row of the key is good at (`ClocksAgree`), whatever the authority's clock; without the last, `StampedIsAccepted` of section 6.
* `SettledStaysSettled` is about machines without two managed files of which one parses and one does not, section 6.
* `UnreadIsNamed` excepts the files of `PassedOver`, which the readers pass over without a word, section 6.
* `watch` takes the clock to be monotonic between calls; `assemble` orders by the calls' moments.
* `attestation` reads the token whatever its size, and may fail to read any member the manifest lists (`MayNotBeRead <- Listed`);
  without the first, section 6.

The theorems of section 5 have no bounds, but some have an assumption, and each of these is one of the above:

| assumption | says | theorems | without it |
|---|---|---|---|
| `AgentWaits` | the agent exits with its posts answered | `CompleteCalls` | finding 3 |
| `NumbersApart` | the server's own ids are none of the agent's | `OwnAnswer`, `CompleteIsComplete`, `Implements` | finding 1 |
| `MaxLaunches = 1` | one launch of the server | `Implements` | a relaunch truncates the record and starts another capture |
| `OneCommand` | one command at a time touches the keys | all of `Keyring_proofs` | finding 5 |
| `FoundAgain` | no run without a configuration after one that found one | all three of `WatchSession_proofs` after `TypeCorrect` | finding 4 |
| `OneTransport` | no entry with both a command and a url | `CompleteTracesAreWhole` | section 6 |
| in the property: not `hasty` | each stdio server is started once, no POST comes after the agent | `CompleteTracesAreWhole` | section 6 |
| in the property: `ClocksAgree` | the token's moment is one the carried row of the key is good at | `SealedIsAsAccepted` | section 6 |
| `IdsOnce` | a call has an id of its own | `CompleteTracesAreInOrder` | calls could not be told apart in a trace |
| `TokensAreRead` | the token is small enough to be read | `AcceptedIsAsSealed` | section 6 |
| `NullsAreNoRecords` | the values for an absent, unread or garbled thing are no functions | all of `Attestation_proofs` but `AnchorsRefuse` | nothing of the code: `None` is no package |

What the modules themselves assume of their constants (`RecorderAssumption`, `StdioAssumption` and the like, beside their
declarations) is that bounds are naturals and nulls are not among the values; TLC evaluates them on every run. Only Attestation's
says more: `AuthorityAssumption` has a time-stamping authority whose certificate is valid at every moment and chains to the
readers' anchor, and a certificate made at home that does not.

## 5. What is proved

`Recorder_proofs` proves three theorems, for any set of threads, any ids and answers, and any number of
calls, gaps and lost writes; the assumption on the constants is `Recorder`'s (the bounds are
naturals, and the null values are not among the values).

* `TypeCorrect`: `Spec => []TypeOK`.
* `IndexNamesCall`: `Spec => []RowsNameTheirCall`.
* `CompleteIsVouchedFor`: `Spec => []CompleteVouches`, the reason the recorder exists.

Neither of the two invariants is inductive. `IInv` adds, in this order: `LockInv`, only the holder of
the lock has an event to append or rows to write, so a drafted index is still the next one when its row
is; `EventInv`, an event knows its position and a call that is waited for has one waiter and no
answer; `RowsInv`, every row in the file or on its way is about the event at its index and has
its answer, and an `end` was written by `close`; `WholeInv`, no thread sets out to write a torn
row; `WrittenInv`, until a write is lost, whatever the recorder has in memory is in the file or
on its way; and `SealInv`, what was sealed at the close stays in the file. The argument for the
third theorem is then: a file that is complete has an `end` and no torn line, so it was closed (`RowsInv`); `close` writes
`end` only when no write had failed, so what was in memory was in the file (`WrittenInv`) and
stays there (`SealInv`); and two rows with one index are about one event (`RowsInv`), so the merge
gives that event and its answer. The lemmas on positions (`FirstExists`, `LastExists`) and those on what a file reads as are at the head of the module.

`HttpProxy_proofs` proves four, for any set of POSTs and any kinds of them:

* `TypeCorrect`: `Spec => []TypeOK`.
* `AnsweredCalls`: `Spec => []AnsweredIsRecorded`.
* `DeclaredRefusals`: `Spec => []RefusalIsDeclared`.
* `CompleteCalls`: `AgentWaits` gives `Spec => []CompleteSession`. Without the assumption it is finding 3.

The inductive invariant `IInv` is again more than the properties. A 200 is in the file with its own answer because an event
keeps its index and is of a call that was observed (`EventInv`), a row is about the event at its index and a result row
has the answer to that very call (`RowsInv`), and no call row comes after a result row of its index (`InOrder`): a reader
takes the id from the first row of an index and the answer from the last, and with other threads appending in between
neither is obvious. `HoleInv` is `RefusalIsDeclared` with the set of refusals finite, which a count needs. `CloseInv`
is what an agent that waits leaves behind: once it is gone no POST is under way, so a record published as complete, which has no
hole and therefore no refusal, has answered every call that went upstream.

`StdioProxy_proofs` proves six, for any list of the agent's ids, any lines of the server in any order, and any number of
launches where nothing else is said:

* `TypeCorrect`: `Spec => []TypeOK`.
* `OwnAnswer`: `NumbersApart` gives `Spec => []SettledByOwnAnswer`.
* `HolesForSilence`: `Spec => []UnansweredIsDeclared`.
* `ReadsTheServer`: `Spec => []AgentReadsTheServer`.
* `CompleteIsComplete`: `NumbersApart` gives `Spec => []CompleteCapture`.
* `Implements`: `NumbersApart` and one launch give `Spec => ImplementsCapture`.

Why a call is settled with its own answer is a matter of `serve` waiting for one message at a time: `WaitInv` has the call it
waits for as the last event, delivered and unanswered, `QueueInv` keeps the requests that are still to come
apart from those that reached a server, and `EventInv` then needs only that an id names one of the agent's messages, which is
what `NumbersApart` is for. `FlowInv` is the order in which the agent reads: every line has the number under which the server
wrote it, the numbers rise at each of four places (the output, the pump's queue, what was put aside, what was handed
over), and whatever is further on was written before whatever is not. It is what a test of one late answer does not
show, since the three places are emptied by different branches of `_read_line` and `_answer_to`. `KnownInv` and `EndInv` are
`CompleteCapture` before the end: what was delivered has a row or a hole at once, and an `end` is only in
a file whose `serve` is over. The refinement goes action by action: `ForwardReaches` (a call reaches a tool), `ReadLineLearns`
(its answer is learnt), `CloseJudges` (the verdict), and every other step stutters because no verdict can be
there before the close (`VerdictOpen`).

`Keyring_proofs` proves four, for any number of keys, commands and crashes, with one command at a time (`OneCommand`):
`KeysAreKept` (`PrivateKeysKept`), `RevocationStays` (`RevokedStaysRevoked`), `SealsStayVerifiable` (`SealsVerify`) and
`WindowsHaveNoGap` (`WindowsMeet`). `FileInv` and `DiskInv` are about the files, `KeyInv` and `CopyInv` about what a
command has in hand, by how far it is. The point of the invariant is that a command holds a copy of the ring for several
file operations and saves the whole of it: the copy must be as good as the file (`RingOK`) at every step between. A rotation breaks
`WindowsMeet` in its copy and mends it before it is saved, which is why `CopyInv` has `MetBut`, all windows meet except
the one whose successor opens at this command's stamp. The lemmas on rings (`RingKept`, `RingAdds`, `RingRevokes`, `RingRetires`) say which change keeps `RingOK`.

`TrustWalk_proofs` proves `TrustIsBacked` (`TrustedHasAPath`) and `PathsAreFound` (`PathIsFound`), for any certificates, stores and
limit on the path. `PathInv` is the path so far: signed link by link, each certificate allowed to issue for those below, none
twice, none but the last an anchor. `FollowInv` is about the paths there *are*: when names and keys tell certificates apart,
the walk is a prefix of every path that the store could end, because a certificate then has only one issuer in sight
(`IssuerFound`, `NoOtherWay`). The lemmas `LastKeyThere` to `ByKeyHolds` say what survives the dictionary by key that
`evaluate` puts the token's certificates into.

`WatchSession_proofs` proves four, for any servers, runs, calls and proxies left behind:

* `TypeCorrect`: `Spec => []TypeOK`.
* `OwnCallsArePublished`: `FoundAgain` gives `Spec => []PublishedIsThisRun`.
* `CompleteTracesAreWhole`: `FoundAgain` and `OneTransport` give `Spec => []CompleteIsWhole`.
* `CompleteTracesAreInOrder`: `FoundAgain` and `IdsOnce` give `Spec => []OrderIsObserved`.

A trace is made of files that several processes wrote in several runs, so the invariant is about rows: a row about a call is
of the run that made that call, at its index (`RowsInv`, `Backed`); a result comes after the call it is about (`FirstInv`), so that the
first row of an index is the call's; a call whose outcome is out has its row, and a proxy that has not ended (`OpenInv`);
the rows of two files are in the order of the calls (`OrderInv`); and a call of this run that was observed is in its
file, which is opened afresh before the first proxy runs and then only for an agent that is hasty (`HeldInv`). A proxy that still runs has
not written its end (`EndInv`), so a run that published a complete trace has no proxy left to take calls afterwards (`DoneInv`):
this is why what is read from a proxy that lags behind is never complete. `ManifestInv` is what `FoundAgain` is needed for: a run without
a configuration finds no manifest. `assemble` sorts by moment with the record's file name as the tie-break, and says so by a gap when two
neighbours of different servers have one moment; `ObservedOrder` is that two such neighbours are the only way
for the order told to differ from the order made, and rests on `ChangeBetween`: a sequence that starts at one server and ends at another changes servers at two neighbours.

`Attestation_proofs` proves four, for any keys, bodies, tokens, moments and changes on the way:

* `AnchorsRefuse`: `Spec => []AnchorsOnlyRefuse`, of any package at all: it needs no invariant.
* `AcceptedIsAsSealed`: `Spec => []AcceptedAsSealed`, when the token can be read.
* `StampsAreBacked`: `Spec => []StampedByThen`.
* `SealedIsAsAccepted`: `Spec => []SealedIsAccepted`.

`Verdict` turns the checks of `verify_package`, each present or not and required or not, into three conjuncts: nothing made it
give up, what the package says by itself holds (`Sound`), and what the caller asks for holds (`Agreed`). The invariant is
then about where things come from: our signature is only on what our key sealed (`PackageOK`), and a token that is found good
and chains to the anchor says what the authority wrote (`Backed`), whoever put it there. `AcceptedIsAsSealed` follows
link by link: the caller's key or ring names the signing row, so its key is ours (`SigningRowIs`, `OursSigned`), so the manifest is a sealed one; the
manifest has the digest of every member (`AsItWasSealed`), the token among them. `SealedIsAsAccepted` is the other direction,
that nothing `write_package` and `stamp` may produce is refused by the reader of the same version: a reply that `stamp` keeps answers this request, since no two
requests have one nonce (`KeptReply`), and the moment it gives, where the clocks agree, is inside the window of the key that signs afterwards (`FreshAccepted`).

`EvidenceLog_proofs` proves seven, for logs of any length, any number of rewritten entries and any damage of one step, from
`LogAssumption` alone:

* `IncludedOnlyThere` and `ConsistentOnlyWithPrefix`, about the tree by itself: where the leaves differ, a proof of inclusion verifies at its
  index and nowhere else; and a proof of consistency convinces of an old root exactly when that is the root of the first leaves.
* `LogStaysIntact`: `Spec => []IInv`, and `LogTypeCorrect`: `Spec => []TypeOK`.
* `PackagesAreAsWritten`: `Spec => []AcceptedIsAsWritten`.
* `ProofsTellTheIndex`: `Spec => []IncludedAtItsIndex`.
* `ExtensionsArePrefixes`: `Spec => []ExtendsIsPrefix`.

The invariant is short: the log is a chain from its genesis within its bounds (`LogIntact`), which a log that was revised and
chained again is too; the manifest of a package has the head and the root of the log, whatever became of its entries
(`PackageOfLog`); and the reader would accept what it keeps (`KeptAccepted`). It is needed because `AcceptedIsAsWritten` by
itself says nothing of a log, only of a package. What the theorems need beyond it is arithmetic on trees, in four parts.

* *Induction.* What a loop of the code computes is a function on the naturals, and its properties are inductions. The library's
  induction theorems cannot be instantiated here, since they take an operator, but the well-foundedness of `<` on the
  naturals (`WFMin`, `NatLessThanWellFounded`) is about sets: `StrongInduction` states it for the set of the numbers that have a property, and
  `Recursion` says that a function defined by recursion is what its definition says.
* *Heights.* `Halved` against `Power` gives what the climb relies on: how often a size halves, that a level has the half of the nodes below,
  rounded up, and that a log and its beginning have in common every node of the beginning but the last of each level, and up to
  the border that one too (`SharedNodes`, `SharedBorder`).
* *The head tells the length, the root its leaves.* By induction from the root down, two trees of one size and one root have the same
  leaves (`RootDetermines`), since a hash is the term it was taken over. The root does not tell the size; the head
  does, since an entry has its index under its hash, and with the size the root tells the entries (`HeadAndRootDetermine`).
* *Proof and verifier meet.* `_consistency` goes down from the root and splits at powers of two, `verify_consistency` goes up
  by halves from the last node the trees share: neither mentions the other's numbers. `SiblingsOfSplit`
  has the way up from a position pass through the root of the half it is in, beside the root of the other; by `SubproofOfEven`
  splitting where the old log has even length is splitting the level above, and by `SubproofOfOdd` an odd one ends in a leaf, followed by
  the siblings on the way up from it. `SubproofIs` puts them together: the proof is the last node both trees share and
  the siblings on the way up from it. `RebuiltFromBorder` takes the verifier from there to both roots, and `RebuiltFromClaim`,
  for the sizes whose first node is left out, has a claimed root enter both hashes, so that a wrong one is found out at the new root.

**Only model-checked**, and why:

* Liveness (`LockIsReleased`, `EveryWaitEnds`, `SessionEnds`, `EveryPostEnds`): fairness and ENABLED are beyond the prover.
* `EveryCallIsToldOnce` and `HolesCiteTheirEvent` of Scan: what a fold of the transcript's lines computes. The induction over lines could be made as for the log,
  but not through the library's folds, which take an operator: the reader would first have to be a function of the line it is at.
* `ScanIsWhole` and `ReadingsAgree` of Scan, and the properties of `SurfaceHistory`: not out of reach, but not proved. The first speaks of documents as a whole and could be
  proved over an unread `Document`. Those of the surface compare the readers' answers on two trees, and a proof would go through every reader.
* The refinement of `Capture` over several launches, which does not hold of the abstract specification as it is stated: one capture is one launch.

## 6. Where the code and its own words disagree

The first five are checked by name: TLC ends each with a counterexample, and the first of them is a run.

1. `stdio_ids`. The server's own request with the id of the call in flight is taken for its
   answer (`proxy/stdio.py:266`), although `:243` promises "The reply to THIS message".
2. `stdio_chatty`. The deadline is per line (`proxy/stdio.py:274`), so a server that keeps
   talking is waited on for ever; `:66` says why it must not be (`EveryWaitEnds`, with `AgentKinds <- CallsOnly`,
   `ServerKinds <- JustAnswers`, `MaxSaid = 0` and `SPECIFICATION FairSpec` in `MCStdioProxy.cfg`).
3. `http_late`. `close` does not wait for handler threads (`proxy/http.py:146`): a call reaches
   the server after the record was closed as complete.
4. `watch_stale`. A run without a configuration inherits the manifest, and so the calls, of an
   earlier run (`proxy/session.py:222`), against `:191`.
5. `keyring_race`. Two rotations at once delete a private key (`attest/keyring.py:403`), against
   `:367`. The same model, with two commands, also shows a revocation undone: `revoke` and `rotate`
   both read the ring, and the one that saves last writes back the record it read
   (check `RevokedStaysRevoked` under the constants of `MCKeyringRace.cfg`).

Five more are refuted by TLC when the property named is put into the `.cfg` named, as it stands:

* A write to the server has no deadline (`proxy/stdio.py:217`, `:178`, `:350`): one that leaves its input full holds `serve`
  although the agent has gone (`EverySessionEnds` in `MCStdioLive.cfg`), against `:66`.
* The timeout of `urlopen` is one socket operation's (`proxy/http.py:198`): an upstream that drips holds the POST
  (`EveryPostIsAnswered` in `MCHttpProxy.cfg`), against `:108`, "an error it can act on rather than a hang".
* An exception of `http.client` is not caught (`proxy/http.py:198`, `:220`): the handler dies, and what is no call leaves no hole
  (`LossIsDeclared` in `MCHttpProxy.cfg`), against `:108`, "The gap is already recorded".
* A relaunched stdio server truncates its record (`proxy/__init__.py:110`): the calls of the first
  launch disappear and the trace is complete (`CompleteIsEverything` in `MCWatchSession.cfg`), against `:7`.
* `stamp` compares the token's moment with nothing (`attest/timestamp.py:1127`): a first seal stamped by an authority whose clock is behind is
  refused by its own reader (`StampedIsAccepted` in `MCAttestation.cfg`), against `:1097`.

Others were met while modelling and have no run of their own:

* A tool name with a lone surrogate cannot be encoded, and `_append` catches `OSError` only (`proxy/__init__.py:331`): the row is
  missing, `writes_failed` is not set, and `close` still writes `end`, against `:266`. In `Recorder` every row can be encoded.
* A session record that is complete but for its newline is read (`trace/claude_code.py:252`); once its writer was killed the next record is
  glued to it and neither is read. `Scan` has it; `ReadingsAgree` lets a reading lose what it names a hole for.
* An instruction file that becomes a link, or a file that moves into a submodule, is reported removed by a diff and not named
  (`surface/diff.py:284`, `:345`): `UnreadIsNamed` exempts both.
* A remote server whose listener does not bind beside one whose does raises `KeyError` in the rewrite
  (`session.py:236`), where `:266` says it "is left unrewritten on purpose". `Unpointable` in
  WatchSession models it: the run ends without a trace.
* Out-of-band lines are handed on only when the next answer or message comes, so a notification waits while the agent
  is idle, where `stdio.py:4` has lines going "through in both directions unchanged".
* A JSON message that is not an object raises out of `serve` (`stdio.py:366`); the record is then
  closed as complete. `ChokeOnOdd` models it, and `stdio` leaves the kind out.
* A byte that is not UTF-8 is read as end of output (`stdio.py:139`), and the gap then says the
  server closed it.
* An HTTP body that is not JSON gets a 400 and no gap (`http.py:103`); a notification whose answer is
  empty gets a 502 and no gap (`http.py:107`, `:232`).
* An entry with both a command and a url is recorded on one road and may be used on the other
  (`session.py:89`, `:115`).
* `verify_extends` raises `ValueError` when the older package has no entry (`merkle.py:160`), where it
  promises a verdict. `VerifyExtends` is stated for older packages that have one.
* `scan --demo --out` over a directory of earlier scans, or a scan cut off in the index, loses the salt (`cli.py:961`), although it is
  "written into the output directory the first time and read back after" (`SaltIsKept`, with `MaxLines = 1` in `MCScan.cfg`).
* Sessions named x, x and x-2 are written to two files (`cli.py:812`), where "what is lost is a name, never a trace" (`ScanIsWhole`,
  with `Sessions <- ThreeSessions`, `Declared <- NumberedNames`, `MaxScanned = 3` and `MaxScans = 1` in `MCScan.cfg`). A session named `index` likewise meets `index.json`; the model keeps the index apart.
* A call without a timestamp is sorted before every call that has one (`trace/claude_code.py:190`), where it "keeps its
  position relative to its own file" (`KeepsItsPlace`, with
  `MaxScans = 0` and `Untimed = TRUE` in `MCScan.cfg`).
* The first spelling of a Gemini tool command comes back INDETERMINATE and nothing says so: `check` exits 0 (`surface/gemini.py:263`,
  `ZeroIsResolved`, with `MaxEdits = 2` in `MCSurface.cfg`), where README.md:306 has "nothing was unresolved".
* A `manifest.tsr` that is over the size cap or cannot be read, beside a manifest that declares no time anchor, is taken for no token and
  the package verifies (`attest/verify.py:761`), where `:132` has a member over the cap be "a verification problem" (`AcceptedAsSealed`, with `MayNotBeRead <- Members` in `MCAttestation.cfg`).
* Of two anchors with one name the walk tries the first (`attest/trust.py:278`, `AnchorIsEnough` of TrustWalk).
* `row_for` may cite another row than the one that resolved a capability (`surface/merge.py:745`).
* A plugin's `hooks.json` that does not parse (`surface/claude_code.py:373`) and a Codex `hooks.json` that is not a mapping
  (`surface/codex.py:177`) leave no gap; `PassedOver` in SurfaceHistory names both.
* With one managed file that parses and one that does not, `_managed_sandbox` answers from the first alone (`surface/resolve.py:278`).
* A rule with `requires = DECLARED` still waits for a capability to be settled (`surface/rules.py:376`).
* Which of two new entries beside a removed one is ADDED is decided by their hashes (`surface/diff.py:548`); `NothingArrivesUnseen` is
  stated for what has no counterpart for this reason. A link in a ref is compared as a file that holds a path (`surface/diff.py:345`).
* A crash inside `Keyring.save` (`keyring.py:297`), or between the creation and the writing of a key,
  leaves a file that every later command fails on. `Keyring` has both states.

## 7. Not modelled, and the plan

Left out for good: byte formats and parsers (the ASN.1 of `timestamp.py`, the encoding of `dsse.py`, `jsonc.py`,
`miniyaml.py`), `trace/redact.py` and `trace/provenance.py` (pure functions and a table), formatting (`report/`, `i18n/`), the printing of
the command line, the MCP server (a line in, a line out, nothing kept), the repository's scripts. They keep no state and have
no order.

Left out of parts that are modelled:

* Session reader: a file that cannot be opened, a call without an id, several calls on one line, the summary of moments.
* Surface: the ceilings on depth, size and number of files, what git tracks, `--with-content`, the rounds of `git cat-file` and the
  refusal of a tree that is too large, the loading of rule packs from outside.
* Verification: the opening of the archive and its ceilings, the wording of problems. `seal.py`'s reading of its input.
* Trace model: `parse_trace`, a round trip through JSON.

Next, in this order:

1. Proofs: that a file of a scan holds the whole of one document of its own session (`ScanIsWhole`), with the stems distinct and the
   documents unread; and for the surface the lemmas on `row_for` and on the pairing of `surface_diff` that its properties rest on.
2. Materialising a ref: the rounds of requests to `git cat-file`, the tree that is refused, and what a diff says of it.
3. `seal.py` between a record that is still written and the package made of it.
