--------------------------- MODULE SurfaceHistory ---------------------------
(***************************************************************************)
(* A repository whose agent configuration is edited, one entry of one file *)
(* at a time, on a machine whose own files the repository cannot write.    *)
(* In every state "check" may be run on the working tree and "diff" on the *)
(* last commit and the tree; both are functions of the state, so the       *)
(* properties say what they would answer.                                  *)
(***************************************************************************)
EXTENDS SurfaceDiff, FiniteSets

CONSTANTS EntriesOf,   \* for every file, the entries a history may write in it
          Homes,       \* the machines: contents of the files outside the repository
          Together,    \* the sets of files that one history may touch (bound)
          MaxEdits     \* how many edits a history makes (bound)

ASSUME MaxEditsAssumption == MaxEdits \in Nat

VARIABLES base,    \* the tree of the last commit
          tree,    \* the tree now
          home,    \* the machine's own files
          edits    \* how many edits were made

vars == <<base, tree, home, edits>>

MachineFiles == {f.source : f \in ClaudeMachine \cup CodexMachine \cup CursorMachine
                                  \cup GeminiMachine \cup VsCodeMachine} \cup {"outside.sh"}
RepositoryFiles == DOMAIN EntriesOf \ MachineFiles

Nothing == [f \in RepositoryFiles |-> Absent]

\* Keys that hold one value: writing a second one replaces the first.
SingleKeys == {"mode", "notify", "sandbox_mode", "approval_policy", "automatic", "trust", "body"}
Replaced(items, i) == {j \in items : ~(j.kind = i.kind /\ i.kind \in SingleKeys)}

TouchedWith(f) == {f} \cup {g \in RepositoryFiles : tree[g] # Absent \/ base[g] # Absent}

(***************************************************************************)
(* The history                                                             *)
(***************************************************************************)

Init == /\ base = Nothing /\ tree = Nothing
        /\ home \in Homes
        /\ edits = 0

Edit(f, content) ==
  /\ edits < MaxEdits
  /\ \E files \in Together : TouchedWith(f) \subseteq files
  /\ content # tree[f]
  /\ tree' = [tree EXCEPT ![f] = content]
  /\ edits' = edits + 1
  /\ UNCHANGED <<base, home>>

Write == \E f \in RepositoryFiles : \E i \in EntriesOf[f] :
           /\ tree[f].state \in {"absent", "ok"}
           /\ Edit(f, Holding(Replaced(tree[f].items, i) \cup {i}))

Drop == \E f \in RepositoryFiles : \E i \in tree[f].items :
          /\ tree[f].state = "ok"
          /\ Edit(f, Holding(tree[f].items \ {i}))

Delete == \E f \in RepositoryFiles : Edit(f, Absent)

Spoil == \E f \in RepositoryFiles, content \in {Broken, Shapeless} : Edit(f, content)

\* The file becomes a link to one with the same contents, or moves into a submodule.
Move == \E f \in RepositoryFiles, state \in {"link", "module"} :
          /\ tree[f].state = "ok"
          /\ Edit(f, [tree[f] EXCEPT !.state = state])

Commit == base # tree /\ base' = tree /\ UNCHANGED <<tree, home, edits>>

Next == Write \/ Drop \/ Delete \/ Spoil \/ Move \/ Commit

Spec == Init /\ [][Next]_vars

(***************************************************************************)
(* Properties                                                              *)
(***************************************************************************)

Check(k) == CheckDocument(WorkingTree(tree) @@ home, k)
Blind == [machine |-> FALSE, version |-> "unknown"]

\* What is known grows: the machine is read, the version is stated.
Grows(k, l) == /\ k.machine => l.machine
               /\ k.version \in {"unknown", l.version}

\* A capability as the file wrote it, without what only the machine can add to it.
AsWritten(c) ==
  [file |-> c.source, vendor |-> c.vendor, name |-> c.name, scope |-> c.scope,
   facts |-> [n \in DOMAIN c.facts \ {"widens_managed", "automatic_allowed"} |-> c.facts[n]]]
\* The rules that answered of a capability, each with its answer, and those that could not.
Answers(document) ==
  UNION {{<<r.id, AsWritten(c), Verdict(r, c)>> : r \in Matching(c)} : c \in document.capabilities}
Settled(answers) == {a \in answers : a[3] # "gap"}

\* The machine with one of its unreadable files repaired.
Repaired(f) == {Holding(items) : items \in {{}} \cup {{i} : i \in EntriesOf[f]}}
Mended == UNION {{[home EXCEPT ![f] = content] : content \in Repaired(f)} :
                   f \in {g \in DOMAIN home : home[g].state = "broken"}}

SettledIn(runs) ==
  /\ \A r, s \in runs : Grows(r.knowing, s.knowing) => Settled(r.answers) \subseteq Settled(s.answers)
  /\ \A h \in Mended : \A r \in {q \in runs : q.knowing.machine} :
       Settled(r.answers) \subseteq Settled(Answers(CheckDocument(WorkingTree(tree) @@ h, r.knowing)))

\* What a rule answered is not taken back when more is known: neither reading the machine nor
\* stating the agent's version nor repairing a machine file that did not parse turns a rule that
\* fired silent or a silent one firing.  Only the questions that were left open are settled
\* (_widens, automatic_allowed, _default_mode and the order of the answers in evaluate).  It is
\* checked on machines without two managed files of which one parses and one does not: repairing
\* the other may take an answer back, since either is enough for _managed_sandbox to answer.
SettledStaysSettled ==
  SettledIn({[knowing |-> k, answers |-> Answers(Check(k))] : k \in Knowledge})

\* The files and states a reader passes over without a word: the hooks of a plugin, a text
\* without a block or an import, a Codex hooks.json that is not a mapping, a script.
PassedOver(f, content) ==
  \/ f \in {ClaudePlugin, "setup.sh"}
  \/ content.state = "shapeless" /\ f \in Texts \cup {".codex/hooks.json"}
Illegible(f, content) == content.state \in {"broken", "shapeless"} /\ ~PassedOver(f, content)

Base(version) == SideDocument(base, home, version)
Tip(version) == SideDocument(tree, home, version)

Named(gaps, f) == \E g \in gaps : g.source = f
CheckNames(document) ==
  \A f \in RepositoryFiles : Illegible(f, WorkingTree(tree)[f]) =>
    Named(document.unresolved, f) /\ CheckExit(document) # 0

\* A file nobody could read is never read as an empty one: check names it and does not exit 0,
\* and a diff that reports a capability as removed because its file stopped parsing, or became
\* a link in the tree of the ref, names that file among what it could not tell.  Exempt are the
\* files PassedOver lists; an instruction file that became a link, which is read as a text that
\* holds a path; and a file that moved into a submodule, which is absent from the tree of the
\* ref: of the last two a diff reports what they held as removed and names nothing.
UnreadIsNamed ==
  /\ CheckNames(Check(Blind))
  /\ \A d \in DiffDocuments(Base("unknown"), Tip("unknown")) : \A e \in d.entries :
       e.now = {} => \A c \in e.was :
         Illegible(c.source, Materialise(tree)[c.source]) => Named(d.indeterminate, c.source)

ShowsEveryChange(before, after) ==
  LET once(d, side, c) ==
        \/ Cardinality({e \in d.entries : e[side] = {c}}) = 1
        \/ \E g \in d.indeterminate : g.source = c.source /\ g.subject[1] = "a change to"
      known == {Identity(c) : c \in before.capabilities}
  IN \A d \in DiffDocuments(before, after) :
       /\ \A c \in after.capabilities \ before.capabilities : once(d, "now", c)
       /\ \A c \in before.capabilities \ after.capabilities : once(d, "was", c)
       /\ (\E f \in after.findings : Identity(f[2]) \notin known) => DiffExit(d) = 1

\* Whatever order the digests come in, a capability the base did not hold is on the right of
\* exactly one entry of the diff or behind a gap at its source, one the base held and the tree
\* does not is likewise on the left, and a finding on a capability of a vendor, name, scope and
\* file that had none before makes the command exit 1.
NothingArrivesUnseen ==
  \A version \in Versions : ShowsEveryChange(Base(version), Tip(version))

Opposite == [added |-> "removed", removed |-> "added", widened |-> "narrowed",
             narrowed |-> "widened", changed |-> "changed"]
Mirror(d) == {[kind |-> Opposite[e.kind], was |-> e.now, now |-> e.was] : e \in d.entries}
Mirrored(before, after) ==
  {Mirror(d) : d \in DiffDocuments(before, after)} = {d.entries : d \in DiffDocuments(after, before)}

\* Read backwards a diff says the opposite: what was added is removed, what widened narrowed,
\* and what is merely changed stays so.
DiffMirrors == Mirrored(Base("unknown"), Tip("unknown"))

AgreesWith(diffs, found) ==
  \A d \in diffs : /\ FiredOnNew(d) = found.findings
                   /\ found.unresolved \subseteq d.indeterminate
                   /\ CheckExit(found) # 0 => DiffExit(d) = CheckExit(found)

\* The two commands agree about one repository: against a commit that holds nothing, and where
\* no link or submodule sets the tree of the ref apart from the working copy, diff objects to
\* exactly what check finds and leaves open whatever check leaves open.
DiffFromNothingIsCheck ==
  (base = Nothing /\ \A f \in RepositoryFiles : tree[f].state \notin {"link", "module"}) =>
    \A version \in Versions :
      AgreesWith(DiffDocuments(Base(version), Tip(version)),
                 Check([machine |-> FALSE, version |-> version]))

\* What is said of the other files: the capabilities they give and how each resolves, leaving
\* out what is recorded of the scripts they name and the hooks of a plugin they enable.
ScriptFacts == {"target_exists", "target_sha"}
Others(document, f) ==
  {[name |-> c.name, file |-> c.source, scope |-> c.scope, resolution |-> c.resolution,
    condition |-> c.condition,
    facts |-> [n \in DOMAIN c.facts \ ScriptFacts |-> c.facts[n]]] :
     c \in {d \in document.capabilities : d.source \notin {f, ClaudePlugin}}}

\* Only the operator decides: what one file of the repository says never changes the capabilities
\* of another or how they resolve; without it they are the same.  Trust, the managed policy and
\* the setting for automatic tasks are read from the machine's own files and from nowhere else.
OnlyTheOperatorDecides ==
  \A f \in {g \in RepositoryFiles : tree[g] # Absent}, machine \in BOOLEAN :
    LET k == [machine |-> machine, version |-> "from"]
        without == WorkingTree([tree EXCEPT ![f] = Absent])
    IN Others(Check(k), f) = Others(CheckDocument(without @@ home, k), f)

\* The documented meaning of exit 0 is that nothing fired and nothing was unresolved
\* (README.md:306); the first spelling of a Gemini tool command is emitted INDETERMINATE, no rule
\* names it and no reader names a gap for it, so check exits 0 over it.
ZeroIsResolved ==
  \A k \in Knowledge : CheckExit(Check(k)) = 0 =>
    \A c \in Check(k).capabilities : c.resolution # "INDETERMINATE"
=============================================================================
