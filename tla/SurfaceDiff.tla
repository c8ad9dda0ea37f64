---------------------------- MODULE SurfaceDiff ----------------------------
(***************************************************************************)
(* The two commands on the surface: "check", one document for one root     *)
(* over every vendor, and "diff", the comparison of two such documents     *)
(* (cli.py check_document, run_check, run_diff; surface/diff.py).          *)
(*                                                                         *)
(* Capabilities left over on the two sides of one identity are paired in   *)
(* the order of their SHA-256, which is no order anybody chose: a diff     *)
(* here is one member of a set, one for every order they could come in.    *)
(***************************************************************************)
EXTENDS ClaudeCode, OtherAgents, Editors, Rules, Naturals, Sequences, SequencesExt

(***************************************************************************)
(* check                                                                   *)
(***************************************************************************)

\* The union of the seven vendors, each read and resolved on its own, and what the rules answer.
Document(capabilities, gaps) ==
  [capabilities |-> capabilities,
   findings |-> UNION {{<<id, c>> : id \in Findings(c)} : c \in capabilities},
   unresolved |-> gaps \cup UNION {RuleGaps(c) : c \in capabilities}]
Fused(surfaces) ==
  Document(UNION {s.capabilities : s \in surfaces}, UNION {s.gaps : s \in surfaces})
CheckDocument(disk, k) ==
  Fused({ClaudeCodeSurface(disk, k), CodexSurface(disk, k), CursorSurface(disk, k),
         GeminiSurface(disk, k), DevContainerSurface(disk, k), InstructionsSurface(disk, k),
         VsCodeSurface(disk, k)})

\* The exit code of check: findings, then gaps, then nothing to say.
CheckExit(document) ==
  IF document.findings # {} THEN 1 ELSE IF document.unresolved # {} THEN 3 ELSE 0

(***************************************************************************)
(* The tree of one ref                                                     *)
(***************************************************************************)

\* Beside the states of a file on disk, an entry of a git tree may be a symbolic link to a file
\* that would parse, or lie inside a submodule.  The working copy shows check links followed and
\* submodules checked out.
WorkingTree(tree) ==
  [f \in DOMAIN tree |-> IF tree[f].state \in {"link", "module"} THEN Holding(tree[f].items)
                         ELSE tree[f]]

\* The files read as text: any text will do.
Texts == {f.source : f \in InstructionFiles} \cup {ClaudeDefinition.source}

\* The tree as materialise writes it out: a link becomes an ordinary file holding the path it
\* points at, and a submodule is not a file: it goes on the extraction's list of what was
\* refused, which run_diff does not print.
Materialise(tree) ==
  [f \in DOMAIN tree |->
     CASE tree[f].state = "link" -> IF f \in Texts THEN Holding({}) ELSE Broken
       [] tree[f].state = "module" -> Absent
       [] OTHER -> tree[f]]

(***************************************************************************)
(* diff                                                                    *)
(***************************************************************************)

Identity(c) == <<c.vendor, c.name, c.scope, c.source>>

\* The facts whose name says which value is the wider one, and the facts each summarises.
Summarises == [guardrail_removed |-> {"policy", "mode"},
               isolation_weakened |-> {"enabled", "allowUnsandboxedCommands"},
               widens_managed |-> {}]
Ordered == DOMAIN Summarises

\* The names of the facts that differ between two capabilities.
Moved(was, now) ==
  LET both == DOMAIN was.facts \cap DOMAIN now.facts
  IN {n \in DOMAIN was.facts \cup DOMAIN now.facts : n \notin both \/ was.facts[n] # now.facts[n]}

\* A mutant of Direction: a guardrail that moved is a widening either way.
DirectionUp(was, now) ==
  IF Moved(was, now) \cap Ordered # {} THEN "widened" ELSE "changed"

\* Which way a pair went: wider or narrower only when everything that differs is ordered and
\* points one way (_direction).
Direction(was, now) ==
  LET moved == Moved(was, now)
      ordered == moved \cap Ordered
      settled(n) == \A c \in {was, now} : n \in DOMAIN c.facts /\ c.facts[n] \in {"yes", "no"}
      covered == ordered \cup UNION {Summarises[n] : n \in ordered}
      signals == {IF now.facts[n] = "yes" THEN "widened" ELSE "narrowed" : n \in ordered}
                 \cup IF was.resolution = now.resolution THEN {}
                      ELSE {IF now.resolution = "EFFECTIVE" THEN "widened" ELSE "narrowed"}
  IN IF was.rule # now.rule \/ was.condition # now.condition THEN "changed"
     ELSE IF \E n \in ordered : ~settled(n) THEN "changed"
     ELSE IF moved \subseteq covered /\ \E way \in {"widened", "narrowed"} : signals = {way}
       THEN CHOOSE way \in signals : TRUE
     ELSE "changed"

\* A mutant of Pairs: it stops at the end of the shorter side.
PairsShort(old, new) ==
  {[was |-> {old[i]}, now |-> {new[i]}] : i \in DOMAIN old \cap DOMAIN new}

\* The pairs of two ordered sides, the longer one running on alone; a side is a set of at most
\* one capability.
Pairs(old, new) ==
  LET at(side, i) == IF i <= Len(side) THEN {side[i]} ELSE {}
      longer == IF Len(old) > Len(new) THEN Len(old) ELSE Len(new)
  IN {[was |-> at(old, i), now |-> at(new, i)] : i \in 1..longer}

Undecided(pair) == \E c \in pair.was \cup pair.now : c.resolution = "INDETERMINATE"

\* What one pair is: one of five changes, or none when either side could not be resolved.
Kind(pair) ==
  IF Undecided(pair) THEN "indeterminate"
  ELSE IF pair.was = {} THEN "added"
  ELSE IF pair.now = {} THEN "removed"
  ELSE CHOOSE d \in {Direction(w, n) : w \in pair.was, n \in pair.now} : TRUE

ChangeGap(pair) ==
  LET stuck == CHOOSE c \in {d \in pair.was \cup pair.now : d.resolution = "INDETERMINATE"} : TRUE
  IN [subject |-> <<"a change to", stuck.vendor, stuck.name>>, cause |-> stuck.condition,
      source |-> stuck.source]

\* What is left of one side of an identity once what both sides hold is set aside.
LeftOver(these, those, id) == {c \in these \ those : Identity(c) = id}

\* The document of one pairing: every pair that could be named, with its change, and the gaps,
\* those of the pairs and those the second side has and the first had not.
DiffDocument(before, after, pairs) ==
  [entries |-> {[kind |-> Kind(p), was |-> p.was, now |-> p.now] :
                  p \in {q \in pairs : ~Undecided(q)}},
   indeterminate |-> {ChangeGap(p) : p \in {q \in pairs : Undecided(q)}}
                     \cup (after.unresolved \ before.unresolved)]

\* The diffs of two documents, one for every order the digests may come in (surface_diff).
DiffDocuments(before, after) ==
  LET ids == {Identity(c) : c \in (before.capabilities \ after.capabilities)
                                  \cup (after.capabilities \ before.capabilities)}
      old(id) == SetToSeqs(LeftOver(before.capabilities, after.capabilities, id))
      new(id) == SetToSeqs(LeftOver(after.capabilities, before.capabilities, id))
      pairings(id) == {Pairs(o, n) : o \in old(id), n \in new(id)}
      choices == {f \in [ids -> UNION {pairings(id) : id \in ids}] :
                    \A id \in ids : f[id] \in pairings(id)}
  IN {DiffDocument(before, after, UNION {f[id] : id \in ids}) : f \in choices}

\* The findings on what was added or widened, which is what the exit code is about.
FiredOnNew(diff) ==
  UNION {{<<id, c>> : id \in Findings(c)} :
           c \in UNION {e.now : e \in {x \in diff.entries : x.kind \in {"added", "widened"}}}}

DiffExit(diff) ==
  IF FiredOnNew(diff) # {} THEN 1 ELSE IF diff.indeterminate # {} THEN 3 ELSE 0

\* A mutant of SideDocument: diff reads the machine as check --machine does.
SideDocumentMachine(tree, home, version) ==
  CheckDocument(Materialise(tree) @@ home, [machine |-> TRUE, version |-> version])

\* The document of one side of a diff: the materialised tree, never the machine.
SideDocument(tree, home, version) ==
  CheckDocument(Materialise(tree) @@ home, [machine |-> FALSE, version |-> version])
=============================================================================
