------------------------------ MODULE Surface ------------------------------
(***************************************************************************)
(* What every reader and resolver of seamark/surface/ shares: a file as a  *)
(* reader finds it, the handle it keeps of it, the gap it names instead,   *)
(* the facts about a script, and the one constructor of a capability.      *)
(*                                                                         *)
(* A disk is a function from file names to contents.  A content is a state *)
(* and the set of entries parsed out of the file; an entry is a record     *)
(* whose "kind" says which key of the file it stands for.  Facts are       *)
(* functions from names to strings: "yes", "no" and "null" are True, False *)
(* and None, and a fact nobody recorded is a name outside the domain.  A   *)
(* digest of a text is the text.                                           *)
(***************************************************************************)
EXTENDS Merge
LOCAL INSTANCE TLC

\* The scopes a repository can write in (REPOSITORY_SCOPES) and the two it cannot.
RepositoryScopes == {"project", "project-local"}
Scopes == RepositoryScopes \cup {"user", "managed"}

Resolutions == {"EFFECTIVE", "DECLARED", "INDETERMINATE"}

Truth(b) == IF b THEN "yes" ELSE "no"

(***************************************************************************)
(* Files                                                                   *)
(***************************************************************************)

\* "broken" is a file that is there and does not parse, is not UTF-8, is too large or cannot be
\* read; "shapeless" one that parses to something other than a mapping.
Absent == [state |-> "absent", items |-> {}]
Broken == [state |-> "broken", items |-> {}]
Shapeless == [state |-> "shapeless", items |-> {}]
Holding(items) == [state |-> "ok", items |-> items]

\* A file a reader opens, and which of its lists the handle goes to.
File(source, scope, list) == [source |-> source, scope |-> scope, list |-> list]

\* A parsed file (SettingsFile with data).
Handle(file, disk) == [source |-> file.source, scope |-> file.scope,
                       items |-> disk[file.source].items]

\* The handles of the files of one list that parsed; what did not parse never reaches a
\* resolver as an empty mapping.
Parsed(disk, files, list) ==
  {Handle(f, disk) : f \in {g \in files : g.list = list /\ disk[g.source].state = "ok"}}

\* One question the run could not answer (Unresolved); what it is about is a tuple.
Gap(subject, cause, source) == [subject |-> <<subject>>, cause |-> cause, source |-> source]

\* A mutant of Unread: a file that parses to something else than a mapping is taken for empty.
UnreadBroken(disk, files) ==
  {Gap(f.source, disk[f.source].state, f.source) :
     f \in {g \in files : disk[g.source].state = "broken"}}

\* A gap for every file that is there and was not parsed, none for an absent one.
Unread(disk, files) ==
  {Gap(f.source, disk[f.source].state, f.source) :
     f \in {g \in files : disk[g.source].state \in {"broken", "shapeless"}}}

\* The entries of one kind in a parsed file.
Entries(handle, kind) == {i \in handle.items : i.kind = kind}

\* What a run of the command may look at: the machine's own files, and a stated agent version.
Knowledge == [machine : BOOLEAN, version : Versions]

(***************************************************************************)
(* Scripts and servers                                                     *)
(***************************************************************************)

\* The facts recorded about the path a command names: that it exists, that it stays inside
\* the tree, its digest; or that no path was recognised (referenced_path, script_facts,
\* target_facts).
TargetFacts(disk, spoken) ==
  IF spoken = "none" THEN [target |-> "null", target_unknown_because |-> "no path"]
  ELSE LET body == {i.text : i \in disk[spoken].items}
       IN [target |-> spoken,
           target_exists |-> Truth(disk[spoken].state # "absent"),
           target_inside |-> Truth(spoken # "outside.sh"),
           target_sha |-> IF body = {} THEN "null" ELSE CHOOSE t \in body : TRUE]

\* Whether an npx-style launch names a version; no answer for a launcher of another kind.
Pinned(launcher, package) ==
  IF launcher # "npx" THEN "null" ELSE Truth(package = "x@1")

\* The facts of an MCP server entry, the same in every vendor's file.  Pinned and loopback are
\* always recorded, null where the question does not apply.
ServerFacts(s) ==
  [server |-> s.name, pinned |-> Pinned(s.launcher, s.package), args |-> s.package,
   loopback |-> IF s.url = "none" THEN "null" ELSE Truth(s.url = "local"), url |-> s.url,
   remote |-> Truth(s.url # "none")]

(***************************************************************************)
(* Capabilities                                                            *)
(***************************************************************************)

\* One capability of one vendor, with the merge rule cited for the key that gave it (emit).
Emit(vendor, name, handle, key, resolution, condition, facts) ==
  [vendor |-> vendor, name |-> name, scope |-> handle.scope, source |-> handle.source,
   resolution |-> resolution, rule |-> RuleName(RowFor(key, vendor)), condition |-> condition,
   facts |-> facts]

\* What one vendor's resolver answers for one root (Surface).
Answer(capabilities, gaps) == [capabilities |-> capabilities, gaps |-> gaps]
=============================================================================
