------------------------------ MODULE Editors ------------------------------
(***************************************************************************)
(* VS Code tasks, dev containers and instruction files: vscode.py,         *)
(* devcontainer.py and instructions.py of seamark/surface/.                *)
(***************************************************************************)
EXTENDS Surface
LOCAL INSTANCE TLC

(***************************************************************************)
(* VS Code                                                                 *)
(***************************************************************************)

VsCodeProject == {File(".vscode/tasks.json", "project", "settings"),
                  File(".vscode/settings.json", "project", "settings")}
VsCodeMachine == {File("User/settings.json", "user", "settings"),
                  File("User/tasks.json", "user", "settings")}
VsCodeFiles(k) == VsCodeProject \cup (IF k.machine THEN VsCodeMachine ELSE {})

\* A mutant of AutomaticTasks: a workspace file is an answer too.
AutomaticTasksAnywhere(handles) ==
  LET said == {i.value : i \in UNION {Entries(h, "automatic") : h \in handles}}
  IN IF said = {} THEN "null" ELSE CHOOSE value \in said : TRUE

\* The value that decides whether an automatic task runs: only the user's own file can say.
AutomaticTasks(handles) ==
  LET said == {i.value : i \in UNION {Entries(h, "automatic") :
                                        h \in {g \in handles : g.scope = "user"}}}
  IN IF said = {} THEN "null" ELSE CHOOSE value \in said : TRUE

\* A task that runs on opening the folder waits on that value, and carries no fact about it
\* when no file that was read gives one.
TaskState(automatic, allowed) ==
  CASE ~automatic -> <<"EFFECTIVE", "none", << >> >>
    [] automatic /\ allowed = "on" -> <<"EFFECTIVE", "allowed", [automatic_allowed |-> "yes"]>>
    [] automatic /\ allowed = "off" -> <<"DECLARED", "blocked", [automatic_allowed |-> "no"]>>
    [] OTHER -> <<"INDETERMINATE", "setting not read", << >> >>
TaskCapability(disk, h, i, allowed) ==
  LET automatic == i.run_on = "folderOpen"
      t == TaskState(automatic, allowed)
  IN Emit("vscode", "task.command", h, "tasks", t[1], t[2],
          t[3] @@ [run_on |-> i.run_on, at_startup |-> Truth(automatic)]
          @@ TargetFacts(disk, i.what))

\* A repository that writes the application-scoped key declares something VS Code ignores.
IgnoredKey(h, i) ==
  Emit("vscode", "settings.ignored_key", h, "task.allowAutomaticTasks", "DECLARED",
       "application-scoped", [value |-> i.value, honoured_here |-> "no"])

VsCodeCapabilities(disk, handles) ==
  UNION {{TaskCapability(disk, h, i, AutomaticTasks(handles)) : i \in Entries(h, "task")} :
           h \in handles}
  \cup UNION {{IgnoredKey(h, i) : i \in Entries(h, "automatic")} :
                h \in {g \in handles : g.scope \in RepositoryScopes}}
VsCodeSurface(disk, k) ==
  Answer(VsCodeCapabilities(disk, Parsed(disk, VsCodeFiles(k), "settings")),
         Unread(disk, VsCodeFiles(k)))

(***************************************************************************)
(* Dev containers                                                          *)
(***************************************************************************)

DevContainerFiles == {File(".devcontainer/devcontainer.json", "project", "settings"),
                      File(".devcontainer.json", "project", "settings"),
                      File(".devcontainer/x/devcontainer.json", "project", "settings")}
CredentialSources == {".ssh", ".aws"}

\* One of the six lifecycle commands runs on the host; a mount is judged by the path it names;
\* a feature by the version it names.
DevContainerCapabilities(disk, h) ==
  LET emit(name, key, condition, facts) ==
        Emit("devcontainer", name, h, key, "EFFECTIVE", condition, facts)
      onHost(i) == i.key = "initializeCommand"
  IN {emit("lifecycle.command", i.key, IF onHost(i) THEN "on the host" ELSE "in the container",
           [key |-> i.key, on_host |-> Truth(onHost(i))] @@ TargetFacts(disk, i.what)) :
        i \in Entries(h, "lifecycle")}
     \cup {emit("container.mount", "mounts", "none",
                [mount_source |-> i.from, names_credential |-> Truth(i.from \in CredentialSources)]) :
             i \in Entries(h, "mount")}
     \cup {emit("container.isolation", i.key, "none",
                [key |-> i.key, value |-> i.value, isolation_weakened |-> "yes"]) :
             i \in Entries(h, "isolation")}
     \cup {emit("container.feature", "features", "none",
                [feature |-> i.feature, pinned |-> Truth(i.feature = "x@1")]) :
             i \in Entries(h, "feature")}

DevContainerSurface(disk, k) ==
  Answer(UNION {DevContainerCapabilities(disk, h) : h \in Parsed(disk, DevContainerFiles, "settings")},
         Unread(disk, DevContainerFiles))

(***************************************************************************)
(* Instruction files                                                       *)
(***************************************************************************)

InstructionFiles == {File("AGENTS.md", "project", "text"), File("CLAUDE.md", "project", "text"),
                     File("CLAUDE.local.md", "project", "text"), File("GEMINI.md", "project", "text")}

\* An import is a path, and waits for approval when it leaves the tree; a piped download is
\* declared and no more.  A text has no shape to be wrong.
InstructionCapabilities(disk, h) ==
  {LET outside == i.path = "outside.sh"
   IN Emit("instructions", "instructions.import", h, "import",
           IF outside THEN "DECLARED" ELSE "EFFECTIVE",
           IF outside THEN "approval" ELSE "none",
           [outside_tree |-> Truth(outside), is_script |-> Truth(i.path # "notes.md")]
           @@ TargetFacts(disk, i.path)) : i \in Entries(h, "import")}
  \cup {Emit("instructions", "instructions.remote_execution", h, "import.syntax", "DECLARED",
             "declared only", [line |-> i.line, literal_remote_execution |-> "yes"]) :
          i \in Entries(h, "piped")}

InstructionsSurface(disk, k) ==
  Answer(UNION {InstructionCapabilities(disk, h) : h \in Parsed(disk, InstructionFiles, "text")},
         {g \in Unread(disk, InstructionFiles) : g.cause = "broken"})
=============================================================================
