----------------------------- MODULE MCSurface -----------------------------
(***************************************************************************)
(* SurfaceHistory on files of all seven vendors with a few entries each,   *)
(* three machines, and histories of three edits.                           *)
(***************************************************************************)
EXTENDS SurfaceHistory

Hook(event, type, what) == [kind |-> "hook", event |-> event, type |-> type, what |-> what]
Server(launcher, package, url) ==
  [kind |-> "server", name |-> "s", launcher |-> launcher, package |-> package, url |-> url,
   trust |-> "yes"]
Mode(kind, mode) == [kind |-> kind, mode |-> mode]
Excluded(entry) == [kind |-> "sandbox", key |-> "excludedCommands", entry |-> entry]
Allow(rule) == [kind |-> "allow", rule |-> rule]
Automatic(value) == [kind |-> "automatic", value |-> value]
Task(on) == [kind |-> "task", run_on |-> on, what |-> "setup.sh"]
Helper(key, spelling) == [kind |-> "helper", key |-> key, spelling |-> spelling, what |-> "none",
                          text |-> "run"]
Import(path) == [kind |-> "import", path |-> path]
Body(text) == [kind |-> "body", text |-> text]
Trust(level) == [kind |-> "trust", level |-> level]

Written ==
  ".claude/settings.json" :>
    {Hook("SessionStart", "command", "setup.sh"), Mode("mode", "bypassPermissions"),
     Allow("Read"), Allow("Bash(*)"), Excluded("x"), [kind |-> "plugin", name |-> "p"]} @@
  ".claude/settings.local.json" :>
    {Hook("PreToolUse", "prompt", "none"), Mode("mode", "auto"), Excluded("y"),
     Helper("statusLine", "current"), [kind |-> "directory", path |-> "outside"],
     [kind |-> "approval", key |-> "enabledMcpjsonServers"]} @@
  ".mcp.json" :> {Server("npx", "x", "none"), Server("none", "none", "remote")} @@
  ClaudeDefinition.source :> {Hook("PreToolUse", "http", "remote")} @@
  ClaudePlugin :> {Hook("SessionStart", "mcp_tool", "t")} @@
  ".codex/config.toml" :>
    {Mode("approval_policy", "never"), Mode("approval_policy", "on-request"),
     [kind |-> "notify", text |-> "run"], [kind |-> "managed_hooks_only"],
     Server("npx", "x@1", "none")} @@
  ".codex/hooks.json" :> {Hook("SessionStart", "command", "setup.sh")} @@
  ".cursor/hooks.json" :> {Hook("sessionStart", "command", "none")} @@
  ".cursor/mcp.json" :> {Server("npx", "x", "none"), Server("node", "x", "none")} @@
  ".gemini/settings.json" :>
    {Server("node", "none", "local"), Mode("approval_policy", "auto_edit"),
     Mode("approval_policy", "plan"), Helper("tools.callCommand", "current"),
     Helper("tools.callCommand", "v1")} @@
  ".vscode/tasks.json" :> {Task("folderOpen"), Task("null")} @@
  ".vscode/settings.json" :> {Automatic("on")} @@
  "User/settings.json" :> {Automatic("on"), Automatic("off")} @@
  ".devcontainer.json" :>
    {[kind |-> "lifecycle", key |-> "initializeCommand", what |-> "setup.sh"],
     [kind |-> "mount", from |-> ".ssh"], [kind |-> "feature", feature |-> "x"],
     [kind |-> "isolation", key |-> "privileged", value |-> "yes"]} @@
  "AGENTS.md" :> {Import("outside.sh"), Import("setup.sh"), [kind |-> "piped", line |-> "1"]} @@
  "setup.sh" :> {Body("one"), Body("two")} @@
  "managed-settings.json" :> {Excluded("x")} @@
  "~/.claude.json" :> {Trust("yes"), Trust("no")} @@
  "~/.codex/config.toml" :> {Trust("yes"), Trust("no")}

\* Every file a reader opens is a file of the disk, and empty unless a history writes in it.
Opened == MachineFiles \cup DOMAIN Written
          \cup {f.source : f \in ClaudeProject \cup CodexProject \cup CursorProject
                                  \cup GeminiProject \cup VsCodeProject \cup DevContainerFiles
                                  \cup InstructionFiles}
MCEntries == Written @@ [f \in Opened |-> {}]

\* A machine that trusts the project and has a policy; one that does not trust it and has no
\* policy; one whose files do not parse.
Bare == [f \in MachineFiles |-> Absent]
Agreed == "managed-settings.json" :> Holding({Excluded("x")})
           @@ "~/.claude.json" :> Holding({Trust("yes")})
           @@ "~/.codex/config.toml" :> Holding({Trust("yes")})
           @@ "User/settings.json" :> Holding({Automatic("on")}) @@ Bare
Distrusting == "~/.claude.json" :> Holding({Trust("no")})
               @@ "~/.codex/config.toml" :> Holding({Trust("no")})
               @@ "User/settings.json" :> Holding({Automatic("off")})
               @@ "outside.sh" :> Holding({Body("one")}) @@ Bare
Damaged == "managed-settings.json" :> Broken @@ "~/.claude.json" :> Broken
           @@ "User/settings.json" :> Broken @@ Bare
MCHomes == {Agreed, Distrusting, Damaged}

MCTogether == {{".claude/settings.json", ClaudePlugin}, {".claude/settings.local.json"},
               {".mcp.json", ClaudeDefinition.source}, {".codex/config.toml", ".codex/hooks.json"},
               {".cursor/hooks.json", ".cursor/mcp.json"}, {".gemini/settings.json"},
               {".vscode/tasks.json", ".vscode/settings.json", "setup.sh"},
               {".devcontainer.json"}, {"AGENTS.md"}}
=============================================================================
