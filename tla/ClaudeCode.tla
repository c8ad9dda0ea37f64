---------------------------- MODULE ClaudeCode ----------------------------
(***************************************************************************)
(* The Claude Code reader and resolver: surface/claude_code.py opens the   *)
(* files and surface/resolve.py turns what was read into capabilities.     *)
(***************************************************************************)
EXTENDS Surface
LOCAL INSTANCE TLC

ClaudeProject == {File(".claude/settings.local.json", "project-local", "settings"),
                  File(".claude/settings.json", "project", "settings"),
                  File(".mcp.json", "project", "servers")}
ClaudeMachine == {File("~/.claude/settings.json", "user", "settings"),
                  File("~/.claude.json", "user", "servers"),
                  File("managed-settings.json", "managed", "settings"),
                  File("managed-mcp.json", "managed", "settings")}
ClaudeDefinition == File(".claude/agents/a.md", "project", "definition")
ClaudePlugin == ".claude/plugins/p/hooks/hooks.json"

ClaudeFiles(k) == ClaudeProject \cup (IF k.machine THEN ClaudeMachine ELSE {})

(***************************************************************************)
(* The read                                                                *)
(***************************************************************************)

\* Skill and subagent definitions: only the hooks of a frontmatter block are kept, and a
\* definition without one says nothing.
Definitions(disk) ==
  {[h EXCEPT !.items = Entries(h, "hook")] : h \in Parsed(disk, {ClaudeDefinition}, "definition")}
DefinitionGaps(disk) ==
  {Gap(ClaudeDefinition.source, "broken", ClaudeDefinition.source) :
     s \in {disk[ClaudeDefinition.source].state} \cap {"broken"}}

\* The settings files that enable the plugin, and the hooks of the plugin in the scope of each;
\* a plugin that is not on disk is a gap.
Enabling(settings) == {h \in settings : Entries(h, "plugin") # {}}
PluginHooks(disk, settings) ==
  {[source |-> ClaudePlugin, scope |-> h.scope, items |-> disk[ClaudePlugin].items] :
     h \in {g \in Enabling(settings) : disk[ClaudePlugin].state = "ok"}}
PluginGaps(disk, settings) ==
  {Gap("plugin", "not downloaded", h.source) :
     h \in {g \in Enabling(settings) : disk[ClaudePlugin].state = "absent"}}

\* Whether the trust dialog was accepted for this root: only ~/.claude.json says.
ClaudeTrust(disk, k) ==
  LET said == {i.level : i \in {j \in disk["~/.claude.json"].items : j.kind = "trust"}}
  IN IF ~k.machine \/ said = {} THEN "null" ELSE CHOOSE level \in said : TRUE

\* Everything the reader saw, before anything is resolved (Reading).
Reading(disk, files, settings, trusted) ==
  [disk |-> disk,
   settings |-> settings,
   servers |-> Parsed(disk, files, "servers") \cup PluginHooks(disk, settings),
   gaps |-> Unread(disk, files) \cup DefinitionGaps(disk) \cup PluginGaps(disk, settings),
   trusted |-> trusted]
ClaudeReading(disk, k) ==
  LET files == ClaudeFiles(k)
  IN Reading(disk, files, Parsed(disk, files, "settings") \cup Definitions(disk),
             ClaudeTrust(disk, k))

(***************************************************************************)
(* The resolution                                                          *)
(***************************************************************************)

\* What workspace trust does to a capability of this scope: only the repository's waits.
TrustState(trusted, scope) ==
  IF scope \notin RepositoryScopes \/ trusted = "yes" THEN <<"EFFECTIVE", "none">>
  ELSE IF trusted = "no" THEN <<"DECLARED", "trust not accepted">>
  ELSE <<"DECLARED", "trust not read">>

\* The permission mode, the one key whose effect depends on the version of the agent.
DefaultMode(scope, mode, version) ==
  IF scope \notin RepositoryScopes \/ mode \notin {"auto", "bypassPermissions"}
    THEN <<"EFFECTIVE", "none">>
  ELSE IF mode = "auto" THEN <<"DECLARED", "not at any version">>
  ELSE CASE version = "unknown" -> <<"INDETERMINATE", "agent version">>
         [] version = "before" -> <<"EFFECTIVE", "before the threshold">>
         [] version = "from" -> <<"DECLARED", "from the threshold">>

HandlerTypes == {"command", "http", "mcp_tool"}
BeforeTrust(scope) == IF scope \in RepositoryScopes THEN "before trust" ELSE "none"

\* The hooks of one file; a handler of an unknown type is a gap and never a capability.
HookFacts(disk, i) ==
  [event |-> i.event, at_startup |-> Truth(i.event = "SessionStart")] @@
  CASE i.type = "command" -> TargetFacts(disk, i.what)
    [] i.type = "http" -> [url |-> i.what, loopback |-> Truth(i.what = "local")]
    [] i.type = "mcp_tool" -> [tool |-> i.what]
HookName == [command |-> "hook.command", http |-> "hook.http", mcp_tool |-> "hook.mcp_tool"]
Hooks(disk, h) ==
  {Emit("claude", HookName[i.type], h, "hooks", "EFFECTIVE", BeforeTrust(h.scope),
        HookFacts(disk, i)) : i \in {j \in Entries(h, "hook") : j.type \in HandlerTypes}}
HookGaps(h) ==
  {Gap("hook", i.type, h.source) : i \in {j \in Entries(h, "hook") : j.type \notin HandlerTypes}}

\* The permissions block: the mode, the allow rules and the additional directories.
Permissions(h, trusted, version) ==
  {LET r == DefaultMode(h.scope, i.mode, version)
   IN Emit("claude", "permissions.default_mode", h, "permissions.defaultMode", r[1], r[2],
           [mode |-> i.mode]) : i \in Entries(h, "mode")}
  \cup LET r == TrustState(trusted, h.scope) IN
  {Emit("claude", "permissions.allow", h, "permissions.allow", r[1], r[2],
        [rule |-> i.rule]) : i \in Entries(h, "allow")}
  \cup
  {Emit("claude", "permissions.additional_directory", h, "permissions.additionalDirectories",
        r[1], r[2], [path |-> i.path, inside_tree |-> Truth(i.path # "outside")]) :
     i \in Entries(h, "directory")}

\* The settings keys that run a command.
Helpers(h) ==
  {Emit("claude", "helper.command", h, i.key, "EFFECTIVE", BeforeTrust(h.scope),
        [key |-> i.key, command |-> i.text]) : i \in Entries(h, "helper")}

\* A mutant of ManagedSandbox: no managed file read is taken for an empty policy.
ManagedSandboxEmpty(settings) ==
  LET seen == {h \in settings : h.scope = "managed"}
  IN [known |-> TRUE,
      entries |-> UNION {{<<i.key, i.entry>> : i \in Entries(h, "sandbox")} : h \in seen}]

\* What the managed scope already allows: nothing known when no managed file was read.
ManagedSandbox(settings) ==
  LET seen == {h \in settings : h.scope = "managed"}
  IN [known |-> seen # {},
      entries |-> UNION {{<<i.key, i.entry>> : i \in Entries(h, "sandbox")} : h \in seen}]

\* Whether an entry widens the managed policy: no fact at all when that is not known.
Widens(h, i, managed) ==
  IF h.scope \in RepositoryScopes /\ managed.known
    THEN [widens_managed |-> Truth(<<i.key, i.entry>> \notin managed.entries)] ELSE << >>

SandboxName == [enabled |-> "sandbox.disabled",
                allowUnsandboxedCommands |-> "sandbox.unsandboxed_allowed",
                excludedCommands |-> "sandbox.excluded_command",
                allowedDomains |-> "sandbox.network_domain"]
SandboxKey == [enabled |-> "sandbox.enabled",
               allowUnsandboxedCommands |-> "sandbox.allowUnsandboxedCommands",
               excludedCommands |-> "sandbox.excludedCommands",
               allowedDomains |-> "sandbox.network.allowedDomains"]
Sandbox(h, managed) ==
  {Emit("claude", SandboxName[i.key], h, SandboxKey[i.key], "EFFECTIVE", "none",
        IF i.key \in {"excludedCommands", "allowedDomains"}
          THEN [entry |-> i.entry] @@ Widens(h, i, managed)
          ELSE [value |-> i.entry, isolation_weakened |-> "yes"]) : i \in Entries(h, "sandbox")}

\* The servers of one file, and the keys that approve them in advance.
Servers(h, trusted) ==
  LET r == TrustState(trusted, h.scope) IN
  {Emit("claude", "mcp.server", h, "enableAllProjectMcpServers", r[1], r[2], ServerFacts(i)) :
     i \in Entries(h, "server")}
Approvals(h, trusted) ==
  LET r == TrustState(trusted, h.scope) IN
  {Emit("claude", "mcp.approval", h, i.key, r[1], r[2], [key |-> i.key]) :
     i \in Entries(h, "approval")}

\* Everything the reader saw, resolved (resolve).  The settings files hold every kind of entry;
\* a file of servers or a plugin only servers and hooks.
FromSettings(reading, managed, version) ==
  UNION {Permissions(h, reading.trusted, version) \cup Helpers(h) \cup Sandbox(h, managed)
         \cup Approvals(h, reading.trusted) : h \in reading.settings}
FromEveryFile(reading) ==
  UNION {Hooks(reading.disk, h) \cup Servers(h, reading.trusted) :
           h \in reading.settings \cup reading.servers}
ResolveGaps(reading, found, version) ==
  UNION {HookGaps(h) : h \in reading.settings \cup reading.servers}
  \cup {Gap("agent version", "none given", "--agent-version") :
          c \in {d \in found : version = "unknown" /\ d.resolution = "INDETERMINATE"}}
Resolved(reading, found, version) ==
  Answer(found, reading.gaps \cup ResolveGaps(reading, found, version))
Resolve(reading, version) ==
  Resolved(reading,
           FromSettings(reading, ManagedSandbox(reading.settings), version)
           \cup FromEveryFile(reading), version)
ClaudeCodeSurface(disk, k) == Resolve(ClaudeReading(disk, k), k.version)
=============================================================================
