---------------------------- MODULE OtherAgents ------------------------------
(***************************************************************************)
(* The readers and resolvers of Codex, Cursor and Gemini CLI: codex.py,    *)
(* cursor.py and gemini.py of seamark/surface/.  Each reads its own files  *)
(* and answers for itself; nothing fuses two vendors.                      *)
(***************************************************************************)
EXTENDS Surface
LOCAL INSTANCE TLC

(***************************************************************************)
(* Codex                                                                   *)
(***************************************************************************)

CodexProject == {File(".codex/config.toml", "project", "settings"),
                 File(".codex/hooks.json", "project", "hooks")}
CodexMachine == {File("~/.codex/config.toml", "user", "settings"),
                 File("managed_config.toml", "managed", "settings"),
                 File("requirements.toml", "managed", "settings")}

\* The files read; only the hooks of .codex/hooks.json are kept, and one whose top level is not
\* a mapping is passed over.
CodexFiles(k) == CodexProject \cup (IF k.machine THEN CodexMachine ELSE {})
CodexHandles(disk, k) ==
  Parsed(disk, CodexFiles(k), "settings")
  \cup {[h EXCEPT !.items = Entries(h, "hook")] : h \in Parsed(disk, CodexFiles(k), "hooks")}
CodexGaps(disk, k) == {g \in Unread(disk, CodexFiles(k)) :
                         ~(g.source = ".codex/hooks.json" /\ g.cause = "shapeless")}

\* The trust level the user's own file gives this project, if that file was read and says.
CodexTrusted(disk, k) ==
  LET said == {i.level : i \in {j \in disk["~/.codex/config.toml"].items : j.kind = "trust"}}
  IN IF ~k.machine \/ said = {} THEN "null" ELSE CHOOSE level \in said : TRUE

\* The project layer waits on the trust level.
CodexTrust(trusted, scope) ==
  IF scope \notin RepositoryScopes \/ trusted = "yes" THEN <<"EFFECTIVE", "none">>
  ELSE IF trusted = "no" THEN <<"DECLARED", "layer skipped">>
  ELSE <<"DECLARED", "trust not read">>

\* Hooks and servers wait on trust; notify is declared and ignored in a project; the two
\* guardrails resolve as they stand; the managed policy is read in the managed scope alone.
CodexCapabilities(disk, h, trusted) ==
  LET r == CodexTrust(trusted, h.scope)
      notify == IF h.scope \in RepositoryScopes THEN <<"DECLARED", "not overridable">>
                ELSE <<"EFFECTIVE", "none">>
  IN {Emit("codex", "hook.command", h, "hooks", r[1], r[2], TargetFacts(disk, i.what)
           @@ [event |-> i.event, at_startup |-> Truth(i.event = "SessionStart")]) :
        i \in {j \in Entries(h, "hook") : j.type = "command"}}
     \cup {Emit("codex", "helper.command", h, "notify", notify[1], notify[2],
                [key |-> "notify", command |-> i.text]) : i \in Entries(h, "notify")}
     \cup {Emit("codex", "sandbox.mode", h, "sandbox_mode", "EFFECTIVE", "none",
                [mode |-> i.mode, guardrail_removed |-> Truth(i.mode = "danger-full-access")]) :
             i \in Entries(h, "sandbox_mode")}
     \cup {Emit("codex", "approval.policy", h, "approval_policy", "EFFECTIVE", "none",
                [policy |-> i.mode, guardrail_removed |-> Truth(i.mode = "never")]) :
             i \in Entries(h, "approval_policy")}
     \cup {Emit("codex", "mcp.server", h, "mcp_servers", r[1], r[2], ServerFacts(i)) :
             i \in Entries(h, "server")}
     \cup {Emit("codex", "policy.managed_hooks_only", h, "allow_managed_hooks_only", "EFFECTIVE",
                "none", [value |-> "yes"]) :
             i \in {j \in Entries(h, "managed_hooks_only") : h.scope = "managed"}}

CodexSurface(disk, k) ==
  Answer(UNION {CodexCapabilities(disk, h, CodexTrusted(disk, k)) : h \in CodexHandles(disk, k)},
         CodexGaps(disk, k))

(***************************************************************************)
(* Cursor                                                                  *)
(***************************************************************************)

CursorProject == {File(".cursor/hooks.json", "project", "settings"),
                  File(".cursor/mcp.json", "project", "servers")}
CursorMachine == {File("~/.cursor/hooks.json", "user", "settings"),
                  File("~/.cursor/mcp.json", "user", "servers"),
                  File("cursor/hooks.json", "managed", "settings")}
CursorFiles(k) == CursorProject \cup (IF k.machine THEN CursorMachine ELSE {})

\* The team level is not a file: a gap whenever something read here could be outranked by it.
CursorGaps(disk, k) ==
  Unread(disk, CursorFiles(k))
  \cup IF k.machine \/ \E f \in CursorProject : disk[f.source].state = "ok"
         THEN {Gap("Cursor team hooks", "not a file", "cursor.com")} ELSE {}

CursorSurface(disk, k) ==
  LET outranked(h) == IF h.scope \in RepositoryScopes THEN "outranked" ELSE "none"
      hooks(h) ==
        {Emit("cursor", "hook.command", h, "hooks", "EFFECTIVE", outranked(h),
              TargetFacts(disk, i.what)
              @@ [event |-> i.event, at_startup |-> Truth(i.event = "sessionStart")]) :
           i \in Entries(h, "hook")}
      servers(h) ==
        {Emit("cursor", "mcp.server", h, "mcpServers", "EFFECTIVE", "none", ServerFacts(i)) :
           i \in Entries(h, "server")}
  IN Answer(UNION {hooks(h) : h \in Parsed(disk, CursorFiles(k), "settings")}
            \cup UNION {servers(h) : h \in Parsed(disk, CursorFiles(k), "servers")},
            CursorGaps(disk, k))

(***************************************************************************)
(* Gemini CLI                                                              *)
(***************************************************************************)

GeminiProject == {File(".gemini/settings.json", "project", "settings")}
GeminiMachine == {File("~/.gemini/settings.json", "user", "settings"),
                  File("gemini/system-defaults.json", "managed", "settings"),
                  File("gemini/settings.json", "managed", "settings")}
GeminiFiles(k) == GeminiProject \cup (IF k.machine THEN GeminiMachine ELSE {})

\* The first spelling of a tool command is read and not resolved; one boolean of a server
\* removes every confirmation for it; an HTTP endpoint of its own key makes a server remote.
GeminiCapabilities(disk, h) ==
  {Emit("gemini", "mcp.server", h, "mcpServers", "EFFECTIVE", "none",
        [trusted_by_config |-> i.trust] @@ ServerFacts(i)) : i \in Entries(h, "server")}
  \cup {Emit("gemini", "helper.command", h, i.key,
             IF i.spelling = "v1" THEN "INDETERMINATE" ELSE "EFFECTIVE",
             IF i.spelling = "v1" THEN "v1 spelling" ELSE "none",
             [key |-> i.key, spelling |-> i.spelling] @@ TargetFacts(disk, i.what)) :
          i \in Entries(h, "helper")}
  \cup {Emit("gemini", "approval.policy", h, "*", "EFFECTIVE", "none",
             [policy |-> i.mode, guardrail_removed |-> Truth(i.mode = "auto_edit")]) :
          i \in Entries(h, "approval_policy")}

GeminiSurface(disk, k) ==
  Answer(UNION {GeminiCapabilities(disk, h) : h \in Parsed(disk, GeminiFiles(k), "settings")},
         Unread(disk, GeminiFiles(k)))
=============================================================================
