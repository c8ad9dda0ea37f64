------------------------------- MODULE Merge -------------------------------
(***************************************************************************)
(* The documented merge rules of surface/merge.py: one table of rows per   *)
(* vendor, and the row a resolver cites for a key.  A row is the keys it   *)
(* governs, how they combine across scopes and the page it was read from;  *)
(* digests, dates and quotations are left out.                             *)
(***************************************************************************)
LOCAL INSTANCE Naturals
LOCAL INSTANCE Sequences

\* How one key combines across scopes (Kind).
Kinds == {"PRECEDENCE", "LIST_UNION", "MANAGED_ONLY", "STRICTEST_WINS", "NOT_FROM_REPOSITORY",
          "TRUST_GATED", "NOT_TRUST_GATED", "HOST_SIDE", "APPROVAL_GATED", "NO_DOCUMENTED_ORDER"}

\* One cited row (MergeRow).
Row(keys, kind, page) == [keys |-> keys, kind |-> kind, page |-> page]

ClaudeCodeRows == <<
  Row(<<"*">>, "PRECEDENCE", "settings"),
  Row(<<"permissions.allow", "permissions.ask", "permissions.deny">>, "LIST_UNION", "settings"),
  Row(<<"hooks">>, "LIST_UNION", "hooks"),
  Row(<<"hooks", "env", "apiKeyHelper", "statusLine", "awsAuthRefresh", "awsCredentialExport",
        "otelHeadersHelper", "fileSuggestion">>, "NOT_TRUST_GATED", "permissions"),
  Row(<<"permissions.defaultMode">>, "NOT_FROM_REPOSITORY", "settings-reference"),
  Row(<<"permissions.allow", "permissions.additionalDirectories">>, "TRUST_GATED", "permissions"),
  Row(<<"enableAllProjectMcpServers", "enabledMcpjsonServers">>, "TRUST_GATED", "mcp"),
  Row(<<"extraKnownMarketplaces">>, "TRUST_GATED", "permissions"),
  Row(<<"allowManagedMcpServersOnly", "allowManagedHooksOnly",
        "allowManagedPermissionRulesOnly">>, "MANAGED_ONLY", "settings-reference"),
  Row(<<"disableClaudeAiConnectors", "isolatePeerMachines", "enableArtifact",
        "crossSessionInbound", "maxEffortLevel">>, "STRICTEST_WINS", "settings"),
  Row(<<"sandbox.excludedCommands", "sandbox.filesystem.allowRead",
        "sandbox.filesystem.allowWrite">>, "LIST_UNION", "sandboxing"),
  Row(<<"sandbox.network.allowedDomains">>, "LIST_UNION", "sandboxing"),
  Row(<<"sandbox.enabled", "sandbox.failIfUnavailable",
        "sandbox.allowUnsandboxedCommands">>, "PRECEDENCE", "sandboxing"),
  Row(<<"managed-settings.json">>, "MANAGED_ONLY", "managed-settings") >>

VsCodeRows == <<
  Row(<<"*">>, "PRECEDENCE", "settings"),
  Row(<<"tasks">>, "NOT_TRUST_GATED", "tasks"),
  Row(<<"task.allowAutomaticTasks">>, "NOT_FROM_REPOSITORY", "task.contribution.ts"),
  Row(<<"settings.application-scope">>, "NOT_FROM_REPOSITORY", "settings"),
  Row(<<"runOptions.runOn">>, "TRUST_GATED", "workspace-trust") >>

DevContainerRows == <<
  Row(<<"*">>, "PRECEDENCE", "spec"),
  Row(<<"initializeCommand">>, "HOST_SIDE", "json_reference"),
  Row(<<"onCreateCommand", "updateContentCommand", "postCreateCommand", "postStartCommand",
        "postAttachCommand">>, "NOT_TRUST_GATED", "json_reference"),
  Row(<<"mounts">>, "NOT_TRUST_GATED", "json_reference"),
  Row(<<"privileged", "capAdd", "securityOpt", "runArgs">>, "NOT_TRUST_GATED", "json_reference") >>

CodexRows == <<
  Row(<<"*">>, "PRECEDENCE", "config-advanced"),
  Row(<<"hooks">>, "TRUST_GATED", "config-advanced"),
  Row(<<"projects.trust_level">>, "NOT_FROM_REPOSITORY", "config-reference"),
  Row(<<"notify", "model_providers", "profile", "otel">>, "NOT_FROM_REPOSITORY", "config-reference"),
  Row(<<"allow_managed_hooks_only">>, "MANAGED_ONLY", "managed-configuration"),
  Row(<<"sandbox_mode", "approval_policy">>, "PRECEDENCE", "config-reference"),
  Row(<<"mcp_servers">>, "PRECEDENCE", "config-reference") >>

CursorRows == <<
  Row(<<"*", "hooks">>, "PRECEDENCE", "hooks"),
  Row(<<"hooks.team">>, "MANAGED_ONLY", "hooks"),
  Row(<<"mcpServers">>, "NO_DOCUMENTED_ORDER", "mcp"),
  Row(<<"rules">>, "PRECEDENCE", "rules") >>

GeminiRows == <<
  Row(<<"*">>, "PRECEDENCE", "configuration"),
  Row(<<"mcpServers">>, "LIST_UNION", "enterprise"),
  Row(<<"mcpServers.trust">>, "PRECEDENCE", "configuration"),
  Row(<<"tools.discoveryCommand", "tools.callCommand">>, "PRECEDENCE", "configuration") >>

InstructionsRows == <<
  Row(<<"*", "import">>, "APPROVAL_GATED", "memory"),
  Row(<<"import.syntax">>, "NOT_TRUST_GATED", "memory"),
  Row(<<"import.gemini">>, "NOT_TRUST_GATED", "memport") >>

\* Every vendor's table, by the vendor its reader stamps on a capability (MERGE_TABLES).
Tables == [claude |-> ClaudeCodeRows, vscode |-> VsCodeRows, devcontainer |-> DevContainerRows,
           codex |-> CodexRows, cursor |-> CursorRows, gemini |-> GeminiRows,
           instructions |-> InstructionsRows]
Vendors == DOMAIN Tables

\* The row cited for a key: the first row of the vendor's table that governs it and is not a
\* row of precedence, then any that governs it, then the head of the table (row_for).
Governs(row, key) == \E n \in DOMAIN row.keys : row.keys[n] = key
RowIn(table, key) ==
  LET governing == SelectSeq(table, LAMBDA row : Governs(row, key))
      ruled == SelectSeq(table, LAMBDA row : Governs(row, key) /\ row.kind # "PRECEDENCE")
  IN Head(ruled \o governing \o table)
RowFor(key, vendor) == RowIn(Tables[vendor], key)

\* The handle a capability carries to its row (rule_name).
RuleName(row) == <<row.page, row.keys[1]>>

\* What is known of the version of the agent: nothing, or on which side of 2.1.257 it is
\* (parse_version and the one threshold, BYPASS_NEEDS_USER_SCOPE_FROM).
Versions == {"unknown", "before", "from"}
=============================================================================
