------------------------------- MODULE Rules -------------------------------
(***************************************************************************)
(* surface/rules.py and the core rule packs: a rule asks its clauses of    *)
(* the facts of one capability, and answers that it fired, that it did     *)
(* not, or that the facts did not settle it.                               *)
(***************************************************************************)

\* One comparison between a fact and the values that satisfy it (Clause): is_true is {"yes"},
\* is_false {"no"}, in the list.
Clause(fact, values) == [fact |-> fact, values |-> values]
IsTrue(fact) == Clause(fact, {"yes"})
IsFalse(fact) == Clause(fact, {"no"})

\* Yes, no, or "missing" when the fact was never recorded (Clause.holds).
Holds(clause, facts) ==
  IF clause.fact \notin DOMAIN facts THEN "missing"
  ELSE IF facts[clause.fact] \in clause.values THEN "yes" ELSE "no"

Rule(id, vendor, capability, when) ==
  [id |-> id, vendor |-> vendor, capability |-> capability, when |-> when,
   requires |-> "DECLARED"]

CommandKeys == {"apiKeyHelper", "statusLine", "awsAuthRefresh", "awsCredentialExport",
                "otelHeadersHelper", "fileSuggestion"}

\* packs/core/claude-code.toml
ClaudePack == {
  Rule("S001", "claude", {"hook.command"}, {IsTrue("at_startup")}),
  Rule("S002", "claude", {"hook.http"}, {IsFalse("loopback")}),
  Rule("S003", "claude", {"hook.command"}, {IsTrue("target_inside")}),
  Rule("S004", "claude", {"hook.command"}, {IsFalse("target_inside")}),
  Rule("S005", "claude", {"hook.command"}, {IsFalse("target_exists")}),
  Rule("S032", "claude", {"hook.mcp_tool"}, {IsTrue("at_startup")}),
  Rule("S006", "claude", {"helper.command"}, {Clause("key", CommandKeys)}),
  Rule("S007", "claude", {"permissions.default_mode"}, {Clause("mode", {"bypassPermissions", "auto"})}),
  Rule("S008", "claude", {"permissions.additional_directory"}, {IsFalse("inside_tree")}),
  Rule("S009", "claude", {"permissions.allow"},
       {Clause("rule", {"Bash", "Bash(*)", "Bash(*:*)", "Bash(**)"})}),
  Rule("S010", "claude", {"mcp.approval"},
       {Clause("key", {"enableAllProjectMcpServers", "enabledMcpjsonServers"})}),
  Rule("S011", "claude", {"mcp.server"}, {IsFalse("pinned")}),
  Rule("S012", "claude", {"mcp.server"}, {IsTrue("remote"), IsFalse("loopback")}),
  Rule("S013", "claude", {"sandbox.network_domain"}, {IsTrue("widens_managed")}),
  Rule("S014", "claude", {"sandbox.excluded_command"}, {IsTrue("widens_managed")}),
  Rule("S015", "claude", {"sandbox.disabled", "sandbox.unsandboxed_allowed"},
       {IsTrue("isolation_weakened")}) }

\* packs/core/vendors.toml
VendorPack == {
  Rule("S016", "vscode", {"task.command"}, {IsTrue("at_startup")}),
  Rule("S017", "devcontainer", {"lifecycle.command"}, {IsTrue("on_host")}),
  Rule("S018", "devcontainer", {"container.mount"}, {IsTrue("names_credential")}),
  Rule("S019", "devcontainer", {"container.isolation"}, {IsTrue("isolation_weakened")}),
  Rule("S020", "devcontainer", {"container.feature"}, {IsFalse("pinned")}),
  Rule("S021", "codex", {"hook.command"}, {IsTrue("at_startup")}),
  Rule("S022", "codex", {"sandbox.mode", "approval.policy"}, {IsTrue("guardrail_removed")}),
  Rule("S023", "codex", {"mcp.server"}, {IsFalse("pinned")}),
  Rule("S024", "cursor", {"hook.command"}, {IsTrue("at_startup")}),
  Rule("S025", "cursor", {"mcp.server"}, {IsFalse("pinned")}),
  Rule("S026", "gemini", {"mcp.server"}, {IsFalse("pinned")}),
  Rule("S027", "gemini", {"mcp.server"}, {IsTrue("trusted_by_config")}),
  Rule("S031", "gemini", {"approval.policy"}, {IsTrue("guardrail_removed")}),
  Rule("S028", "instructions", {"instructions.import"}, {IsTrue("outside_tree")}),
  Rule("S029", "instructions", {"instructions.remote_execution"}, {IsTrue("literal_remote_execution")}),
  Rule("S030", "instructions", {"instructions.import"}, {IsTrue("is_script")}) }

Catalogue == ClaudePack \cup VendorPack

\* The rules that name a capability (Rule.matches).
Matching(c) == {r \in Catalogue : r.vendor = c.vendor /\ c.name \in r.capability}

\* What one rule answers of one capability.  A clause that is definitely false settles it, and
\* a fact missing elsewhere does not make that uncertain.
Verdict(r, c) ==
  LET answers == {Holds(clause, c.facts) : clause \in r.when}
  IN IF c.resolution = "INDETERMINATE" THEN "gap"
     ELSE IF r.requires = "EFFECTIVE" /\ c.resolution # "EFFECTIVE" THEN "silent"
     ELSE IF "no" \in answers THEN "silent"
     ELSE IF "missing" \in answers THEN "gap"
     ELSE "fires"

\* The rules that fired on a capability, and the gaps of those that could not answer (evaluate).
Findings(c) == {r.id : r \in {q \in Matching(c) : Verdict(q, c) = "fires"}}
RuleGaps(c) ==
  {[subject |-> <<r.id, c.name>>,
    cause |-> IF c.resolution = "INDETERMINATE" THEN c.condition ELSE "facts missing",
    source |-> c.source] : r \in {q \in Matching(c) : Verdict(q, c) = "gap"}}
=============================================================================
