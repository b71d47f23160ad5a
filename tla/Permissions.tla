---------------------------- MODULE Permissions ----------------------------
(***************************************************************************)
(* What may run: the rules of core/src/permission.rs, the permission part  *)
(* of a run's context (core/src/context.rs) and how it passes to the       *)
(* contexts of handoffs, sub-agents and agents used as tools               *)
(* (core/src/agent_as_tool.rs).                                            *)
(*                                                                         *)
(* A call is its tool and what the rules can tell of its arguments: the    *)
(* commands a shell line resolves to (Absent: no command argument) and the   *)
(* path (Absent: no path argument).  A resolved command is its program, its  *)
(* flags, its operands and the targets of its output redirections; a path  *)
(* is a member of a small set, and a glob is the set of paths it matches.  *)
(***************************************************************************)
EXTENDS Naturals, Sequences

CONSTANTS Absent,
          DefaultDepth   \* RunConfig::default().max_agent_depth

Modes == {"default", "acceptEdits", "plan", "bypass", "dontAsk"}

(* --------------------------------- rules ------------------------------- *)
PathArgMatches(tools, glob, call) ==
    call.tool \in tools /\ call.path # Absent /\ call.path \in glob

Programs(call) == {c.program : c \in call.command}

IsShell(call) == call.tool = "Bash" /\ call.command # Absent

(* One denied program among the commands of a shell line is enough.        *)
DenyRuleMatches(r, call) ==
    CASE r.kind = "tool" -> call.tool = r.name
      [] r.kind = "program" -> IsShell(call) /\ r.name \in Programs(call)
      [] r.kind = "read" -> PathArgMatches({"Read"}, r.glob, call)
      [] r.kind = "edit" -> PathArgMatches({"Edit", "Write"}, r.glob, call)

(* An allowed program has to be the only one.                              *)
AllowRuleMatches(r, call) ==
    CASE r.kind = "tool" -> call.tool = r.name
      [] r.kind = "program" -> IsShell(call) /\ Programs(call) = {r.name}
      [] r.kind = "read" -> PathArgMatches({"Read"}, r.glob, call)
      [] r.kind = "edit" -> PathArgMatches({"Edit", "Write"}, r.glob, call)

(* -------------------------------- guards ------------------------------- *)
IsRootOrHome(p) == p \in {"/", "~"}

ProtectedPaths == {"/", "/etc/hosts"}

ProtectedDotpaths == {".git/config"}

IsRmRfRootOrHome(c) ==
    /\ c.program = "rm" /\ {"recursive", "force"} \subseteq c.flags
    /\ \E p \in c.operands : IsRootOrHome(p)

(* What a command writes, as far as the guards look: redirections, and the *)
(* operands of tee and dd.                                                 *)
WriteTargets(c) ==
    c.redirects \union (IF c.program \in {"tee", "dd"} THEN c.operands ELSE {})

ProtectedWrite(call, guarded) ==
    \/ call.tool \in {"Write", "Edit"} /\ call.path # Absent /\ call.path \in guarded
    \/ IsShell(call) /\ \E c \in call.command : WriteTargets(c) \cap guarded # {}

GuardMatches(g, call) ==
    CASE g.matcher = "rm" ->
           IsShell(call) /\ \E c \in call.command : IsRmRfRootOrHome(c)
      [] g.matcher = "path" -> ProtectedWrite(call, ProtectedPaths)
      [] g.matcher = "dotpath" -> ProtectedWrite(call, ProtectedDotpaths)

GuardSet == [matcher : {"rm", "path", "dotpath"}, action : {"ask", "deny"}]

DestructiveDefaults ==
    << [matcher |-> "rm", action |-> "ask"],
       [matcher |-> "path", action |-> "ask"],
       [matcher |-> "dotpath", action |-> "ask"] >>

(* The guards a call meets, in the order they are consulted.               *)
Guards(ctx) ==
    (IF ctx.default_guards THEN DestructiveDefaults ELSE <<>>) \o ctx.guard_rules

Denied(ctx, call) == \E r \in ctx.deny_rules : DenyRuleMatches(r, call)

Allowed(ctx, call) == \E r \in ctx.allow_rules : AllowRuleMatches(r, call)

(* The mode alone: allow, deny, or leave it to the policy.                 *)
ModeVerdict(mode, effect) ==
    CASE mode = "bypass" -> "allow"
      [] mode = "plan" /\ effect # "readOnly" -> "deny"
      [] mode = "acceptEdits" /\ effect = "write" -> "allow"
      [] mode = "dontAsk" -> "deny"
      [] OTHER -> "policy"

(* ------------------------------- contexts ------------------------------ *)
(* `policy` and `handler` say whether one is installed; `max_depth` is     *)
(* that of the run config, if a runner installed one.                      *)
RunContextNew ==
    [agent_depth |-> 0, max_depth |-> Absent, permission_mode |-> "default",
     policy |-> FALSE, deny_rules |-> {}, allow_rules |-> {},
     handler |-> FALSE, guard_rules |-> <<>>, default_guards |-> TRUE,
     redact_output |-> TRUE, extra_secrets |-> {}]

IsContext(c) ==
    /\ c = [f \in DOMAIN RunContextNew |-> c[f]]
    /\ c.guard_rules \in Seq(GuardSet)

(* Tighten-only: nothing leaves dontAsk, bypass goes to dontAsk only.      *)
WithPermissionMode(ctx, mode) ==
    IF \/ ctx.permission_mode = "dontAsk"
       \/ ctx.permission_mode = "bypass" /\ mode # "dontAsk"
    THEN ctx ELSE [ctx EXCEPT !.permission_mode = mode]

HandoffChild(ctx) == [ctx EXCEPT !.agent_depth = @ + 1]

SubagentChild(ctx) == [ctx EXCEPT !.agent_depth = @ + 1]

(* The tool's view of its run's context.                                   *)
ToToolContext(ctx) ==
    [ctx EXCEPT !.max_depth = IF @ = Absent THEN DefaultDepth ELSE @]

(* AgentAsTool refuses to nest past the maximum of the calling run ...     *)
MayNest(tool_ctx) == tool_ctx.agent_depth + 1 <= tool_ctx.max_depth

(* ... and gives the wrapped agent a fresh context with the permissions of *)
(* the caller and no run config.                                           *)
SubContext(tool_ctx) ==
    [WithPermissionMode(RunContextNew, tool_ctx.permission_mode) EXCEPT
        !.agent_depth = tool_ctx.agent_depth + 1,
        !.deny_rules = tool_ctx.deny_rules,
        !.allow_rules = tool_ctx.allow_rules,
        !.guard_rules = tool_ctx.guard_rules,
        !.policy = tool_ctx.policy,
        !.handler = tool_ctx.handler,
        !.default_guards = tool_ctx.default_guards,
        !.redact_output = tool_ctx.redact_output,
        !.extra_secrets = tool_ctx.extra_secrets]
=============================================================================
