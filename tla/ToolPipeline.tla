---------------------------- MODULE ToolPipeline ----------------------------
(***************************************************************************)
(* One tool call on its way from the model to the model: PreToolUse hooks, *)
(* authorization, the tool, PostToolUse hooks, redaction, as the agent     *)
(* loop does it (run_tools_concurrent, core/src/agent.rs) and as a durable *)
(* runner does it without hooks (execute_tool_call, core/src/tool_exec.rs).*)
(* The call is made in the context of the root run or of a context nested  *)
(* under it.                                                               *)
(*                                                                         *)
(* A tool's output is a JSON value: the lines of its strings, and the      *)
(* values that stand in object keys and numbers.  A line is a sequence of  *)
(* fields, `key=value`, `key: value` or a bare value; a key is "secret" if *)
(* it ends in one of the suffixes `_TOKEN`, `_API_KEY`..., and "other" if  *)
(* not (`api-key`, say).  No secret is part of another value.              *)
(***************************************************************************)
EXTENDS Permissions, FiniteSets

CONSTANTS Roots,       \* contexts of root runs
          Calls,       \* calls a model can make
          Effects,     \* effect of each registered tool
          MaxNesting,  \* contexts below the root one
          Outputs,     \* what tools and hooks can put out
          EnvSecrets,  \* values of environment variables with a secret name
          Lengths,     \* length of each value
          CommonWords  \* `true`, `dev`, `null`..., and strings of digits

ASSUME RootsAssumption == \A c \in Roots : IsContext(c)

REDACTED == "***"
Empty == ""

Field == [key : {"secret", "other"}, sep : {"=", ":", "none"}, value : DOMAIN Lengths]
IsOutput(o) == o = [text |-> o.text, bare |-> o.bare] /\ o.text \subseteq Seq(Field)
NoOutput == [text |-> {}, bare |-> {}]

ASSUME OutputsAssumption == \A o \in Outputs : IsOutput(o)
ASSUME LengthsAssumption == REDACTED \in DOMAIN Lengths /\ Lengths[REDACTED] = 3

VARIABLES
    root,      \* the context of the root run
    ctx,       \* the context the call is made in
    driver,    \* "loop" or "durable"
    call,      \* the call with its effective arguments
    judged,    \* the call as it was authorized
    stage,
    guard,     \* position in Guards(ctx)
    approved,  \* guards the approval handler let pass
    policy,    \* what the policy said
    ran,       \* the call the tool was invoked with
    output,    \* what the tool or a hook put out
    seen       \* what the model gets: content, or an error

toolVars == <<root, ctx, driver, call, judged, stage, guard, approved, policy,
              ran, output, seen>>

ToolIdle ==
    /\ root = Absent /\ ctx = Absent /\ driver = Absent /\ call = Absent /\ judged = Absent
    /\ stage = "idle" /\ guard = 0 /\ approved = {} /\ policy = Absent
    /\ ran = Absent /\ output = NoOutput /\ seen = Absent

ToolInit ==
    /\ root \in Roots /\ ctx = root /\ driver \in {"loop", "durable"}
    /\ call = Absent /\ judged = Absent /\ stage = "nest" /\ guard = 1
    /\ approved = {} /\ policy = Absent /\ ran = Absent /\ output = NoOutput /\ seen = Absent

(* ------------------------------- nesting ------------------------------- *)
Nested(child) ==
    /\ stage = "nest" /\ ctx.agent_depth < MaxNesting
    /\ ctx' = child
    /\ UNCHANGED <<root, driver, call, judged, stage, guard, approved, policy,
                   ran, output, seen>>

Nest ==
    \/ Nested(HandoffChild(ctx))
    \/ Nested(SubagentChild(ctx))
    \/ MayNest(ToToolContext(ctx)) /\ Nested(SubContext(ToToolContext(ctx)))

(* -------------------------------- hooks -------------------------------- *)
(* What a chain of hooks comes to: the first denial ends it, the last      *)
(* replacement counts, an injected message changes neither.                *)
Verdict(kind) == [kind |-> kind, value |-> Absent]

Replace(v) == [kind |-> "replace", value |-> v]

Fire(decisions) ==
    LET denials == {i \in DOMAIN decisions : decisions[i].kind = "deny"}
        swaps == {i \in DOMAIN decisions : decisions[i].kind = "replace"}
    IN  IF denials # {} THEN Verdict("deny")
        ELSE IF swaps = {} THEN Verdict("allow")
        ELSE decisions[CHOOSE i \in swaps : \A j \in swaps : j <= i]

HookChains(replacements) ==
    UNION {[1..n -> {Verdict(k) : k \in {"allow", "deny", "inject"}}
                    \union {Replace(v) : v \in replacements}] : n \in 0..2}

Fired(replacements) == {Fire(ds) : ds \in HookChains(replacements)}

ToolFails == stage' = "done" /\ seen' = [ok |-> FALSE, content |-> NoOutput]

(* The model asks for a call; the loop fires PreToolUse, and its verdict   *)
(* fixes the arguments that are authorized.                                *)
Ask ==
    /\ stage = "nest"
    /\ \E c \in Calls : \E d \in {x \in Calls : x.tool = c.tool} :
       \E v \in IF driver = "loop" THEN Fired({d}) ELSE {Verdict("allow")} :
         /\ call' = IF v.kind = "replace" THEN v.value ELSE c
         /\ judged' = IF v.kind = "deny" THEN Absent ELSE call'
         /\ IF v.kind = "deny" THEN ToolFails ELSE stage' = "deny" /\ UNCHANGED seen
    /\ UNCHANGED <<root, ctx, driver, guard, approved, policy, ran, output>>

(* ----------------------------- authorization --------------------------- *)
Effect(tool) == IF tool \in DOMAIN Effects THEN Effects[tool] ELSE "sideEffect"

Permitted == stage' = "invoke" /\ UNCHANGED seen

DenyRules ==
    /\ stage = "deny"
    /\ IF Denied(ctx, judged) THEN ToolFails ELSE stage' = "guards" /\ UNCHANGED seen
    /\ UNCHANGED <<root, ctx, driver, call, judged, guard, approved, policy, ran,
                   output>>

(* One guard a step, since each may wait for the approval handler; an      *)
(* approval clears this guard only.                                        *)
GuardRules ==
    /\ stage = "guards"
    /\ LET gs == Guards(ctx)
       IN  \/ /\ guard > Len(gs)
              /\ stage' = "rules" /\ UNCHANGED <<seen, guard, approved>>
           \/ /\ guard <= Len(gs) /\ ~ GuardMatches(gs[guard], judged)
              /\ guard' = guard + 1 /\ UNCHANGED <<stage, seen, approved>>
           \/ /\ guard <= Len(gs) /\ GuardMatches(gs[guard], judged)
              /\ gs[guard].action = "ask" /\ ctx.handler
              /\ approved' = approved \union {guard} /\ guard' = guard + 1
              /\ UNCHANGED <<stage, seen>>
           \/ /\ guard <= Len(gs) /\ GuardMatches(gs[guard], judged)
              /\ ToolFails /\ UNCHANGED <<guard, approved>>
    /\ UNCHANGED <<root, ctx, driver, call, judged, policy, ran, output>>

(* Allow rules, then the mode; a run without a policy permits the rest.    *)
RulesAndMode ==
    /\ stage = "rules"
    /\ LET verdict == ModeVerdict(ctx.permission_mode, Effect(judged.tool))
       IN  CASE Allowed(ctx, judged) \/ verdict = "allow" -> Permitted
             [] verdict = "deny" /\ ~ Allowed(ctx, judged) -> ToolFails
             [] verdict = "policy" /\ ~ Allowed(ctx, judged) ->
                  IF ctx.policy THEN stage' = "policy" /\ UNCHANGED seen ELSE Permitted
    /\ UNCHANGED <<root, ctx, driver, call, judged, guard, approved, policy, ran,
                   output>>

(* The policy allows, denies, replaces the arguments or asks; nobody to    *)
(* ask is a denial.                                                        *)
Policy ==
    /\ stage = "policy"
    /\ \/ policy' = "allow" /\ Permitted /\ UNCHANGED call
       \/ policy' = "deny" /\ ToolFails /\ UNCHANGED call
       \/ /\ \E d \in {x \in Calls : x.tool = call.tool} : call' = d
          /\ policy' = "replace" /\ Permitted
       \/ policy' = "ask" /\ stage' = "asking" /\ UNCHANGED <<seen, call>>
    /\ UNCHANGED <<root, ctx, driver, judged, guard, approved, ran, output>>

AskUser ==
    /\ stage = "asking"
    /\ \/ ctx.handler /\ policy' = "approved" /\ Permitted
       \/ policy' = "deny" /\ ToolFails
    /\ UNCHANGED <<root, ctx, driver, call, judged, guard, approved, ran, output>>

(* ------------------------- the tool and its output --------------------- *)
(* An unknown tool fails only now; a known one has an output, or an error  *)
(* whose text goes to the model as it is.                                  *)
ToolInvoked ==
    /\ stage = "invoke"
    /\ \/ call.tool \notin DOMAIN Effects /\ ToolFails /\ UNCHANGED <<ran, output>>
       \/ /\ call.tool \in DOMAIN Effects /\ ran' = call
          /\ \/ ToolFails /\ UNCHANGED output
             \/ /\ output' \in Outputs
                /\ stage' = IF driver = "loop" THEN "post" ELSE "finalize"
                /\ UNCHANGED seen
    /\ UNCHANGED <<root, ctx, driver, call, judged, guard, approved, policy>>

(* The values to look for: those of the environment and of the run that    *)
(* are long enough and not a common word.                                  *)
MIN_SECRET_LEN == 8

SecretSet(extra) ==
    {v \in EnvSecrets \union extra : Lengths[v] >= MIN_SECRET_LEN /\ v \notin CommonWords}

(* The first `=` of a line if a secret name stands before it, or else the  *)
(* first `:` in the same way; what follows goes, unless that is nothing.   *)
SecretAt(line, sep) ==
    {i \in DOMAIN line : /\ line[i].sep = sep /\ line[i].key = "secret"
                         /\ \A j \in 1 .. i - 1 : line[j].sep # sep}

RedactLine(line) ==
    LET hits == IF SecretAt(line, "=") # {} THEN SecretAt(line, "=") ELSE SecretAt(line, ":")
        at == CHOOSE i \in hits : TRUE
    IN  IF hits = {} \/ (at = Len(line) /\ line[at].value = Empty) THEN line
        ELSE [i \in 1 .. at |-> IF i < at THEN line[i] ELSE [line[i] EXCEPT !.value = REDACTED]]

RedactStr(line, secrets) ==
    LET kept == RedactLine(line)
    IN  [i \in DOMAIN kept |-> IF kept[i].value \in secrets
                              THEN [kept[i] EXCEPT !.value = REDACTED] ELSE kept[i]]

Redact(out, secrets) == [out EXCEPT !.text = {RedactStr(line, secrets) : line \in @}]

FinalizeToolOutput(out) ==
    IF ctx.redact_output THEN Redact(out, SecretSet(ctx.extra_secrets)) ELSE out

\* Mistake: the output is redacted before the hooks see it, not after.
PostToolUse_RedactsFirst ==
    /\ stage = "post"
    /\ \E new \in Outputs : \E v \in Fired({new}) :
         /\ output' = IF v.kind = "replace" THEN v.value ELSE FinalizeToolOutput(output)
         /\ IF v.kind = "deny" THEN ToolFails
            ELSE stage' = "done" /\ seen' = [ok |-> TRUE, content |-> output']
    /\ UNCHANGED <<root, ctx, driver, call, judged, guard, approved, policy, ran>>

(* A hook may drop the output or put its own in its place.                 *)
PostToolUse ==
    /\ stage = "post"
    /\ \E new \in Outputs : \E v \in Fired({new}) :
         /\ output' = IF v.kind = "replace" THEN v.value ELSE output
         /\ IF v.kind = "deny" THEN ToolFails ELSE stage' = "finalize" /\ UNCHANGED seen
    /\ UNCHANGED <<root, ctx, driver, call, judged, guard, approved, policy, ran>>

Finalize ==
    /\ stage = "finalize"
    /\ seen' = [ok |-> TRUE, content |-> FinalizeToolOutput(output)] /\ stage' = "done"
    /\ UNCHANGED <<root, ctx, driver, call, judged, guard, approved, policy, ran,
                   output>>

ToolNext ==
    \/ Nest \/ Ask \/ DenyRules \/ GuardRules \/ RulesAndMode \/ Policy \/ AskUser
    \/ ToolInvoked \/ PostToolUse \/ Finalize

ToolSpec == ToolInit /\ [][ToolNext]_toolVars

(* ------------------------------ properties ----------------------------- *)
(* A tool runs only on a call that the rules of the ROOT run let through,  *)
(* however deep the context it was made in and whatever a hook made of it: *)
(* no deny rule of the root matches, every guard of the root that matches  *)
(* was approved, and an allow rule, the mode or the policy spoke for it.   *)
(* Only the policy may still change the arguments afterwards.              *)
AuthorizedOnly ==
    ran # Absent =>
      /\ ~ Denied(root, judged)
      /\ \A i \in DOMAIN Guards(root) :
            GuardMatches(Guards(root)[i], judged) => i \in approved
      /\ \/ Allowed(root, judged)
         \/ ModeVerdict(root.permission_mode, Effect(judged.tool)) = "allow"
         \/ /\ ModeVerdict(root.permission_mode, Effect(judged.tool)) = "policy"
            /\ root.policy => policy \in {"allow", "replace", "approved"}
      /\ ran # judged => root.policy /\ policy = "replace"

(* A line with one assignment, under a secret name, ends there and shows   *)
(* no value.                                                               *)
AssignmentHidden(line) ==
    \A i \in DOMAIN line :
      /\ line[i].sep # "none" /\ line[i].key = "secret"
      /\ \A j \in DOMAIN line : j # i => line[j].sep = "none"
      => (\A j \in DOMAIN line : j <= i) /\ line[i].value \in {REDACTED, Empty}

(* With redaction on in the root run, and whatever the hooks put in the    *)
(* output's place, the strings the model gets hold none of the values that *)
(* the redactor looks for (the root run's and the environment's, from      *)
(* eight characters on and no common word), and no line with one           *)
(* assignment shows a value under a secret name: "One-variable-per-line    *)
(* output ... is fully covered" (redaction.rs:64).  Of shorter values,     *)
(* lines with more assignments, object keys and numbers nothing is said.   *)
OutputRedacted ==
    stage = "done" /\ seen.ok /\ root.redact_output =>
        \A line \in seen.content.text :
          /\ \A i \in DOMAIN line : line[i].value \notin SecretSet(root.extra_secrets)
          /\ AssignmentHidden(line)

(* What a tool call promises in any nested context: it runs only as the    *)
(* root run's rules allow, and its output is redacted as the root run asks *)
(* (context.rs authorize_tool, tool_exec.rs finalize_tool_output).         *)
ToolContract == AuthorizedOnly /\ OutputRedacted
=============================================================================
