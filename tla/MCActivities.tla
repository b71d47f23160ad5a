----------------------------- MODULE MCActivities -----------------------------
(* The instance of Activities that TLC checks: a durable run of two turns, up  *)
(* to three tool calls a turn in chunks of two, and one crash; its activities. *)
EXTENDS Activities

MCPlans == [output : BOOLEAN, tools : BOOLEAN, handoffs : {FALSE}]

MCReplies == {[text |-> "valid", calls |-> <<>>], [text |-> "prose", calls |-> <<"tool">>],
              [text |-> "prose", calls |-> <<"tool", "tool", "tool">>]}

-----------------------------------------------------------------------------
(* Root runs of every mode, with and without a policy and an approval        *)
(* handler, under rules that deny or allow a program or a path; calls that   *)
(* meet no rule, one, or two guards at once.                                 *)

ShellCommand(program, flags, operands, redirects) ==
  [program |-> program, flags |-> flags, operands |-> operands, redirects |-> redirects]

Ls == ShellCommand("ls", {}, {}, {})
Shell(commands) == [tool |-> "Bash", command |-> commands, path |-> Absent]
OnPath(tool, path) == [tool |-> tool, command |-> Absent, path |-> path]

MCCalls ==
  {Shell({Ls}),
   Shell({Ls, ShellCommand("rm", {"recursive", "force"}, {"/"}, {})}),
   Shell({ShellCommand("rm", {"recursive", "force"}, {"~"}, {".git/config"})}),
   OnPath("Write", ".git/config"), OnPath("Write", "notes"), OnPath("Read", "notes"),
   OnPath("Unknown", Absent)}

MCEffects ==
  [t \in {"Bash", "Write", "Read"} |->
     CASE t = "Bash" -> "sideEffect" [] t = "Write" -> "write" [] t = "Read" -> "readOnly"]

\* Deny rules, allow rules, guards of the run's own.
Rules ==
  LET rm == {[kind |-> "program", name |-> "rm"]}
      notes == {[kind |-> "tool", name |-> "Write"], [kind |-> "read", glob |-> {"notes"}]}
      edit == {[kind |-> "edit", glob |-> {"notes"}]}
      dotpath == <<DestructiveDefaults[3]>>
  IN {<<{}, {}, <<>>>>, <<rm, rm, <<>>>>, <<edit, notes, dotpath>>, <<{}, rm, dotpath>>,
      <<{}, notes, <<>>>>}

MCRoots ==
  {[RunContextNew EXCEPT
      !.permission_mode = m, !.policy = p, !.handler = h, !.redact_output = p,
      !.extra_secrets = {"listed", "short", "digits"}, !.max_depth = 1, !.deny_rules = r[1],
      !.allow_rules = r[2], !.guard_rules = r[3], !.default_guards = (r[3] = <<>>)] :
     m \in Modes, p \in BOOLEAN, h \in BOOLEAN, r \in Rules}

-----------------------------------------------------------------------------
(* Outputs: a `.env` line and one with an empty value, secrets in running    *)
(* text, two assignments on a line with either separator first, an object    *)
(* key.  Of the run's secrets one is below the floor and one is digits.      *)

MCLengths ==
  [v \in {REDACTED, Empty, "plain", "listed", "short", "digits", "env"} |->
     CASE v = REDACTED -> 3 [] v = Empty -> 0 [] v = "short" -> 7 [] OTHER -> 8]

Word(value) == [key |-> "other", sep |-> "none", value |-> value]
Assign(key, sep, value) == [key |-> key, sep |-> sep, value |-> value]

MCOutputs ==
  {[text |-> {<<Assign("secret", "=", "plain"), Word("plain")>>, <<Assign("secret", ":", Empty)>>},
    bare |-> {}],
   [text |-> {<<Word("listed"), Word("short"), Word("digits"), Word("plain")>>}, bare |-> {"listed"}],
   [text |-> {<<Assign("other", "=", "plain"), Assign("secret", "=", "env")>>,
              <<Assign("other", "=", "plain"), Assign("secret", ":", "short")>>}, bare |-> {}],
   [text |-> {<<Assign("secret", ":", "env"), Assign("secret", "=", "plain")>>}, bare |-> {"env"}]}

-----------------------------------------------------------------------------
(* Policies with no allow list, with one, and one that lets private addresses *)
(* through.                                                                  *)

MCPolicies ==
  {[allow |-> AnyHost, deny |-> {"bad"}, allow_private_ips |-> FALSE],
   [allow |-> {"good", "ip_private"}, deny |-> {"bad"}, allow_private_ips |-> FALSE],
   [allow |-> {"good"}, deny |-> {}, allow_private_ips |-> TRUE]}
===============================================================================
