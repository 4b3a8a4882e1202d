----------------------------- MODULE ToolPolicy -----------------------------
(***************************************************************************)
(* The tool policy: normalizeToolPolicy and resolveToolPolicy              *)
(* (src/src/policy.ts) with the skipTools of normalizeConfig               *)
(* (src/src/config.ts).                                                    *)
(*                                                                         *)
(* A pattern stands for the tools it matches, a set; {} is a pattern that  *)
(* is rejected (blank).  Of what a rule may configure, strength and one    *)
(* `extra' (minimum, ccr or retrieve) are kept.                            *)
(***************************************************************************)
EXTENDS Naturals, Sequences, FiniteSetsExt

CONSTANTS HeadroomTools,   \* the tools headroom_* matches
          ContextTools,    \* those of ctx_*
          ExactTools,      \* Read, Edit, Write, apply_patch
          Unset, DefaultStrength

Preserve == "preserve"
Compress == "compress"

(* normalizeRule: what is rejected.  The empty string is an id of blanks.  *)
BlankId == ""
Rejected(rule) ==
  \/ rule.id = BlankId
  \/ rule.tools = {} \/ {} \in rule.tools
  \/ rule.action \notin {Preserve, Compress}
  \/ rule.action = Preserve /\ (rule.strength # Unset \/ rule.extra # Unset)

Normalized(rule, source) ==
  [id |-> rule.id, matches |-> UNION rule.tools, action |-> rule.action,
   strength |-> rule.strength, extra |-> rule.extra, source |-> source]
CompatibilityRule(skipTools) ==
  [id |-> "legacy-skip-tools", tools |-> skipTools, action |-> Preserve,
   strength |-> Unset, extra |-> Unset]

(* normalizeToolPolicy: user rules keep their order, the compatibility     *)
(* rule comes last; Invalid is an error raised at start-up.                *)
Invalid == [rules |-> <<>>, invalid |-> TRUE]
DuplicateId(rules) == \E i, j \in DOMAIN rules : i # j /\ rules[i].id = rules[j].id
CompatibilityFirst(user, compatibility) == compatibility \o user
Ordered(user, compatibility) == user \o compatibility
NormalizeToolPolicy(input, skipTools) ==
  LET user == [i \in DOMAIN input.rules |-> Normalized(input.rules[i], "user")]
      compatibility == IF skipTools = {} THEN <<>>
                       ELSE <<Normalized(CompatibilityRule(skipTools), "compatibility")>>
      broken == \/ input.default.action \notin {Unset, Preserve, Compress}
                \/ DuplicateId(input.rules)
                \/ \E i \in DOMAIN input.rules : Rejected(input.rules[i])
                \/ skipTools # {} /\ Rejected(CompatibilityRule(skipTools))
  IN  IF broken THEN Invalid
      ELSE [rules |-> Ordered(user, compatibility), invalid |-> FALSE,
            action |-> IF input.default.action = Unset THEN Compress
                       ELSE input.default.action,
            strength |-> IF input.default.strength = Unset THEN DefaultStrength
                         ELSE input.default.strength]

Resolution(ruleId, source, action, strength, extra) ==
  [ruleId |-> ruleId, source |-> source, action |-> action, strength |-> strength,
   extra |-> extra]
ResolveToolPolicy(tool, policy) ==
  LET matching == {i \in DOMAIN policy.rules : tool \in policy.rules[i].matches}
      builtin(id) == Resolution(id, "builtin", Preserve, policy.strength, Unset)
      first == policy.rules[Min(matching)]
  IN  IF tool \in HeadroomTools THEN builtin("safety-headroom-tools")
      ELSE IF matching # {}
           THEN Resolution(first.id, first.source, first.action,
                           IF first.strength = Unset THEN policy.strength ELSE first.strength,
                           first.extra)
      ELSE IF tool \in ContextTools THEN builtin("builtin-context-tools")
      ELSE IF tool \in ExactTools THEN builtin("builtin-exact-content")
      ELSE Resolution("default", "default", policy.action, policy.strength, Unset)
-----------------------------------------------------------------------------
(* The options of version 0.1 mean what the migration guide says           *)
(* (README.md:284-291, 314-320, 470-473): skipTools can be replaced by a   *)
(* preserve rule after all other user rules, removing the default list     *)
(* changes no decision, no configuration lets a headroom tool be           *)
(* compressed, a user rule that takes a tool away from the compatibility   *)
(* rule or a built-in default is one that names it, and only the rule that *)
(* decides a tool lends it its strength and its limits.                    *)
PolicyPrecedenceFor(input, skipTools, tool) ==
  LET policy == NormalizeToolPolicy(input, skipTools)
      decision == ResolveToolPolicy(tool, policy)
      moved == NormalizeToolPolicy(
                 [input EXCEPT !.rules = Append(@, [CompatibilityRule(skipTools)
                                                      EXCEPT !.id = "moved"])], {})
      unlisted == NormalizeToolPolicy(input, {})
      shielded == \/ skipTools # {} /\ tool \in UNION skipTools
                  \/ tool \in ContextTools \cup ExactTools
      naming == {i \in DOMAIN input.rules : tool \in UNION input.rules[i].tools}
  IN  ~policy.invalid =>
        /\ skipTools # {} => ResolveToolPolicy(tool, moved).action = decision.action
        /\ skipTools = {HeadroomTools, ContextTools} =>
             ResolveToolPolicy(tool, unlisted).action = decision.action
        /\ tool \in HeadroomTools => decision.action = Preserve
        /\ shielded /\ decision.action = Compress =>
             decision.source = "user" /\ naming # {}
        /\ decision.extra # Unset \/ decision.strength # policy.strength =>
             /\ decision.source = "user" /\ decision.action = Compress
             /\ \E i \in naming : /\ input.rules[i].id = decision.ruleId
                                  /\ input.rules[i].extra = decision.extra
                                  /\ \A j \in naming : i <= j
=============================================================================
