------------------------------- MODULE Policy -------------------------------
(***************************************************************************)
(* policy.py: the rules a StaticPolicy adds to those of a TaskSpec.        *)
(*                                                                         *)
(* A policy is a record: "patterns" of forbidden paths, forbidden          *)
(* "commands" (sequences of words), "limits" and "modes" by the name of    *)
(* the TaskSpec attribute they are about.  Nothing validates the file it   *)
(* is read from: "malformed" names its parts that are no list of strings,  *)
(* or no object, a limit is any JSON value, and a mode is one of the       *)
(* "values" of an array, one of the keys of an object, text in which it    *)
(* has to occur, or of the kind "none" if it is a value of another type.   *)
(*                                                                         *)
(* What a TaskSpec holds beside its scopes are its "terms": the allowed    *)
(* commands, whether one of them is "wordless", no string, and the         *)
(* attributes, as JSON values.  A pattern is a sequence of segments in     *)
(* which "*" and "**" stand for any text, slashes included; wildcards      *)
(* inside a segment are left out.                                          *)
(***************************************************************************)
EXTENDS TaskSpec, JsonValue

Star == {"*", "**"}
Pattern == Seq(Name \cup Star \cup {"."}) \ {<<>>}
PolicyPart == {"limits", "modes", "patterns", "commands"}
ModeKind == {"array", "object", "text", "none"}

(* What a policy file can hold.                                            *)
PolicyFile(policy) ==
  /\ policy.malformed \subseteq PolicyPart
  /\ \A key \in DOMAIN policy.limits :
       LET limit == policy.limits[key]
       IN  limit.type \in Numeric => AsNumber(limit) \in Int
  /\ \A key \in DOMAIN policy.modes : policy.modes[key].kind \in ModeKind
  /\ policy.commands \subseteq Seq(STRING)

(* getattr(task_spec, key, None)                                           *)
Attribute(terms, key) ==
  IF key \in DOMAIN terms.attributes THEN terms.attributes[key] ELSE Null

-----------------------------------------------------------------------------
(* fnmatch.fnmatchcase on segments.  A normalized path has no empty        *)
(* segment, so beside a slash a star covers at least one.                  *)
fnmatchcase(path, pattern) ==
  LET match[i \in 0..Len(pattern), j \in 0..Len(path)] ==
        IF i = 0 \/ j = 0 THEN i = j
        ELSE IF pattern[i] \in Star THEN \E k \in 0..(j-1) : match[i-1, k]
        ELSE path[j] = pattern[i] /\ match[i-1, j-1]
  IN  \/ match[Len(pattern), Len(path)]
      \/ path = <<>> /\ Len(pattern) = 1 /\ pattern[1] \in Star

(* Lower case, and without the prefix "./".                                *)
CleanPattern(pattern) ==
  LET lower == [i \in DOMAIN pattern |->
                  IF pattern[i] \in Name THEN Lower[pattern[i]] ELSE pattern[i]]
  IN  IF Len(lower) > 1 /\ lower[1] = "." THEN Tail(lower) ELSE lower

(* _matches_path: a leading "**/" may also stand for nothing.              *)
matches_path(pattern, path) ==
  LET clean == CleanPattern(pattern)
  IN  \/ fnmatchcase(path, clean)
      \/ Len(clean) > 1 /\ clean[1] = "**" /\ fnmatchcase(path, Tail(clean))

MatchesForbidden(policy, path) ==
  \E pattern \in policy.patterns : matches_path(pattern, path)

(* validate_path on a path that normalizes to path.                        *)
validate_path(policy, spec, path, action) ==
  IF MatchesForbidden(policy, path) THEN "matches global forbidden pattern"
  ELSE validate_path_access(spec, path, action)

-----------------------------------------------------------------------------
(* Mutant: the write scopes are taken to be covered by the read scopes.    *)
ForbiddenReadScopes(policy, spec) ==
  {path \in spec.read_paths : MatchesForbidden(policy, path)}

(* _evaluate_paths: the scopes themselves are matched, not what lies in    *)
(* them, and the immutable scopes are not.                                 *)
ForbiddenScopes(policy, spec) ==
  {path \in spec.read_paths \cup spec.write_paths : MatchesForbidden(policy, path)}

(* _evaluate_commands: the words of a pattern occur in a row.              *)
ForbiddenCommands(policy, terms) ==
  {command \in terms.commands :
     \E words \in policy.commands, i \in 1..(Len(command)+1), j \in 0..Len(command) :
       SubSeq(command, i, j) = words}

(* Mutant of ExceededLimits: a limit of exactly the maximum is refused.    *)
LimitsReached(policy, terms) ==
  {key \in DOMAIN policy.limits :
     LET actual == Attribute(terms, key)
     IN  IsInt(actual) /\ AsNumber(actual) >= AsNumber(policy.limits[key])}

(* _validate_limits: an attribute that is absent or no integer passes.     *)
ExceededLimits(policy, terms) ==
  {key \in DOMAIN policy.limits :
     LET actual == Attribute(terms, key)
     IN  IsInt(actual) /\ AsNumber(actual) > AsNumber(policy.limits[key])}

(* Comparing an integer with what is no number raises TypeError.           *)
LimitRaises(policy, terms) ==
  \E key \in DOMAIN policy.limits :
    IsInt(Attribute(terms, key)) /\ policy.limits[key].type \notin Numeric

(* _validate_modes: "actual not in allowed_values".                        *)
RefusedModes(policy, terms) ==
  {key \in DOMAIN policy.modes :
     \A v \in policy.modes[key].values : ~ PyEqual(Attribute(terms, key), v)}

(* What Python's "in" finds no answer to raises TypeError: a text is only  *)
(* searched for a string, an object only for what has a hash.              *)
ModeRaises(policy, terms) ==
  \E key \in DOMAIN policy.modes :
    LET kind == policy.modes[key].kind
        actual == Attribute(terms, key)
    IN  \/ kind = "none"
        \/ kind = "text" /\ actual.type # "string"
        \/ kind = "object" /\ actual.type \in {"array", "object"}

(* _validate_disjoint_rules.                                               *)
RuleConflicts(spec) == (spec.read_paths \cup spec.write_paths) \cap spec.forbidden_paths

(* _evaluate_commands is the one rule that looks at its part of the policy *)
(* only if the task has something to compare it with.                      *)
CommandRaises(policy, terms) ==
  terms.wordless \/ (terms.commands # {} /\ "commands" \in policy.malformed)

(* The rules normalize the scopes once more, which raises for the empty    *)
(* one.                                                                    *)
PolicyRaises(policy, spec, terms) ==
  \/ policy.malformed \cap {"limits", "modes", "patterns"} # {}
  \/ LimitRaises(policy, terms) \/ ModeRaises(policy, terms) \/ CommandRaises(policy, terms)
  \/ <<>> \in spec.read_paths \cup spec.write_paths \cup spec.forbidden_paths

(* The rules of validate_task_spec a built spec breaks.                    *)
PolicyViolations(policy, spec, terms) ==
  {code \in {"LIMIT_EXCEEDED", "MODE_NOT_ALLOWED", "FORBIDDEN_PATH",
             "FORBIDDEN_COMMAND", "PATH_RULE_CONFLICT"} :
     CASE code = "LIMIT_EXCEEDED" -> ExceededLimits(policy, terms) # {}
       [] code = "MODE_NOT_ALLOWED" -> RefusedModes(policy, terms) # {}
       [] code = "FORBIDDEN_PATH" -> ForbiddenScopes(policy, spec) # {}
       [] code = "FORBIDDEN_COMMAND" -> ForbiddenCommands(policy, terms) # {}
       [] code = "PATH_RULE_CONFLICT" -> RuleConflicts(spec) # {}}
=============================================================================
