------------------------------ MODULE RulePolicy ------------------------------
(***************************************************************************)
(* The policy of proxy mode (policy/rules.py): the first rule whose glob   *)
(* matches the tool's name decides, or else the default does.  Words are   *)
(* looked up in lower case, and a word the table does not have means       *)
(* "allow".                                                                *)
(***************************************************************************)
EXTENDS Naturals, Sequences

CONSTANTS
  Names,         \* tool names
  Rules,         \* rule_policy.rules, in the order of the configuration
  NoPattern,     \* a "match" that is missing or blank
  Glob,          \* the names each pattern matches: fnmatch
  Lower,         \* each word of the configuration in lower case
  DefaultAction  \* rule_policy.default_action

Actions == {"allow", "deny", "require_approval"}

Patterns == DOMAIN Glob

ASSUME RuleConstants ==
  /\ Glob \in [Patterns -> SUBSET Names]
  /\ NoPattern \notin Patterns
  /\ Rules \in Seq([match : Patterns \cup {NoPattern}, action : DOMAIN Lower])
  /\ DefaultAction \in DOMAIN Lower

(* A mutant of ActionOf: the word is not put in lower case. *)
ActionOfVerbatim(word) == IF word \in Actions THEN word ELSE "allow"

ActionOf(word) == IF Lower[word] \in Actions THEN Lower[word] ELSE "allow"

Matches(n, rule) == rule.match # NoPattern /\ n \in Glob[rule.match]

Hits(n) == {i \in DOMAIN Rules : Matches(n, Rules[i])}

RuleVerdict(n) ==
  IF Hits(n) = {} THEN ActionOf(DefaultAction)
  ELSE ActionOf(Rules[CHOOSE i \in Hits(n) : \A j \in Hits(n) : i <= j].action)
==============================================================================
