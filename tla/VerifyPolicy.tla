---------------------------- MODULE VerifyPolicy -----------------------------
(***************************************************************************)
(* What stands between a report and an exit code: the configuration of     *)
(* src/config.rs and the operation scope of src/lock_size.rs.  A message   *)
(* is the set of its words.  A configuration has                           *)
(*   ignore    a set of rules [words, ops]: ops is the set of operations   *)
(*             its path and method patterns match                          *)
(*   severity  a sequence of [words, severity]                             *)
(*   failOn    None, or limits [breaking, warning], None if not written    *)
(***************************************************************************)
EXTENDS Naturals, FiniteSets, SequencesExt, Optional

NoRules == [ignore |-> {}, severity |-> <<>>, failOn |-> None]

(* The words of a change's message: rules do not see where a word is from. *)
Words(change) == {change.what} \cup ToSet(change.at)

(* ignore_rule_matches: every keyword, in an operation that matches.       *)
Ignores(rule, change) == rule.words \subseteq Words(change) /\ change.op \in rule.ops

(* change_matches_severity_override.                                       *)
Overrides(rule, change) == rule.words \subseteq Words(change)

(* parse_severity: what is not known is a warning.                         *)
ParseSeverity(name) ==
    CASE name = "breaking" -> "breaking"
      [] name \in {"non_breaking", "nonbreaking"} -> "nonBreaking"
      [] OTHER -> "warning"

(* Every rule that matches is applied, in their order: the last decides.   *)
Reclassify(change, rules) ==
    LET hits == {i \in DOMAIN rules : Overrides(rules[i], change)} IN
    IF hits = {} THEN change
    ELSE [change EXCEPT !.severity = ParseSeverity(rules[CHOOSE i \in hits : \A j \in hits : j <= i].severity)]

(* apply_config.                                                           *)
ApplyConfig(changes, config) ==
    {Reclassify(c, config.severity) : c \in {d \in changes : \A r \in config.ignore : ~Ignores(r, d)}}

OfSeverity(changes, severity) == {c \in changes : c.severity = severity}

(* A limit that is not written is 0.                                       *)
Limit(written) == IF written = None THEN 0 ELSE written

(* compute_exit_code.                                                      *)
ExitCode(changes, failOn) ==
    IF failOn = None THEN IF OfSeverity(changes, "breaking") = {} THEN 0 ELSE 1
    ELSE IF \/ Cardinality(OfSeverity(changes, "breaking")) > Limit(failOn.breaking)
            \/ Cardinality(OfSeverity(changes, "warning")) > Limit(failOn.warning)
         THEN 1 ELSE 0

-----------------------------------------------------------------------------
(* Configuration files, from the directory of the lock outwards: each is   *)
(* None, [parses |-> FALSE], or [parses |-> TRUE, rules |-> ...].          *)
Written(files) == {i \in DOMAIN files : files[i] # None}

(* A faulty form: a file that does not parse is not the one.               *)
DiscoverParsing(files) ==
    LET good == {i \in Written(files) : files[i].parses} IN
    IF good = {} THEN None ELSE files[CHOOSE i \in good : \A j \in good : i <= j]

(* Config::discover: the nearest one.                                      *)
Nearest(files) == files[CHOOSE i \in Written(files) : \A j \in Written(files) : i <= j]

Discover(files) == IF Written(files) = {} THEN None ELSE Nearest(files)

(* load_optional_config_with_discovery: a file found this way that does    *)
(* not parse is as good as none.                                           *)
EffectiveRules(files) ==
    LET file == Discover(files) IN
    IF file = None \/ ~file.parses THEN NoRules ELSE file.rules

(* What a reader of the configuration is entitled to conclude from exit    *)
(* code 0: the breaking changes no rule of the nearest file names are      *)
(* within its limit.                                                       *)
Names(rules, change) ==
    \/ \E r \in rules.ignore : Ignores(r, change)
    \/ \E i \in DOMAIN rules.severity : Overrides(rules.severity[i], change)

Explained(report, files, exit) ==
    LET applies == Written(files) # {} /\ Nearest(files).parses
        rules   == Nearest(files).rules
        unnamed == {c \in OfSeverity(report, "breaking") : applies => ~Names(rules, c)} IN
    (exit = 0 /\ unnamed # {}) =>
       applies /\ rules.failOn # None /\ Cardinality(unnamed) <= Limit(rules.failOn.breaking)

-----------------------------------------------------------------------------
(* Scope: no selectors stand for every operation.  A selector is           *)
(* [method, path]; the names of placeholders do not count.                 *)
SelectedBy(selector) == [method |-> selector.method, shape |-> selector.path.shape]

ScopeOf(selectors) == {SelectedBy(s) : s \in ToSet(selectors)}

(* scope_contract: None where a selector is written twice or finds nothing *)
ScopeContract(contract, selectors) ==
    IF selectors = <<>> THEN contract
    ELSE IF Cardinality(ScopeOf(selectors)) # Len(selectors) \/ ~(ScopeOf(selectors) \subseteq DOMAIN contract)
    THEN None
    ELSE [op \in ScopeOf(selectors) |-> contract[op]]

(* scope_current_for_verify: what is not there is left to the comparison.  *)
ScopeCurrent(contract, scope) ==
    IF scope = {} THEN contract ELSE [op \in DOMAIN contract \cap scope |-> contract[op]]
=============================================================================
