---------------------------- MODULE RuleEvaluation ----------------------------
(***************************************************************************)
(* The rules of the template validator and their evaluation on a VM         *)
(* (internal/template-validator/validation).                                *)
(*                                                                          *)
(* An object is a function from paths to what JSONPath finds there: a        *)
(* sequence of values, each a number or a string, or Err.  A rule is          *)
(*   [rule, name, path, message, valid, justWarning, min, max, values, regex,  *)
(*    compiles]                                                             *)
(* where min and max stand for the bounds of the value or of its length;      *)
(* they and each of the values are an argument, [path, lit]: a literal when   *)
(* path is None.  regex is the set of strings that match, when it compiles.   *)
(***************************************************************************)
EXTENDS Integers, Sequences

CONSTANTS
    Length,   \* string |-> its length
    Opaque,   \* what reflect prints for a value that is no string
    RefVm,    \* NewDefaultVirtualMachine: the zero value of every field
    None,
    Err

RuleTypes == {"integer", "string", "enum", "regex"}

-----------------------------------------------------------------------------
(* Paths *)

findPathOnVmOrRef(path, vm) == IF vm[path] # Err THEN vm[path] ELSE RefVm[path]

\* Results.AsInt64 fails for anything but numbers, Results.AsString for nothing.
decodeInts(path, vm) ==
    LET found == findPathOnVmOrRef(path, vm) IN
    IF found = Err \/ \E i \in DOMAIN found: found[i].kind # "int" THEN Err
    ELSE [i \in DOMAIN found |-> found[i].val]

decodeStrings(path, vm) ==
    LET found == findPathOnVmOrRef(path, vm) IN
    IF found = Err THEN Err
    ELSE [i \in DOMAIN found |-> IF found[i].kind = "str" THEN found[i].val ELSE Opaque]

\* The one value that a path leads to
Single(vals) == IF vals # Err /\ Len(vals) = 1 THEN vals[1] ELSE Err

decodeInt(arg, vm) == IF arg.path = None THEN arg.lit ELSE Single(decodeInts(arg.path, vm))
decodeString(arg, vm) == IF arg.path = None THEN arg.lit ELSE Single(decodeStrings(arg.path, vm))

-----------------------------------------------------------------------------
(* Rules *)

\* A bound that is not set is None.
Bound(arg, vm) == IF arg = None THEN None ELSE decodeInt(arg, vm)

\* Range.Includes
Includes(min, max, v) == (min # None => v >= min) /\ (max # None => v <= max)

\* Range.Decode fails when one of its bounds cannot be decoded.
DecodeFails(rule, vm) == Err \in {Bound(rule.min, vm), Bound(rule.max, vm)}

\* The numbers, and the strings by their length, that the rule's range includes
Numbers(rule, vm) == {n \in Int: Includes(Bound(rule.min, vm), Bound(rule.max, vm), n)}
Strings(rule, vm) == {s \in DOMAIN Length: Length[s] \in Numbers(rule, vm)}

\* The last part of every Apply: no values are an error, and all have to be good.
Judged(vals, Good) ==
    IF vals = Err \/ vals = <<>> THEN "error"
    ELSE IF \A i \in DOMAIN vals: vals[i] \in Good THEN "satisfied" ELSE "unsatisfied"

intRule(rule, vm) ==
    IF DecodeFails(rule, vm) THEN "error"
    ELSE Judged(decodeInts(rule.path, vm), Numbers(rule, vm))

stringRule(rule, vm) ==
    IF DecodeFails(rule, vm) THEN "error"
    ELSE Judged(decodeStrings(rule.path, vm), Strings(rule, vm))

enumRule(rule, vm) ==
    LET values == {decodeString(rule.values[i], vm): i \in DOMAIN rule.values} IN
    IF Err \in values THEN "error" ELSE Judged(decodeStrings(rule.path, vm), values)

regexRule(rule, vm) ==
    IF ~rule.compiles THEN "error" ELSE Judged(decodeStrings(rule.path, vm), rule.regex)

\* Rule.Specialize and RuleApplier.Apply, for a rule of a known type
Apply(rule, vm) ==
    IF rule.rule = "integer" THEN intRule(rule, vm)
    ELSE IF rule.rule = "string" THEN stringRule(rule, vm)
    ELSE IF rule.rule = "enum" THEN enumRule(rule, vm)
    ELSE regexRule(rule, vm)

validateRule(rule) == rule.rule \in RuleTypes /\ rule.message

\* The path is looked up on the VM only, not on the reference.
IsAppliableOn(rule, vm) == rule.valid = None \/ (vm[rule.valid] # Err /\ vm[rule.valid] # <<>>)

-----------------------------------------------------------------------------
(* Evaluator.Evaluate *)

\* The report on a rule, given the names of the rules before it
Report(rule, names, vm) ==
    IF rule.name \in names \/ ~validateRule(rule) THEN "error"
    ELSE IF ~IsAppliableOn(rule, vm) THEN "skipped"
    ELSE Apply(rule, vm)

\* Mutant: a rule that is only a warning hides an error.
FailsUnlessWarning(rule, report) == report \in {"error", "unsatisfied"} /\ ~rule.justWarning

\* Result.Fail, Skip and Applied
Fails(rule, report) == report = "error" \/ (report = "unsatisfied" /\ ~rule.justWarning)

\* uniqueNames, when the loop comes to rule i
UniqueNames(rules, i) == {rules[j].name: j \in 1..(i - 1)}

\* Every rule has its report, and one that fails makes the whole fail.
Evaluate(rules, vm) ==
    LET status == [i \in DOMAIN rules |-> Report(rules[i], UniqueNames(rules, i), vm)] IN
    [status |-> status, failed |-> \E i \in DOMAIN rules: Fails(rules[i], status[i])]

\* Mutant: only errors are explained.
needsCauseForErrors(report) == report = "error"

needsCause(report) == report \in {"error", "unsatisfied"}

\* The rules that a rejection names; it lists them in the order of the rules.
ToStatusCauses(result) ==
    {i \in DOMAIN result.status: result.failed /\ needsCause(result.status[i])}

=============================================================================
