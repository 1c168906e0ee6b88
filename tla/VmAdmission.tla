------------------------------ MODULE VmAdmission ------------------------------
(***************************************************************************)
(* The template validator's webhook for virtual machines                    *)
(* (internal/template-validator/webhooks): which rules a VM is held to, and  *)
(* what the webhook answers.  Templates come from an informer's store.        *)
(*                                                                          *)
(* A VM is [deleting, skip, validations, labels, annotations, cpu, disks]:    *)
(* skip is the annotation that turns the validation off, validations the      *)
(* VM's own rules (None without the annotation, Err when they do not parse),   *)
(* labels and annotations a template's [name, namespace, old], None for a      *)
(* part that is missing, cpu None or [cores], disks the bus of every disk.     *)
(***************************************************************************)
EXTENDS RuleEvaluation

CONSTANTS
    Templates,  \* keys <<namespace, name>>
    RuleLists,  \* annotations of templates: lists of rules, or Err
    Vms         \* VMs that are created and updated

\* The paths that the model tells apart: a number below a pointer, the bus of the
\* disks, and one that leads nowhere
Paths == {"cores", "disks", "bogus"}

Texts == DOMAIN Length
Value == [kind: {"int"}, val: Int] \cup [kind: {"str"}, val: Texts]

Argument(Lit) == [path: {None}, lit: Lit] \cup [path: Paths, lit: {0}]

Rule == [rule: STRING, name: STRING, path: Paths, message: BOOLEAN, valid: Paths \cup {None},
         justWarning: BOOLEAN, min: Argument(Int) \cup {None}, max: Argument(Int) \cup {None},
         values: Seq(Argument(Texts)), regex: SUBSET Texts, compiles: BOOLEAN]

TemplateKey == [name: STRING \cup {None}, namespace: STRING \cup {None}, old: STRING \cup {None}]

VirtualMachine ==
    [deleting: BOOLEAN, skip: BOOLEAN, validations: Seq(Rule) \cup {Err, None},
     labels: TemplateKey, annotations: TemplateKey, cpu: [cores: Nat] \cup {None},
     disks: Seq(Texts)]

ASSUME LengthAssumption == Length \in [Texts -> Nat] /\ Opaque \in Texts
ASSUME NoneAssumption == /\ None \notin Paths \cup Int
                         /\ None \notin Argument(Int) \cup [cores: Nat]
                         /\ None \notin Seq(Rule) \cup {Err}
ASSUME ErrAssumption == /\ Err \notin Int \cup Texts
                        /\ Err \notin Seq(Rule)
                        /\ Err \notin Seq(Value)
                        /\ Err \notin Seq(Int) \cup Seq(Texts)
ASSUME RefVmAssumption == /\ RefVm.cores = <<[kind |-> "int", val |-> 0]>>
                          /\ RefVm.bogus = Err
ASSUME InputsAssumption == RuleLists \subseteq Seq(Rule) \cup {Err} /\ Vms \subseteq VirtualMachine

VARIABLES
    store,      \* the informer's store: key |-> rules of the template, or None
    request     \* None, or [vm, rules, allowed, causes]: a request and its answer

vars == <<store, request>>

-----------------------------------------------------------------------------
(* labels.TemplateKeys *)

AnyNamespace(key) == IF key.namespace # None THEN key.namespace ELSE key.old
IsValid(key) == key.name # None /\ AnyNamespace(key) # None

\* TemplateKeys.Get: labels come first
Get(vm) == IF IsValid(vm.labels) THEN vm.labels ELSE vm.annotations

\* getParentTemplateForVM: the rules of a template that is found, or None
getParentTemplateForVM(vm) ==
    LET key == Get(vm) IN
    IF ~IsValid(key) THEN None
    ELSE IF <<AnyNamespace(key), key.name>> \in Templates
         THEN store[<<AnyNamespace(key), key.name>>] ELSE None

\* ParseRules: no annotation, no rules
ParseRules(data) == IF data = None THEN <<>> ELSE data

getValidationRulesForVM(vm) ==
    IF vm.skip THEN <<>>
    ELSE IF vm.validations # None THEN ParseRules(vm.validations)
    ELSE ParseRules(getParentTemplateForVM(vm))

-----------------------------------------------------------------------------
(* ValidateVm *)

setDefaultValues(vm) ==
    IF vm.cpu # None /\ vm.cpu.cores = 0 THEN [vm EXCEPT !.cpu.cores = 1] ELSE vm

Number(n) == [kind |-> "int", val |-> n]
String(s) == [kind |-> "str", val |-> s]

\* What the paths find on a VM.  JSONPath fails on a pointer that is nil.
Object(vm) ==
    [cores |-> IF vm.cpu = None THEN Err ELSE <<Number(vm.cpu.cores)>>,
     disks |-> [i \in DOMAIN vm.disks |-> String(vm.disks[i])],
     bogus |-> Err]

ValidateVm(rules, vm) ==
    IF rules = <<>> THEN {}
    ELSE ToStatusCauses(Evaluate(rules, Object(setDefaultValues(vm))))

-----------------------------------------------------------------------------
(* admitVm, for one request after the other *)

Answer(vm, rules, allowed, causes) ==
    request' = [vm |-> vm, rules |-> rules, allowed |-> allowed, causes |-> causes]

admitVm(vm) ==
    /\ request = None
    /\ LET rules == getValidationRulesForVM(vm) IN
       \/ vm.deleting /\ Answer(vm, <<>>, TRUE, {})
       \/ ~vm.deleting /\ rules = Err /\ Answer(vm, Err, FALSE, {})
       \/ /\ ~vm.deleting /\ rules # Err
          /\ \E causes \in {ValidateVm(rules, vm)}: Answer(vm, rules, causes = {}, causes)
    /\ UNCHANGED store

\* serve: the answer is sent
Respond ==
    /\ request # None
    /\ request' = None
    /\ UNCHANGED store

\* A template is created, changed or deleted, and the informer has heard of it.
Deliver(t) ==
    /\ \E rules \in RuleLists \cup {None}: store' = [store EXCEPT ![t] = rules]
    /\ UNCHANGED request

Init ==
    /\ store = [t \in Templates |-> None]
    /\ request = None

Next ==
    \/ \E vm \in Vms: admitVm(vm)
    \/ Respond
    \/ \E t \in Templates: Deliver(t)

Spec == Init /\ [][Next]_vars

-----------------------------------------------------------------------------
(* Reference *)

\* What a rule is about: the values on the VM, or their zero value where an
\* optional part of the VM is missing; cores that are not set count as one
Subject(path, vm) ==
    IF path = "cores"
    THEN {IF vm.cpu = None THEN 0 ELSE IF vm.cpu.cores = 0 THEN 1 ELSE vm.cpu.cores}
    ELSE IF path = "disks" THEN {vm.disks[i]: i \in DOMAIN vm.disks} ELSE {}

\* The number that a bound of a rule stands for
Limits(arg, vm) == IF arg.path = None THEN {arg.lit} ELSE Subject("cores", vm)

Within(rule, vm, n) ==
    /\ rule.min # None => \A m \in Limits(rule.min, vm): n >= m
    /\ rule.max # None => \A m \in Limits(rule.max, vm): n <= m

Resolves(arg, vm) ==
    arg.path = None \/ (arg.path = "cores") \/ (arg.path = "disks" /\ Len(vm.disks) = 1)

\* The string that a value of an enum stands for
Text(arg, vm) ==
    IF arg.path = None THEN arg.lit ELSE IF arg.path = "disks" THEN vm.disks[1] ELSE Opaque

Printed(path, vm) == IF path = "cores" THEN {Opaque} ELSE Subject(path, vm)

\* A rule can be evaluated: everything it refers to is there and of its type.
Evaluable(rule, vm) ==
    /\ Subject(rule.path, vm) # {}
    /\ rule.rule = "integer" => rule.path = "cores"
    /\ rule.rule = "regex" => rule.compiles
    /\ rule.rule = "enum" => \A i \in DOMAIN rule.values: Resolves(rule.values[i], vm)
    /\ rule.rule \in {"integer", "string"} =>
          \A arg \in {rule.min, rule.max} \ {None}: arg.path \in {None, "cores"}

Satisfied(rule, vm) ==
    /\ rule.rule = "integer" => \A n \in Subject(rule.path, vm): Within(rule, vm, n)
    /\ rule.rule = "string" => \A s \in Printed(rule.path, vm): Within(rule, vm, Length[s])
    /\ rule.rule = "enum" => \A s \in Printed(rule.path, vm):
                                \E i \in DOMAIN rule.values: s = Text(rule.values[i], vm)
    /\ rule.rule = "regex" => Printed(rule.path, vm) \subseteq rule.regex

\* The rule's condition finds something on the VM itself.
Applicable(rule, vm) ==
    \/ rule.valid = None
    \/ rule.valid = "cores" /\ vm.cpu # None
    \/ rule.valid = "disks" /\ vm.disks # <<>>

WellFormed(rules, i) ==
    /\ rules[i].rule \in RuleTypes /\ rules[i].message
    /\ \A j \in 1..(i - 1): rules[j].name # rules[i].name

Broken(rules, i, vm) ==
    \/ ~WellFormed(rules, i)
    \/ Applicable(rules[i], vm) /\ ~Evaluable(rules[i], vm)

Unsatisfied(rules, i, vm) ==
    /\ WellFormed(rules, i) /\ Applicable(rules[i], vm)
    /\ Evaluable(rules[i], vm) /\ ~Satisfied(rules[i], vm)

-----------------------------------------------------------------------------
(* Properties *)

\* A VM is rejected exactly when one of its rules is broken (its name is taken, its
\* type is unknown, it lacks a message, or it cannot be evaluated), or is not
\* satisfied and more than a warning: an error in a rule never goes unnoticed, and
\* a rule that does not apply never rejects (eval.go, Evaluate; hook.go, admitVm,
\* which goes by the number of causes).
RejectedExactly ==
    (request # None /\ ~request.vm.deleting /\ request.rules # Err) =>
        request.allowed <=>
            \A i \in DOMAIN request.rules:
                /\ ~Broken(request.rules, i, request.vm)
                /\ Unsatisfied(request.rules, i, request.vm) => request.rules[i].justWarning

\* A rejection names every rule that is broken or not satisfied, warnings too, and
\* no other (ToStatusCauses).
CausesExact ==
    (request # None /\ request.rules # Err /\ ~request.allowed) =>
        request.causes =
            {i \in DOMAIN request.rules: \/ Broken(request.rules, i, request.vm)
                                         \/ Unsatisfied(request.rules, i, request.vm)}

=============================================================================
