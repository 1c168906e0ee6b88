---------------------------- MODULE MCVmAdmission ----------------------------
EXTENDS VmAdmission, TLC

MCLength == "" :> 0 @@ "sata" :> 4 @@ "virtio" :> 6 @@ Opaque :> 12

MCRefVm == [cores |-> <<Number(0)>>, disks |-> <<String(""), String("")>>, bogus |-> Err]

Lit(v) == [path |-> None, lit |-> v]
At(p) == [path |-> p, lit |-> 0]

BaseRule ==
    [rule |-> "integer", name |-> "a", path |-> "cores", message |-> TRUE, valid |-> None,
     justWarning |-> FALSE, min |-> None, max |-> None, values |-> <<>>,
     regex |-> {}, compiles |-> TRUE]

\* Integer rules with bounds that are missing, literals, and paths to one, several,
\* no or unsuitable values
IntRules ==
    {[BaseRule EXCEPT !.path = p, !.min = min, !.max = max]:
        p \in {"cores", "bogus"}, min \in {None, Lit(1), At("disks")}, max \in {None, Lit(1), At("cores")}}

StringRules ==
    {[BaseRule EXCEPT !.rule = "string", !.path = p, !.min = min, !.max = Lit(5)]:
        p \in {"cores", "disks"}, min \in {None, Lit(4), At("bogus")}}

EnumRules ==
    {[BaseRule EXCEPT !.rule = "enum", !.path = "disks", !.values = values]:
        values \in {<<Lit("virtio")>>, <<Lit("sata"), Lit("virtio")>>, <<At("disks")>>, <<At("bogus")>>}}

RegexRules ==
    {[BaseRule EXCEPT !.rule = "regex", !.path = "disks", !.regex = regex, !.compiles = regex # {}]:
        regex \in {{}, {"sata", "virtio"}, {"virtio"}}}

BadRules == {[BaseRule EXCEPT !.rule = "range"], [BaseRule EXCEPT !.message = FALSE]}

AllRules == IntRules \cup StringRules \cup EnumRules \cup RegexRules \cup BadRules

\* One rule of each kind, in the ways that matter to the rules after it
Second ==
    {[rule EXCEPT !.name = name, !.justWarning = warning, !.valid = valid]:
        rule \in {[BaseRule EXCEPT !.min = Lit(2)], [BaseRule EXCEPT !.path = "bogus"]},
        name \in {"a", "b"}, warning \in BOOLEAN, valid \in {None, "cores", "bogus"}}

MCOwn ==
    {Err, <<>>} \cup {<<rule>>: rule \in AllRules \cup Second}
    \cup {<<first, second>>: first \in AllRules, second \in Second}

MCRuleLists == {Err, <<[BaseRule EXCEPT !.max = Lit(1)]>>}

MCTemplates == {<<"n1", "t">>, <<"n2", "t">>}

NoKey == [name |-> None, namespace |-> None, old |-> None]
Keys == {NoKey, [NoKey EXCEPT !.name = "t"], [NoKey EXCEPT !.name = "t", !.namespace = "n1"],
         [NoKey EXCEPT !.name = "t", !.old = "n2"],
         [name |-> "t", namespace |-> "n1", old |-> "n2"], [NoKey EXCEPT !.name = "u", !.old = "n2"]}

Plain == [deleting |-> FALSE, skip |-> FALSE, validations |-> None, labels |-> NoKey,
          annotations |-> NoKey, cpu |-> None, disks |-> <<>>]

Cpus == {None, [cores |-> 0], [cores |-> 2]}
Disks == {<<>>, <<"virtio">>, <<"sata", "virtio">>}

MCVms ==
    {[Plain EXCEPT !.validations = own, !.cpu = cpu, !.disks = disks]:
        own \in MCOwn, cpu \in Cpus, disks \in Disks}
    \cup {[Plain EXCEPT !.labels = l, !.annotations = a, !.cpu = [cores |-> 2]]: l \in Keys, a \in Keys}
    \cup {[Plain EXCEPT !.deleting = d, !.skip = ~d, !.validations = Err]: d \in BOOLEAN}
=============================================================================
