---------------------------- MODULE ValidatorProofs ----------------------------
(***************************************************************************)
(* The template validator's two webhooks.  It judges every VM by its rules  *)
(* as the reference definitions of VmAdmission say, for all lists of rules, *)
(* VMs and templates.  Its cache of VMs (VmCache) is exact, and what it     *)
(* answers when a template is deleted is right, for any VMs and templates,  *)
(* any number of changes, broken watches and restarts.                      *)
(*                                                                          *)
(* Its TLS settings (TlsProfile): at rest it serves what its directories    *)
(* hold, and a handshake with the operator's metrics server, which makes a  *)
(* tls.Config of its own, uses one profile; for any profiles, ciphers and   *)
(* handshakes, any number of changes and failures of the watch.             *)
(***************************************************************************)
EXTENDS VmAdmission, VmCache, TlsProfile, TLAPS

\* The object that the rules are evaluated on
Evaluated(vm) == Object(setDefaultValues(vm))

Cores(vm) == IF vm.cpu = None THEN 0 ELSE IF vm.cpu.cores = 0 THEN 1 ELSE vm.cpu.cores

-----------------------------------------------------------------------------
(* What paths lead to *)

\* setDefaultValues sets the cores of a CPU that has none, and nothing else.
LEMMA DefaultedVm ==
    ASSUME NEW vm \in VirtualMachine
    PROVE  /\ setDefaultValues(vm).disks = vm.disks
           /\ setDefaultValues(vm).cpu = None <=> vm.cpu = None
           /\ vm.cpu # None => setDefaultValues(vm).cpu.cores = Cores(vm)
           /\ Cores(vm) \in Nat
<1>1. vm.cpu = None \/ vm.cpu \in [cores: Nat]
  BY Zenon DEF VirtualMachine
<1>2. CASE vm.cpu = None
  BY <1>2, Zenon DEF setDefaultValues, Cores
<1>3. CASE vm.cpu # None /\ vm.cpu.cores # 0
  BY <1>1, <1>3, Zenon DEF setDefaultValues, Cores
<1>4. CASE vm.cpu # None /\ vm.cpu.cores = 0
  <2>1. setDefaultValues(vm) = [vm EXCEPT !.cpu = [vm.cpu EXCEPT !.cores = 1]]
    BY <1>4, Zenon DEF setDefaultValues
  <2>2. [vm.cpu EXCEPT !.cores = 1] \in [cores: Nat]
    BY <1>1, <1>4, Zenon
  <2>3. setDefaultValues(vm).cpu = [vm.cpu EXCEPT !.cores = 1] /\ setDefaultValues(vm).disks = vm.disks
    BY <2>1, Zenon DEF VirtualMachine
  <2> QED
    BY <1>1, <1>4, <2>2, <2>3, NoneAssumption, Zenon DEF Cores
<1> QED
  BY <1>2, <1>3, <1>4, Zenon

\* A path finds the cores, also without a CPU; the disks; or nothing.
LEMMA PathsFound ==
    ASSUME NEW vm \in VirtualMachine
    PROVE  /\ findPathOnVmOrRef("cores", Evaluated(vm)) = <<Number(Cores(vm))>>
           /\ findPathOnVmOrRef("disks", Evaluated(vm)) = [i \in DOMAIN vm.disks |-> String(vm.disks[i])]
           /\ findPathOnVmOrRef("cores", Evaluated(vm)) # Err
           /\ findPathOnVmOrRef("disks", Evaluated(vm)) # Err
           /\ findPathOnVmOrRef("bogus", Evaluated(vm)) = Err
           /\ Evaluated(vm).cores # Err <=> vm.cpu # None
           /\ Evaluated(vm).disks = [i \in DOMAIN vm.disks |-> String(vm.disks[i])]
           /\ Evaluated(vm).bogus = Err
<1> DEFINE disks == [i \in DOMAIN vm.disks |-> String(vm.disks[i])]
<1>1. <<Number(Cores(vm))>> \in Seq(Value) /\ disks \in Seq(Value)
  <2>1. Cores(vm) \in Int /\ Number(Cores(vm)) \in Value
    BY DefaultedVm DEF Number, Value
  <2>2. vm.disks \in Seq(Texts)
    BY Zenon DEF VirtualMachine
  <2>3. \A i \in 1..Len(vm.disks): String(vm.disks[i]) \in Value
    BY <2>2 DEF String, Value
  <2> QED
    BY <2>1, <2>2, <2>3
<1>2. <<Number(Cores(vm))>> # Err /\ disks # Err
  BY <1>1, ErrAssumption, Zenon
<1>3. /\ Evaluated(vm).cores = IF vm.cpu = None THEN Err ELSE <<Number(Cores(vm))>>
      /\ Evaluated(vm).disks = disks
      /\ Evaluated(vm).bogus = Err
  BY DefaultedVm, Zenon DEF Evaluated, Object
<1>4. vm.cpu = None => Number(Cores(vm)) = [kind |-> "int", val |-> 0]
  BY Zenon DEF Number, Cores
<1>5. /\ findPathOnVmOrRef("cores", Evaluated(vm)) = <<Number(Cores(vm))>>
      /\ findPathOnVmOrRef("bogus", Evaluated(vm)) = Err
  BY <1>2, <1>3, <1>4, RefVmAssumption, Zenon DEF findPathOnVmOrRef
<1>6. findPathOnVmOrRef("disks", Evaluated(vm)) = disks
  BY <1>2, <1>3, Zenon DEF findPathOnVmOrRef
<1> QED
  BY <1>2, <1>3, <1>5, <1>6, Zenon

\* decodeInts fails for every path but the one to the cores, unless there are no disks.
LEMMA DecodedInts ==
    ASSUME NEW vm \in VirtualMachine
    PROVE  /\ decodeInts("cores", Evaluated(vm)) = <<Cores(vm)>>
           /\ decodeInts("disks", Evaluated(vm)) = IF vm.disks = <<>> THEN <<>> ELSE Err
           /\ decodeInts("bogus", Evaluated(vm)) = Err
<1>1. decodeInts("cores", Evaluated(vm)) = <<Cores(vm)>>
  <2>0. \A i \in DOMAIN <<Number(Cores(vm))>>: <<Number(Cores(vm))>>[i].kind = "int"
    BY DEF Number
  <2>1. decodeInts("cores", Evaluated(vm)) = [i \in DOMAIN <<Number(Cores(vm))>> |-> <<Number(Cores(vm))>>[i].val]
    BY <2>0, PathsFound, Zenon DEF decodeInts
  <2> QED
    BY <2>1 DEF Number
<1>2. decodeInts("disks", Evaluated(vm)) = IF vm.disks = <<>> THEN <<>> ELSE Err
  <2> DEFINE disks == [i \in DOMAIN vm.disks |-> String(vm.disks[i])]
  <2>1. vm.disks \in Seq(Texts)
    BY Zenon DEF VirtualMachine
  <2>2. DOMAIN disks = 1..Len(vm.disks) /\ \A i \in DOMAIN disks: disks[i].kind = "str"
    BY <2>1 DEF String
  <2>3. findPathOnVmOrRef("disks", Evaluated(vm)) = disks /\ disks # Err
    BY PathsFound, Zenon
  <2>4. CASE vm.disks = <<>>
    BY <2>2, <2>3, <2>4 DEF decodeInts
  <2>5. CASE vm.disks # <<>>
    <3>1. 1 \in DOMAIN disks
      BY <2>1, <2>2, <2>5
    <3> QED
      BY <2>2, <2>3, <2>5, <3>1, Zenon DEF decodeInts
  <2> QED
    BY <2>4, <2>5, Zenon
<1>3. decodeInts("bogus", Evaluated(vm)) = Err
  BY PathsFound, Zenon DEF decodeInts
<1> QED
  BY <1>1, <1>2, <1>3, Zenon

\* decodeStrings never fails on a value: a number prints as something opaque.
LEMMA DecodedStrings ==
    ASSUME NEW vm \in VirtualMachine
    PROVE  /\ decodeStrings("cores", Evaluated(vm)) = <<Opaque>>
           /\ decodeStrings("disks", Evaluated(vm)) = vm.disks
           /\ decodeStrings("bogus", Evaluated(vm)) = Err
<1>1. decodeStrings("cores", Evaluated(vm)) = <<Opaque>>
  <2>1. decodeStrings("cores", Evaluated(vm)) =
            [i \in DOMAIN <<Number(Cores(vm))>> |->
                IF <<Number(Cores(vm))>>[i].kind = "str" THEN <<Number(Cores(vm))>>[i].val ELSE Opaque]
    BY PathsFound, Zenon DEF decodeStrings
  <2> QED
    BY <2>1 DEF Number
<1>2. decodeStrings("disks", Evaluated(vm)) = vm.disks
  <2> DEFINE disks == [i \in DOMAIN vm.disks |-> String(vm.disks[i])]
  <2>1. vm.disks \in Seq(Texts)
    BY Zenon DEF VirtualMachine
  <2>2. decodeStrings("disks", Evaluated(vm)) =
            [i \in DOMAIN disks |-> IF disks[i].kind = "str" THEN disks[i].val ELSE Opaque]
    BY PathsFound, Zenon DEF decodeStrings
  <2>3. \A i \in DOMAIN vm.disks: disks[i].kind = "str" /\ disks[i].val = vm.disks[i]
    BY Zenon DEF String
  <2>4. decodeStrings("disks", Evaluated(vm)) = [i \in DOMAIN vm.disks |-> vm.disks[i]]
    BY <2>2, <2>3, Zenon
  <2> QED
    BY <2>1, <2>4
<1>3. decodeStrings("bogus", Evaluated(vm)) = Err
  BY PathsFound, Zenon DEF decodeStrings
<1> QED
  BY <1>1, <1>2, <1>3, Zenon

-----------------------------------------------------------------------------
(* Arguments of rules *)

\* A bound can be decoded when it is a number or the path to the cores.
LEMMA Bounds ==
    ASSUME NEW vm \in VirtualMachine, NEW arg \in Argument(Int) \cup {None}
    PROVE  LET bound == Bound(arg, Evaluated(vm)) IN
           /\ arg = None => bound = None
           /\ (arg # None /\ arg.path \notin {None, "cores"}) => bound = Err
           /\ (arg # None /\ arg.path \in {None, "cores"}) => bound \in Int /\ Limits(arg, vm) = {bound}
<1>1. CASE arg = None
  BY <1>1, Zenon DEF Bound
<1>2. CASE arg # None
  <2>1. Bound(arg, Evaluated(vm)) = decodeInt(arg, Evaluated(vm))
    BY <1>2, Zenon DEF Bound
  <2>2. arg \in [path: {None}, lit: Int] \/ arg \in [path: Paths, lit: {0}]
    BY <1>2, Zenon DEF Argument
  <2>3. Cores(vm) \in Nat
    BY DefaultedVm, Zenon
  <2>4. CASE arg.path = None
    <3>1. arg.lit \in Int
      BY <2>2, <2>4
    <3> QED
      BY <1>2, <2>1, <2>4, <3>1, Zenon DEF decodeInt, Limits
  <2>5. CASE arg.path # None /\ arg.path = "cores"
    <3>1. Single(<<Cores(vm)>>) = Cores(vm)
      <4>1. <<Cores(vm)>> \in Seq(Int)
        BY <2>3
      <4> QED
        BY <2>3, <4>1, ErrAssumption, Zenon DEF Single
    <3>2. Limits(arg, vm) = {Cores(vm)}
      BY <2>5, Zenon DEF Limits, Subject, Cores
    <3> QED
      BY <1>2, <2>1, <2>3, <2>5, <3>1, <3>2, DecodedInts DEF decodeInt
  <2>6. CASE arg.path # None /\ arg.path # "cores"
    <3>1. arg.path \in {"disks", "bogus"}
      BY <2>2, <2>6, Zenon DEF Paths
    <3>2. Single(<<>>) = Err /\ Single(Err) = Err
      BY DEF Single
    <3> QED
      BY <1>2, <2>1, <2>6, <3>1, <3>2, DecodedInts, Zenon DEF decodeInt
  <2> QED
    BY <2>4, <2>5, <2>6, Zenon
<1> QED
  BY <1>1, <1>2, Zenon

\* A value of an enum can be decoded when it is a string or the path to one value.
LEMMA EnumValues ==
    ASSUME NEW vm \in VirtualMachine, NEW arg \in Argument(Texts)
    PROVE  LET value == decodeString(arg, Evaluated(vm)) IN
           /\ ~Resolves(arg, vm) => value = Err
           /\ Resolves(arg, vm) => value # Err /\ value = Text(arg, vm)
<1>1. arg \in [path: {None}, lit: Texts] \/ arg \in [path: Paths, lit: {0}]
  BY Zenon DEF Argument
<1>2. vm.disks \in Seq(Texts) /\ vm.disks # Err
  BY ErrAssumption, Zenon DEF VirtualMachine
<1>3. CASE arg.path = None
  <2>1. arg.lit \in Texts
    BY <1>1, <1>3, NoneAssumption, Zenon
  <2> QED
    BY <1>3, <2>1, ErrAssumption, Zenon DEF decodeString, Resolves, Text
<1>4. CASE arg.path # None /\ arg.path = "cores"
  <2>1. <<Opaque>> \in Seq(Texts)
    BY LengthAssumption
  <2>2. Single(<<Opaque>>) = Opaque
    BY <2>1, ErrAssumption, Zenon DEF Single
  <2> QED
    BY <1>4, <2>2, DecodedStrings, LengthAssumption, ErrAssumption, Zenon DEF decodeString, Resolves, Text
<1>5. CASE arg.path # None /\ arg.path = "disks"
  <2>1. decodeString(arg, Evaluated(vm)) = Single(vm.disks)
    BY <1>5, DecodedStrings, Zenon DEF decodeString
  <2>2. Resolves(arg, vm) <=> Len(vm.disks) = 1
    BY <1>5, Zenon DEF Resolves
  <2>3. CASE Len(vm.disks) = 1
    <3>1. vm.disks[1] \in Texts
      BY <1>2, <2>3
    <3> QED
      BY <1>2, <1>5, <2>1, <2>2, <2>3, <3>1, ErrAssumption, Zenon DEF Text, Single
  <2>4. CASE Len(vm.disks) # 1
    BY <1>5, <2>1, <2>2, <2>4, Zenon DEF Single
  <2> QED
    BY <2>3, <2>4, Zenon
<1>6. CASE arg.path # None /\ arg.path = "bogus"
  BY <1>6, DecodedStrings, Zenon DEF decodeString, Resolves, Single
<1> QED
  BY <1>1, <1>3, <1>4, <1>5, <1>6, Zenon DEF Paths

-----------------------------------------------------------------------------
(* Rules *)

\* The last part of Apply, for values of the kind that the rule expects
LEMMA JudgedValues ==
    ASSUME NEW vals, NEW Good
    PROVE  /\ vals = Err \/ vals = <<>> => Judged(vals, Good) = "error"
           /\ vals # Err /\ vals # <<>> =>
                /\ Judged(vals, Good) \in {"satisfied", "unsatisfied"}
                /\ Judged(vals, Good) = "satisfied" <=> \A i \in DOMAIN vals: vals[i] \in Good
BY Zenon DEF Judged

\* A range can be decoded when each of its bounds is a number or the path to the
\* cores, and includes the numbers between them.
LEMMA Ranges ==
    ASSUME NEW vm \in VirtualMachine, NEW rule \in Rule
    PROVE  /\ ~DecodeFails(rule, Evaluated(vm)) <=>
                  \A arg \in {rule.min, rule.max} \ {None}: arg.path \in {None, "cores"}
           /\ ~DecodeFails(rule, Evaluated(vm)) =>
                  \A n \in Int: n \in Numbers(rule, Evaluated(vm)) <=> Within(rule, vm, n)
<1> DEFINE min == Bound(rule.min, Evaluated(vm))
           max == Bound(rule.max, Evaluated(vm))
           Decodes(arg) == arg = None \/ arg.path \in {None, "cores"}
<1>1. rule.min \in Argument(Int) \cup {None} /\ rule.max \in Argument(Int) \cup {None}
  BY Zenon DEF Rule
<1>2. None # Err /\ None \notin Int /\ Err \notin Int
  BY NoneAssumption, ErrAssumption, Zenon
<1>3. /\ rule.min = None => min = None
      /\ ~Decodes(rule.min) => min = Err
      /\ (rule.min # None /\ Decodes(rule.min)) => min \in Int /\ Limits(rule.min, vm) = {min}
  BY <1>1, Bounds, Zenon
<1>4. /\ rule.max = None => max = None
      /\ ~Decodes(rule.max) => max = Err
      /\ (rule.max # None /\ Decodes(rule.max)) => max \in Int /\ Limits(rule.max, vm) = {max}
  BY <1>1, Bounds, Zenon
<1>5. DecodeFails(rule, Evaluated(vm)) <=> min = Err \/ max = Err
  BY Zenon DEF DecodeFails
<1>6. \A n \in Int: n \in Numbers(rule, Evaluated(vm)) <=> Includes(min, max, n)
  BY Zenon DEF Numbers
<1>7. ~DecodeFails(rule, Evaluated(vm)) <=> Decodes(rule.min) /\ Decodes(rule.max)
  <2> HIDE DEF min, max
  <2> QED
    BY <1>2, <1>3, <1>4, <1>5, Zenon
<1>8. ASSUME Decodes(rule.min), Decodes(rule.max), NEW n \in Int
      PROVE  Includes(min, max, n) <=> Within(rule, vm, n)
  <2> HIDE DEF min, max
  <2>1. (min # None => n >= min) <=> (rule.min # None => \A m \in Limits(rule.min, vm): n >= m)
    BY <1>2, <1>3, <1>8, Zenon
  <2>2. (max # None => n <= max) <=> (rule.max # None => \A m \in Limits(rule.max, vm): n <= m)
    BY <1>2, <1>4, <1>8, Zenon
  <2> QED
    BY <2>1, <2>2, Zenon DEF Includes, Within
<1> QED
  BY <1>6, <1>7, <1>8, Zenon

\* Rules of a known type fail exactly when something that they refer to is not there
\* or not of their type, and otherwise are satisfied as the reference says.
RuleJudged(rule, vm, report) ==
    /\ ~Evaluable(rule, vm) => report = "error"
    /\ Evaluable(rule, vm) => /\ report \in {"satisfied", "unsatisfied"}
                              /\ report = "satisfied" <=> Satisfied(rule, vm)

\* The texts that a rule looks at are those that the path finds.
LEMMA PrintedTexts ==
    ASSUME NEW vm \in VirtualMachine, NEW path \in Paths, NEW Good
    PROVE  LET vals == decodeStrings(path, Evaluated(vm)) IN
           /\ vals = Err \/ vals = <<>> <=> Subject(path, vm) = {}
           /\ Subject(path, vm) # {} =>
                 ((\A i \in DOMAIN vals: vals[i] \in Good) <=> (\A s \in Printed(path, vm): s \in Good))
           /\ Subject(path, vm) # {} => Printed(path, vm) \subseteq Texts
<1>1. vm.disks \in Seq(Texts) /\ vm.disks # Err
  BY ErrAssumption, Zenon DEF VirtualMachine
<1>2. CASE path = "cores"
  <2>1. <<Opaque>> \in Seq(Texts) /\ <<Opaque>> # <<>>
    BY LengthAssumption
  <2>2. <<Opaque>> # Err
    BY <2>1, ErrAssumption, Zenon
  <2>3. Subject(path, vm) # {} /\ Printed(path, vm) = {Opaque}
    BY <1>2, Zenon DEF Subject, Printed
  <2> QED
    BY <1>2, <2>1, <2>2, <2>3, DecodedStrings, LengthAssumption
<1>3. CASE path = "disks"
  <2>1. Subject(path, vm) = {vm.disks[i]: i \in DOMAIN vm.disks} /\ Printed(path, vm) = Subject(path, vm)
    BY <1>3, Zenon DEF Subject, Printed
  <2>2. vm.disks = <<>> <=> Subject(path, vm) = {}
    <3>2. vm.disks # <<>> => vm.disks[1] \in Subject(path, vm)
      <4>1. vm.disks # <<>> => 1 \in DOMAIN vm.disks
        BY <1>1
      <4> QED
        BY <2>1, <4>1, Zenon
    <3>3. vm.disks = <<>> => Subject(path, vm) = {}
      BY <2>1
    <3> QED
      BY <3>2, <3>3, Zenon
  <2>3. Subject(path, vm) \subseteq Texts
    BY <1>1, <2>1
  <2> QED
    BY <1>1, <1>3, <2>1, <2>2, <2>3, DecodedStrings
<1>4. CASE path = "bogus"
  BY <1>4, DecodedStrings, Zenon DEF Subject
<1> QED
  BY <1>2, <1>3, <1>4, Zenon DEF Paths

\* The four kinds of rules: intRule, stringRule, enumRule and regexRule.
LEMMA KindsJudged ==
    ASSUME NEW vm \in VirtualMachine, NEW rule \in Rule, rule.rule \in RuleTypes
    PROVE  RuleJudged(rule, vm, Apply(rule, Evaluated(vm)))
<1> DEFINE texts == decodeStrings(rule.path, Evaluated(vm))
<1>1. rule.path \in Paths
  BY Zenon DEF Rule
<1>2. texts = Err \/ texts = <<>> <=> Subject(rule.path, vm) = {}
  BY <1>1, PrintedTexts, Zenon
<1>3. ASSUME NEW Good, Subject(rule.path, vm) # {}
      PROVE  (\A i \in DOMAIN texts: texts[i] \in Good) <=> (\A s \in Printed(rule.path, vm): s \in Good)
  BY <1>1, <1>3, PrintedTexts, Zenon
<1>4. Subject(rule.path, vm) # {} => Printed(rule.path, vm) \subseteq Texts
  BY <1>1, PrintedTexts, Zenon
<1>5. CASE rule.rule = "integer"
  <2>1. Apply(rule, Evaluated(vm)) = intRule(rule, Evaluated(vm))
    BY <1>5, Zenon DEF Apply
  <2>2. CASE DecodeFails(rule, Evaluated(vm))
    <3>1. ~Evaluable(rule, vm)
      BY <1>5, <2>2, Ranges, Zenon DEF Evaluable
    <3> QED
      BY <2>1, <2>2, <3>1, Zenon DEF intRule, RuleJudged
  <2>3. CASE ~DecodeFails(rule, Evaluated(vm)) /\ rule.path # "cores"
    <3>1. ~Evaluable(rule, vm)
      BY <1>5, <2>3, Zenon DEF Evaluable
    <3>2. decodeInts(rule.path, Evaluated(vm)) \in {<<>>, Err}
      BY <1>1, <2>3, DecodedInts, Zenon DEF Paths
    <3> QED
      BY <2>1, <2>3, <3>1, <3>2, JudgedValues, Zenon DEF intRule, RuleJudged
  <2>4. CASE ~DecodeFails(rule, Evaluated(vm)) /\ rule.path = "cores"
    <3>1. Subject(rule.path, vm) = {Cores(vm)} /\ Cores(vm) \in Nat
      BY <2>4, DefaultedVm, Zenon DEF Subject, Cores
    <3>2. Evaluable(rule, vm)
      BY <1>5, <2>4, <3>1, Ranges, Zenon DEF Evaluable
    <3>3. Satisfied(rule, vm) <=> Cores(vm) \in Numbers(rule, Evaluated(vm))
      BY <1>5, <2>4, <3>1, Ranges DEF Satisfied
    <3>4. decodeInts(rule.path, Evaluated(vm)) = <<Cores(vm)>>
      BY <2>4, DecodedInts, Zenon
    <3>5. <<Cores(vm)>> # Err /\ <<Cores(vm)>> # <<>>
      <4>1. <<Cores(vm)>> \in Seq(Int)
        BY <3>1
      <4> QED
        BY <4>1, ErrAssumption, Zenon
    <3>6. (\A i \in DOMAIN <<Cores(vm)>>: <<Cores(vm)>>[i] \in Numbers(rule, Evaluated(vm)))
             <=> Cores(vm) \in Numbers(rule, Evaluated(vm))
      OBVIOUS
    <3>7. intRule(rule, Evaluated(vm)) = Judged(<<Cores(vm)>>, Numbers(rule, Evaluated(vm)))
      BY <2>4, <3>4, Zenon DEF intRule
    <3> QED
      BY <2>1, <3>2, <3>3, <3>5, <3>6, <3>7, JudgedValues DEF RuleJudged
  <2> QED
    BY <2>2, <2>3, <2>4, Zenon
<1>6. CASE rule.rule = "string"
  <2>1. Apply(rule, Evaluated(vm)) = stringRule(rule, Evaluated(vm))
    BY <1>6, Zenon DEF Apply
  <2>2. Evaluable(rule, vm) <=> Subject(rule.path, vm) # {} /\ ~DecodeFails(rule, Evaluated(vm))
    BY <1>6, Ranges, Zenon DEF Evaluable
  <2>3. CASE DecodeFails(rule, Evaluated(vm))
    BY <2>1, <2>2, <2>3, Zenon DEF stringRule, RuleJudged
  <2>4. CASE ~DecodeFails(rule, Evaluated(vm))
    <3>1. stringRule(rule, Evaluated(vm)) = Judged(texts, Strings(rule, Evaluated(vm)))
      BY <2>4, Zenon DEF stringRule
    <3>2. ASSUME NEW s \in Texts
          PROVE  s \in Strings(rule, Evaluated(vm)) <=> Within(rule, vm, Length[s])
      <4>1. Length[s] \in Int
        BY LengthAssumption
      <4> QED
        BY <2>4, <4>1, Ranges, Zenon DEF Strings, Texts
    <3>3. Subject(rule.path, vm) # {} =>
             (Satisfied(rule, vm) <=> \A s \in Printed(rule.path, vm): s \in Strings(rule, Evaluated(vm)))
      BY <1>4, <1>6, <3>2, Zenon DEF Satisfied
    <3> HIDE DEF texts
    <3> QED
      BY <1>2, <1>3, <2>1, <2>2, <2>4, <3>1, <3>3, JudgedValues, Zenon DEF RuleJudged
  <2> QED
    BY <2>3, <2>4, Zenon
<1>7. CASE rule.rule = "enum"
  <2> DEFINE values == {decodeString(rule.values[i], Evaluated(vm)): i \in DOMAIN rule.values}
  <2>1. Apply(rule, Evaluated(vm)) = IF Err \in values THEN "error" ELSE Judged(texts, values)
    BY <1>7, Zenon DEF Apply, enumRule
  <2>2. \A i \in DOMAIN rule.values: rule.values[i] \in Argument(Texts)
    BY DEF Rule
  <2>3. Err \in values <=> \E i \in DOMAIN rule.values: ~Resolves(rule.values[i], vm)
    BY <2>2, EnumValues, Zenon
  <2>4. Evaluable(rule, vm) <=> Subject(rule.path, vm) # {} /\ Err \notin values
    BY <1>7, <2>3, Zenon DEF Evaluable
  <2>5. Err \notin values => \A s : s \in values <=> \E i \in DOMAIN rule.values: s = Text(rule.values[i], vm)
    BY <2>2, <2>3, EnumValues, Zenon
  <2>6. Err \notin values => (Satisfied(rule, vm) <=> \A s \in Printed(rule.path, vm): s \in values)
    BY <1>7, <2>5, Zenon DEF Satisfied
  <2> HIDE DEF texts, values
  <2> QED
    BY <1>2, <1>3, <2>1, <2>4, <2>6, JudgedValues, Zenon DEF RuleJudged
<1>8. CASE rule.rule = "regex"
  <2>1. Apply(rule, Evaluated(vm)) = IF ~rule.compiles THEN "error" ELSE Judged(texts, rule.regex)
    BY <1>8, Zenon DEF Apply, regexRule
  <2>2. Evaluable(rule, vm) <=> Subject(rule.path, vm) # {} /\ rule.compiles
    BY <1>8, Zenon DEF Evaluable
  <2>3. Satisfied(rule, vm) <=> \A s \in Printed(rule.path, vm): s \in rule.regex
    BY <1>8, Zenon DEF Satisfied
  <2> HIDE DEF texts
  <2> QED
    BY <1>2, <1>3, <2>1, <2>2, <2>3, JudgedValues, Zenon DEF RuleJudged
<1> QED
  BY <1>5, <1>6, <1>7, <1>8, Zenon DEF RuleTypes

-----------------------------------------------------------------------------
(* Lists of rules *)

\* A condition of a rule is looked up on the VM itself.
LEMMA Conditions ==
    ASSUME NEW vm \in VirtualMachine, NEW rule \in Rule
    PROVE  IsAppliableOn(rule, Evaluated(vm)) <=> Applicable(rule, vm)
<1> DEFINE disks == [i \in DOMAIN vm.disks |-> String(vm.disks[i])]
<1>1. rule.valid = None \/ rule.valid \in Paths
  BY Zenon DEF Rule
<1>2. /\ Evaluated(vm).cores # Err <=> vm.cpu # None
      /\ Evaluated(vm).disks = disks /\ Evaluated(vm).bogus = Err
      /\ disks # Err
  BY PathsFound, Zenon
<1>3. vm.cpu # None => Evaluated(vm).cores # <<>>
  <2>1. vm.cpu # None => Evaluated(vm).cores = <<Number(Cores(vm))>>
    BY PathsFound, Zenon DEF findPathOnVmOrRef
  <2> QED
    BY <2>1
<1>4. disks # <<>> <=> vm.disks # <<>>
  <2>1. vm.disks \in Seq(Texts)
    BY Zenon DEF VirtualMachine
  <2>2. DOMAIN disks = DOMAIN vm.disks
    BY Zenon
  <2>3. vm.disks # <<>> => 1 \in DOMAIN vm.disks
    BY <2>1
  <2>4. vm.disks = <<>> => disks = <<>>
    OBVIOUS
  <2> QED
    BY <2>2, <2>3, <2>4
<1> HIDE DEF disks
<1>5. CASE rule.valid = None
  BY <1>5, Zenon DEF IsAppliableOn, Applicable
<1>6. CASE rule.valid # None /\ rule.valid = "cores"
  BY <1>2, <1>3, <1>6, Zenon DEF IsAppliableOn, Applicable
<1>7. CASE rule.valid # None /\ rule.valid = "disks"
  BY <1>2, <1>4, <1>7, Zenon DEF IsAppliableOn, Applicable
<1>8. CASE rule.valid # None /\ rule.valid = "bogus"
  BY <1>2, <1>8, Zenon DEF IsAppliableOn, Applicable
<1> QED
  BY <1>1, <1>5, <1>6, <1>7, <1>8, Zenon DEF Paths

\* Evaluate reports an error for the rules that are broken, and no others, and finds
\* unsatisfied those that are: each rule is judged whatever the others are.
LEMMA Reports ==
    ASSUME NEW vm \in VirtualMachine, NEW rules \in Seq(Rule), NEW i \in DOMAIN rules
    PROVE  LET report == Report(rules[i], UniqueNames(rules, i), Evaluated(vm)) IN
           /\ report = "error" <=> Broken(rules, i, vm)
           /\ report = "unsatisfied" <=> Unsatisfied(rules, i, vm)
<1> DEFINE report == Report(rules[i], UniqueNames(rules, i), Evaluated(vm))
           applied == Apply(rules[i], Evaluated(vm))
<1>1. rules[i] \in Rule
  OBVIOUS
<1>2. WellFormed(rules, i) <=> rules[i].name \notin UniqueNames(rules, i) /\ validateRule(rules[i])
  BY Zenon DEF WellFormed, UniqueNames, validateRule
<1>3. IsAppliableOn(rules[i], Evaluated(vm)) <=> Applicable(rules[i], vm)
  BY <1>1, Conditions, Zenon
<1>4. report = IF ~WellFormed(rules, i) THEN "error"
               ELSE IF ~Applicable(rules[i], vm) THEN "skipped" ELSE applied
  BY <1>2, <1>3, Zenon DEF Report
<1>5. WellFormed(rules, i) => RuleJudged(rules[i], vm, applied)
  BY <1>1, KindsJudged, Zenon DEF WellFormed
<1> HIDE DEF report, applied
<1>6. /\ report = "error" <=> Broken(rules, i, vm)
      /\ report = "unsatisfied" <=> Unsatisfied(rules, i, vm)
  BY <1>4, <1>5, Zenon DEF Broken, Unsatisfied, RuleJudged
<1> QED
  BY <1>6, Zenon DEF report

\* The causes are the rules that are broken or not satisfied, unless all of them
\* are satisfied or warnings.
LEMMA Causes ==
    ASSUME NEW vm \in VirtualMachine, NEW rules \in Seq(Rule)
    PROVE  /\ ValidateVm(rules, vm) = {} <=>
                  \A i \in DOMAIN rules: /\ ~Broken(rules, i, vm)
                                         /\ Unsatisfied(rules, i, vm) => rules[i].justWarning
           /\ ValidateVm(rules, vm) # {} =>
                  ValidateVm(rules, vm) =
                      {i \in DOMAIN rules: Broken(rules, i, vm) \/ Unsatisfied(rules, i, vm)}
<1> DEFINE status == [i \in DOMAIN rules |-> Report(rules[i], UniqueNames(rules, i), Evaluated(vm))]
           failed == \E i \in DOMAIN rules: Fails(rules[i], status[i])
           rejected == \E i \in DOMAIN rules: \/ Broken(rules, i, vm)
                                              \/ Unsatisfied(rules, i, vm) /\ ~rules[i].justWarning
           named == {i \in DOMAIN rules: Broken(rules, i, vm) \/ Unsatisfied(rules, i, vm)}
<1>1. ASSUME NEW i \in DOMAIN rules
      PROVE  /\ status[i] = "error" <=> Broken(rules, i, vm)
             /\ status[i] = "unsatisfied" <=> Unsatisfied(rules, i, vm)
  BY Reports, Zenon
<1>2. failed <=> rejected
  BY <1>1, Zenon DEF Fails
<1>3. {i \in DOMAIN status: failed /\ needsCause(status[i])} = IF rejected THEN named ELSE {}
  <2>1. \A i \in DOMAIN rules: needsCause(status[i]) <=> i \in named
    BY <1>1, Zenon DEF needsCause
  <2>2. DOMAIN status = DOMAIN rules
    BY Zenon
  <2> HIDE DEF status
  <2> QED
    BY <1>2, <2>1, <2>2, Zenon
<1>4. /\ Evaluate(rules, Evaluated(vm)).status = status
      /\ Evaluate(rules, Evaluated(vm)).failed <=> failed
  BY Zenon DEF Evaluate
<1>5. ToStatusCauses(Evaluate(rules, Evaluated(vm))) = {i \in DOMAIN status: failed /\ needsCause(status[i])}
  <2> HIDE DEF failed, status
  <2> QED
    BY <1>4, Zenon DEF ToStatusCauses
<1>6. rules = <<>> => ~rejected
  OBVIOUS
<1>7. ValidateVm(rules, vm) = IF rejected THEN named ELSE {}
  <2> HIDE DEF failed, status, rejected, named
  <2> QED
    BY <1>3, <1>5, <1>6, Zenon DEF ValidateVm, Evaluated
<1>8. rejected => named # {}
  BY Zenon
<1>9. ~rejected <=> \A i \in DOMAIN rules: /\ ~Broken(rules, i, vm)
                                           /\ Unsatisfied(rules, i, vm) => rules[i].justWarning
  BY Zenon
<1>10. /\ ValidateVm(rules, vm) = {} <=> ~rejected
       /\ ValidateVm(rules, vm) # {} => ValidateVm(rules, vm) = named
  <2> HIDE DEF rejected, named
  <2> QED
    BY <1>7, <1>8, Zenon
<1> QED
  BY <1>9, <1>10, Zenon

-----------------------------------------------------------------------------
(* The webhook *)

\* Templates have rules or an annotation that does not parse, and an answer is what
\* ValidateVm says of the VM and its rules.
Inv ==
    /\ store \in [Templates -> Seq(Rule) \cup {Err, None}]
    /\ request # None =>
          /\ request.vm \in VirtualMachine
          /\ request.vm.deleting => request.allowed
          /\ ~request.vm.deleting /\ request.rules # Err =>
                /\ request.rules \in Seq(Rule)
                /\ request.causes = ValidateVm(request.rules, request.vm)
                /\ request.allowed <=> request.causes = {}

\* A VM is held to a list of rules, or its rules do not parse.
LEMMA RulesOfVm ==
    ASSUME store \in [Templates -> Seq(Rule) \cup {Err, None}], NEW vm \in VirtualMachine
    PROVE  getValidationRulesForVM(vm) \in Seq(Rule) \cup {Err}
<1>1. <<>> \in Seq(Rule)
  OBVIOUS
<1>2. ASSUME NEW data \in Seq(Rule) \cup {Err, None}
      PROVE  ParseRules(data) \in Seq(Rule) \cup {Err}
  BY <1>1, <1>2, Zenon DEF ParseRules
<1>3. vm.validations \in Seq(Rule) \cup {Err, None}
  BY Zenon DEF VirtualMachine
<1>4. getParentTemplateForVM(vm) \in Seq(Rule) \cup {Err, None}
  BY Zenon DEF getParentTemplateForVM
<1> QED
  BY <1>1, <1>2, <1>3, <1>4, Zenon DEF getValidationRulesForVM

\* Inv is inductive: admitVm answers with what ValidateVm says.
THEOREM AnswersRecorded == Spec => []Inv
<1>1. Init => Inv
  BY Zenon DEF Init, Inv
<1>2. ASSUME Inv, [Next]_vars
      PROVE  Inv'
  <2>1. ASSUME NEW vm \in Vms, admitVm(vm)
        PROVE  Inv'
    <3> DEFINE rules == getValidationRulesForVM(vm)
    <3>1. vm \in VirtualMachine
      BY InputsAssumption, Zenon
    <3>2. rules \in Seq(Rule) \cup {Err}
      BY <1>2, <3>1, RulesOfVm, Zenon DEF Inv
    <3>3. store' = store
      BY <2>1, Zenon DEF admitVm
    <3> HIDE DEF rules
    <3>4. CASE vm.deleting /\ Answer(vm, <<>>, TRUE, {})
      BY <1>2, <3>1, <3>3, <3>4, Zenon DEF Inv, Answer
    <3>5. CASE ~vm.deleting /\ rules = Err /\ Answer(vm, Err, FALSE, {})
      BY <1>2, <3>1, <3>3, <3>5, Zenon DEF Inv, Answer
    <3>6. CASE /\ ~vm.deleting /\ rules # Err
               /\ \E causes \in {ValidateVm(rules, vm)}: Answer(vm, rules, causes = {}, causes)
      <4>1. /\ request'.vm = vm /\ request'.rules = rules
            /\ request'.causes = ValidateVm(rules, vm)
            /\ request'.allowed <=> request'.causes = {}
        <5> DEFINE causes == ValidateVm(rules, vm)
        <5>1. request' = [vm |-> vm, rules |-> rules, allowed |-> causes = {}, causes |-> causes]
          BY <3>6, Zenon DEF Answer
        <5> HIDE DEF causes
        <5>2. /\ request'.vm = vm /\ request'.rules = rules /\ request'.causes = causes
              /\ request'.allowed <=> causes = {}
          BY <5>1, Zenon
        <5> QED
          BY <5>2, Zenon DEF causes
      <4> QED
        BY <1>2, <3>1, <3>2, <3>3, <3>6, <4>1, Zenon DEF Inv
    <3> QED
      BY <2>1, <3>4, <3>5, <3>6, Zenon DEF admitVm, rules
  <2>2. CASE Respond
    BY <1>2, <2>2, Zenon DEF Inv, Respond
  <2>3. ASSUME NEW t \in Templates, Deliver(t)
        PROVE  Inv'
    <3>1. store' \in [Templates -> Seq(Rule) \cup {Err, None}]
      BY <1>2, <2>3, InputsAssumption, Zenon DEF Inv, Deliver
    <3> QED
      BY <1>2, <2>3, <3>1, Zenon DEF Inv, Deliver
  <2>4. CASE UNCHANGED vars
    BY <1>2, <2>4, Zenon DEF Inv, vars
  <2> QED
    BY <1>2, <2>1, <2>2, <2>3, <2>4, Zenon DEF Next
<1> QED
  BY <1>1, <1>2, PTL DEF Spec

\* A VM is rejected exactly when one of its rules is broken, or is not satisfied and
\* more than a warning (Evaluate, admitVm).
THEOREM RejectsExactly == Spec => []RejectedExactly
<1>1. Inv => RejectedExactly
  <2> SUFFICES ASSUME Inv, request # None, ~request.vm.deleting, request.rules # Err
               PROVE  request.allowed <=>
                          \A i \in DOMAIN request.rules:
                              /\ ~Broken(request.rules, i, request.vm)
                              /\ Unsatisfied(request.rules, i, request.vm) => request.rules[i].justWarning
    BY Zenon DEF RejectedExactly
  <2>1. /\ request.vm \in VirtualMachine /\ request.rules \in Seq(Rule)
        /\ request.allowed <=> ValidateVm(request.rules, request.vm) = {}
    BY Zenon DEF Inv
  <2> QED
    BY <2>1, Causes, Zenon
<1> QED
  BY <1>1, AnswersRecorded, PTL

\* A rejection names the rules that are broken or not satisfied, and no other
\* (ToStatusCauses).
THEOREM NamesExactCauses == Spec => []CausesExact
<1>1. Inv => CausesExact
  BY Causes, Zenon DEF Inv, CausesExact
<1> QED
  BY <1>1, AnswersRecorded, PTL

-----------------------------------------------------------------------------
(* The cache of VMs and the deletion of templates: VmCache *)

\* One change is about one VM, so one event of the watch tells all of it.
OneVmPerChange ==
    \A i \in 1..(Len(history) - 1) : \E v \in VmKeys : \A w \in VmKeys \ {v} :
        history[i + 1][w] = history[i][w]

CacheInv == CacheTypeOK /\ IndexExact /\ StoreFollows /\ OneVmPerChange

-----------------------------------------------------------------------------
\* Add, Update and Delete keep the index the inverse of the store.
LEMMA EventKeepsIndex ==
    ASSUME CacheTypeOK, IndexExact, NEW v \in VmKeys, NEW vm \in Vm,
           (Add(v, vm) /\ vmStore[v] = NoVm) \/ Update(v, vm) \/ Delete(v)
    PROVE  /\ vmStore' \in [VmKeys -> TemplateKeys \cup {NoVm}]
           /\ index' \in [TemplateKeys -> SUBSET VmKeys]
           /\ IndexExact'
  <1>0. /\ vmStore \in [VmKeys -> TemplateKeys \cup {NoVm}]
        /\ index \in [TemplateKeys -> SUBSET VmKeys]
        /\ vm.template \in TemplateKeys
    BY Zenon DEF CacheTypeOK, Vm
  <1>1. CASE Delete(v)
    BY <1>0, <1>1, NoVmAssumption DEF Delete, IndexDelete, IndexExact
  <1>2. CASE Add(v, vm) /\ vmStore[v] = NoVm
    BY <1>0, <1>2, NoVmAssumption DEF Add, IndexAdd, IndexExact
  <1>3. CASE Update(v, vm)
    <2>1. CASE ~vmNeedsTemplate(vm)
      BY <1>1, <1>3, <2>1, Zenon DEF Update
    <2>2. CASE vmNeedsTemplate(vm) /\ vmStore[v] = NoVm
      BY <1>0, <1>3, <2>2, NoVmAssumption, SMTT(20) DEF Update, IndexAdd, IndexExact
    <2>3. CASE vmNeedsTemplate(vm) /\ vmStore[v] # NoVm
      BY <1>0, <1>3, <2>3, NoVmAssumption, SMTT(20) DEF Update, IndexAdd, IndexDelete, IndexExact
    <2> QED
      BY <2>1, <2>2, <2>3, Zenon
  <1> QED
    BY <1>1, <1>2, <1>3, Zenon

\* They leave what is stored of the other VMs.
LEMMA EventKeepsOthers ==
    ASSUME CacheTypeOK, NEW v \in VmKeys, NEW vm, NEW w \in VmKeys \ {v},
           Add(v, vm) \/ Update(v, vm) \/ Delete(v)
    PROVE  vmStore'[w] = vmStore[w]
  BY Zenon DEF CacheTypeOK, Add, Update, Delete

\* A list fills both maps from one state of the cluster.
LEMMA ReplaceLemma ==
    ASSUME NEW vms \in [VmKeys -> Vm \cup {NoVm}], Replace(vms)
    PROVE  /\ vmStore' \in [VmKeys -> TemplateKeys \cup {NoVm}]
           /\ index' \in [TemplateKeys -> SUBSET VmKeys]
           /\ IndexExact'
           /\ \A v \in VmKeys : vmStore'[v] = IF vms[v] = NoVm THEN NoVm ELSE vms[v].template
  <1>1. \A v \in VmKeys : vms[v] # NoVm => vms[v].template \in TemplateKeys
    BY Zenon DEF Vm
  <1> QED
    BY <1>1, NoVmAssumption, Zenon DEF Replace, IndexExact

\* The cache of a validator that has just started is empty.
LEMMA CacheInitLemma == CacheInit => CacheInv
  <1> SUFFICES ASSUME CacheInit PROVE CacheInv
    BY Zenon
  <1>1. PICK vms \in [VmKeys -> {NoVm} \cup [template: TemplateKeys, validations: {"absent"}]] :
           history = <<vms>>
    BY Zenon DEF CacheInit
  <1>2. vms \in [VmKeys -> Vm \cup {NoVm}]
    BY Zenon DEF Vm
  <1>3. history \in Seq([VmKeys -> Vm \cup {NoVm}]) /\ Len(history) = 1
    BY <1>1, <1>2
  <1>4. CacheTypeOK
    BY <1>3, BoundsAssumption DEF CacheInit, NewVmCache, CacheTypeOK
  <1> QED
    BY <1>3, <1>4, NoVmAssumption
       DEF CacheInit, NewVmCache, CacheInv, IndexExact, StoreFollows, OneVmPerChange

-----------------------------------------------------------------------------
\* An event of the watch brings the store to the next state of the cluster.
LEMMA WatchStep == CacheInv /\ Watch => CacheInv'
  <1> SUFFICES ASSUME CacheInv, Watch PROVE CacheInv'
    BY Zenon
  <1> USE DEF CacheInv
  <1> DEFINE before == history[pos]
             after == history[pos + 1]
  <1>1. PICK v \in VmKeys :
           /\ before[v] # after[v]
           /\ CASE before[v] = NoVm -> Add(v, after[v])
                [] before[v] # NoVm /\ after[v] # NoVm -> Update(v, after[v])
                [] after[v] = NoVm -> Delete(v)
    BY Zenon DEF Watch
  <1>2. /\ pos \in 1..(Len(history) - 1) /\ Len(history) \in Nat
        /\ pos' = pos + 1 /\ UNCHANGED <<history, since, templates, faults>>
    BY DEF Watch, CacheTypeOK
  <1>3. before \in [VmKeys -> Vm \cup {NoVm}] /\ after \in [VmKeys -> Vm \cup {NoVm}]
    BY <1>2 DEF CacheTypeOK
  <1>4. \/ before[v] = NoVm /\ after[v] \in Vm /\ Add(v, after[v])
        \/ before[v] \in Vm /\ after[v] \in Vm /\ Update(v, after[v])
        \/ before[v] \in Vm /\ after[v] = NoVm /\ Delete(v)
    BY <1>1, <1>3, NoVmAssumption, Zenon
  <1>5. before[v] = NoVm => vmStore[v] = NoVm
    BY <1>2 DEF StoreFollows
  <1>6. /\ vmStore' \in [VmKeys -> TemplateKeys \cup {NoVm}]
        /\ index' \in [TemplateKeys -> SUBSET VmKeys]
        /\ IndexExact'
    <2>1. CASE after[v] \in Vm
      BY <1>4, <1>5, <2>1, EventKeepsIndex, NoVmAssumption, Zenon
    <2>2. CASE after[v] = NoVm
      <3>1. Delete(v) /\ before[v] \in Vm
        BY <1>4, <2>2, NoVmAssumption, Zenon
      <3> QED
        BY <3>1, EventKeepsIndex, Zenon
    <2> QED
      BY <1>4, <2>1, <2>2, Zenon
  <1>7. CacheTypeOK' /\ OneVmPerChange'
    BY <1>2, <1>6 DEF CacheTypeOK, OneVmPerChange
  <1>8. \A w \in VmKeys \ {v} : after[w] = before[w] /\ vmStore'[w] = vmStore[w]
    <2>1. \A w \in VmKeys \ {v} : after[w] = before[w]
      BY <1>1, <1>2, Zenon DEF OneVmPerChange
    <2> QED
      BY <1>4, <2>1, EventKeepsOthers, Zenon
  <1>9. IF after[v] = NoVm THEN vmStore'[v] = NoVm
        ELSE /\ vmNeedsTemplate(after[v]) => vmStore'[v] = after[v].template
             /\ vmStore'[v] \in {after[v].template, NoVm}
    BY <1>4, <1>5, NoVmAssumption, Zenon DEF Add, Update, Delete, CacheTypeOK
  <1>10. StoreFollows'
    <2> SUFFICES ASSUME NEW w \in VmKeys
                 PROVE  IF after[w] = NoVm THEN vmStore'[w] = NoVm
                        ELSE /\ vmNeedsTemplate(after[w]) => vmStore'[w] = after[w].template
                             /\ vmStore'[w] \in {after[w].template, NoVm}
      BY <1>2, Zenon DEF StoreFollows, vmNeedsTemplate
    <2>1. CASE w = v
      BY <1>9, <2>1, Zenon
    <2>2. CASE w # v
      BY <1>2, <1>8, <2>2 DEF StoreFollows
    <2> QED
      BY <2>1, <2>2, Zenon
  <1> QED
    BY <1>6, <1>7, <1>10, Zenon

\* Every step of the Reflector, the users and the webhook preserves the invariant.
LEMMA CacheStepLemma == CacheInv /\ [CacheNext]_cacheVars => CacheInv'
  <1> SUFFICES ASSUME CacheInv, [CacheNext]_cacheVars PROVE CacheInv'
    BY Zenon
  <1> USE DEF CacheInv
  <1>1. CASE List
    <2>1. PICK p \in 1..Len(history) : p >= pos /\ Replace(history[p]) /\ pos' = p
      BY <1>1, Zenon DEF List
    <2>2. history[p] \in [VmKeys -> Vm \cup {NoVm}]
      BY DEF CacheTypeOK
    <2>3. CacheTypeOK' /\ IndexExact' /\ OneVmPerChange'
      BY <1>1, <2>1, <2>2, ReplaceLemma, BoundsAssumption, SMTT(20)
         DEF List, CacheTypeOK, OneVmPerChange
    <2>4. StoreFollows'
      BY <1>1, <2>1, <2>2, ReplaceLemma, Zenon DEF List, StoreFollows
    <2> QED
      BY <2>3, <2>4, Zenon
  <1>2. CASE Watch
    BY <1>2, WatchStep, Zenon
  <1>3. CASE Restart
    BY <1>3, NoVmAssumption, BoundsAssumption
       DEF Restart, CacheTypeOK, IndexExact, StoreFollows, OneVmPerChange
  <1>4. ASSUME NEW v \in VmKeys, ChangeVm(v) PROVE CacheInv'
    <2>1. PICK vm \in Vm \cup {NoVm} :
             history' = Append(history, [Vmsnow EXCEPT ![v] = vm])
      BY <1>4, Zenon DEF ChangeVm
    <2>2. /\ Len(history) \in Nat /\ Len(history) >= 1
          /\ Vmsnow \in [VmKeys -> Vm \cup {NoVm}]
      BY DEF CacheTypeOK, Vmsnow
    <2>3. /\ history' \in Seq([VmKeys -> Vm \cup {NoVm}])
          /\ Len(history') = Len(history) + 1
          /\ history'[Len(history')] = [Vmsnow EXCEPT ![v] = vm]
          /\ \A i \in 1..Len(history) : history'[i] = history[i]
      BY <2>1, <2>2 DEF CacheTypeOK
    <2>4. UNCHANGED <<pos, since, vmStore, index, templates, faults>> /\ Len(history) <= MaxChanges
      BY <1>4, Zenon DEF ChangeVm
    <2>5. CacheTypeOK' /\ IndexExact'
      BY <2>2, <2>3, <2>4, BoundsAssumption DEF CacheTypeOK, IndexExact
    <2>6. pos > 0 => history'[pos] = history[pos]
      BY <2>3 DEF CacheTypeOK
    <2>7. StoreFollows'
      BY <2>4, <2>6, Zenon DEF StoreFollows
    <2>8. OneVmPerChange'
      <3> SUFFICES ASSUME NEW i \in 1..Len(history)
                   PROVE  \E u \in VmKeys : \A w \in VmKeys \ {u} : history'[i + 1][w] = history'[i][w]
        BY <2>2, <2>3 DEF OneVmPerChange
      <3>1. CASE i = Len(history)
        BY <2>2, <2>3, <3>1, Zenon DEF Vmsnow
      <3>2. CASE i # Len(history)
        <4>1. i \in 1..(Len(history) - 1) /\ i + 1 \in 1..Len(history)
          BY <2>2, <3>2, SMTT(20)
        <4> QED
          BY <2>3, <4>1 DEF OneVmPerChange
      <3> QED
        BY <3>1, <3>2, Zenon
    <2> QED
      BY <2>5, <2>7, <2>8, Zenon
  <1>5. ASSUME NEW t \in TemplateNames, DeleteTemplate(t) PROVE CacheInv'
    BY <1>5, SMTT(20) DEF DeleteTemplate, CacheTypeOK, IndexExact, StoreFollows, OneVmPerChange
  <1>6. CASE UNCHANGED cacheVars
    BY <1>6 DEF cacheVars, CacheTypeOK, IndexExact, StoreFollows, OneVmPerChange
  <1> QED
    BY <1>1, <1>2, <1>3, <1>4, <1>5, <1>6, Zenon DEF CacheNext

\* The invariant holds throughout.
LEMMA CacheInvariance == CacheSpec => []CacheInv
  BY CacheInitLemma, CacheStepLemma, PTL DEF CacheSpec

-----------------------------------------------------------------------------
\* The variables keep their types.
THEOREM CacheTypeCorrect == CacheSpec => []CacheTypeOK
  BY CacheInvariance, PTL DEF CacheInv

\* vmsForTemplate is the inverse of store, whatever lists and events came, for
\* any number of VMs and templates (vmcache.go).
THEOREM IndexIsExact == CacheSpec => []IndexExact
  BY CacheInvariance, PTL DEF CacheInv

\* The store follows the cluster as far as the Reflector has seen it: no VM that
\* needs its template is missing, none is left behind (vmcache.go).
THEOREM StoreIsFollowing == CacheSpec => []StoreFollows
  BY CacheInvariance, PTL DEF CacheInv

\* After the first list, admitTemplate (hook.go) lets no template go that a VM
\* needs, as far as the Reflector has seen.
THEOREM NeededTemplateIsKept == CacheSpec => NeededTemplateKept
  <1>1. ASSUME CacheInv, [CacheNext]_cacheVars,
               NEW t \in Old, t \in templates \ templates', pos > 0,
               NEW v \in VmKeys, history[pos][v] # NoVm
        PROVE  ~(vmNeedsTemplate(history[pos][v]) /\ history[pos][v].template = t)
    <2> USE DEF CacheInv
    <2>1. admitTemplate(t)
      <3>1. CASE \E u \in TemplateNames : DeleteTemplate(u)
        BY <1>1, <3>1, Zenon DEF DeleteTemplate
      <3>2. CASE ~\E u \in TemplateNames : DeleteTemplate(u)
        BY <1>1, <3>2, Zenon DEF CacheNext, cacheVars, List, Watch, Restart, ChangeVm
      <3> QED
        BY <3>1, <3>2, Zenon
    <2>2. index[t] = {} /\ t \in TemplateKeys
      BY <2>1, OldAssumption, Zenon DEF admitTemplate, TemplateKeys
    <2>3. vmStore[v] # t
      BY <1>1, <2>2, Zenon DEF IndexExact
    <2> QED
      BY <1>1, <2>3, Zenon DEF StoreFollows
  <1>2. CacheInv /\ [CacheNext]_cacheVars =>
           [\A t \in Old : (t \in templates \ templates' /\ pos > 0)
              => \A v \in VmKeys : history[pos][v] # NoVm =>
                    ~(vmNeedsTemplate(history[pos][v]) /\ history[pos][v].template = t)]_cacheVars
    BY <1>1, Zenon
  <1> QED
    BY <1>2, CacheInvariance, PTL DEF CacheSpec, NeededTemplateKept

-----------------------------------------------------------------------------
(* TLS settings: TlsProfile *)

\* Nothing is loaded while the watch is not running, except by Init.
NoStrayLoad == watch.phase \in {"stopped", "failed"} => load = Nil

\* While the watch runs, a new certificate is served, or is being loaded from
\* files that have not changed since, or the callback will run.
CertOnItsWay ==
    watch.phase \in {"callbacks", "events"} =>
        \/ "certs" \in pending \cup watch.todo
        \/ load # Nil /\ load.dir = "certs" /\ load.crt \in {0, certFiles.crt}
                       /\ load.key \in {0, certFiles.key}
                       /\ (load.crt = 0 => load.key = 0)
        \/ (load = Nil \/ load.dir = "options") /\ info.cert = certFiles.crt

OptionsOnTheirWay ==
    watch.phase \in {"callbacks", "events"} =>
        \/ "options" \in pending \cup watch.todo
        \/ load # Nil /\ load.dir = "options" /\ load.options \in {Nil, LoadedOptions(optFile)}
        \/ (load = Nil \/ load.dir = "certs") /\ info.options = LoadedOptions(optFile)

\* All callbacks have been started when the watch waits for events.
NothingToDo == watch.phase = "events" => watch.todo = {}

WatchInv == NoStrayLoad /\ CertOnItsWay /\ OptionsOnTheirWay /\ NothingToDo

-----------------------------------------------------------------------------
\* What the validator makes of a file are options again.
LEMMA LoadedOptionsType == ASSUME NEW o \in Options PROVE LoadedOptions(o) \in Options
  BY DEF LoadedOptions, Options, MinTLSVersionId, CipherIDs, DefaultTLSVersion, TLSVersions

\* What goes into the ConfigMap, and into a handshake, of a profile.
LEMMA ProfileTypes ==
    ASSUME NEW p \in Profiles \cup {Nil}
    PROVE  /\ NewSSPTLSOptions(p) \in Options \cup {Error}
           /\ ClientMin(p) \in TLSVersions \cup {Error}
           /\ ClientCiphers(p) \in SUBSET Ciphers
  <1> DEFINE Custom == [min: TLSVersions \cup {Error}, ciphers: SUBSET Ciphers]
  <1>1. CASE p = Nil
    BY <1>1, NilAssumption
       DEF NewSSPTLSOptions, Selected, ClientMin, ClientCiphers, ClientProfile, CipherIDs,
           NoOptions, Options, DefaultTLSVersion, TLSVersions
  <1>2. CASE p # Nil /\ p.type = "Custom"
    <2>1. p.custom \in Custom /\ p.custom # Nil
      BY <1>2, ProfilesAssumption, NilAssumption, Zenon
    <2>2. Selected(p) = p.custom /\ ClientProfile(p) = p.custom
      BY <1>2, <2>1, Zenon DEF Selected, ClientProfile
    <2> QED
      BY <2>1, <2>2 DEF NewSSPTLSOptions, ClientMin, ClientCiphers, CipherIDs, Options,
                        DefaultTLSVersion, TLSVersions
  <1>3. CASE p # Nil /\ p.type # "Custom"
    <2>1. TLSProfiles[p.type] \in Options /\ p.custom = Nil
      BY <1>3, ProfilesAssumption, Zenon
    <2>2. Selected(p) = TLSProfiles[p.type] /\ ClientProfile(p) = TLSProfiles[p.type]
      BY <1>3, <2>1, Zenon DEF Selected, ClientProfile
    <2> QED
      BY <2>1, <2>2 DEF NewSSPTLSOptions, ClientMin, ClientCiphers, CipherIDs, Options,
                        DefaultTLSVersion, TLSVersions
  <1> QED
    BY <1>1, <1>2, <1>3, Zenon

-----------------------------------------------------------------------------
\* The first state has its types, and nothing is watched in it.
LEMMA TlsInitLemma == TlsInit => TlsTypeOK /\ WatchInv
  <1> SUFFICES ASSUME TlsInit PROVE TlsTypeOK /\ WatchInv
    BY Zenon
  <1>1. NoOptions \in Options /\ [min |-> DefaultTLSVersion, ciphers |-> {}] \in Options
    BY SMTT(20) DEF NoOptions, Options, DefaultTLSVersion, TLSVersions
  <1>2. TlsTypeOK
    BY <1>1, TlsBoundsAssumption, SMTT(30) DEF TlsInit, TlsTypeOK, Idle, Dirs
  <1>3. WatchInv
    BY Zenon DEF TlsInit, WatchInv, NoStrayLoad, CertOnItsWay, OptionsOnTheirWay, NothingToDo
  <1> QED
    BY <1>2, <1>3, Zenon

\* The environment: the SSP, the ConfigMap, the kubelet.
LEMMA EnvironmentStep ==
    ASSUME TlsTypeOK, WatchInv,
           ChangeProfile \/ reconcileConfigMap \/ MountOptions \/ RotateCerts
    PROVE  TlsTypeOK' /\ WatchInv'
  <1> USE DEF WatchInv
  <1>1. CASE ChangeProfile
    <2>1. TlsTypeOK'
      BY <1>1, TlsBoundsAssumption, SMTT(20) DEF ChangeProfile, TlsTypeOK, validator, operator
    <2> QED
      BY <1>1, <2>1, Zenon DEF ChangeProfile, validator, operator, NoStrayLoad, CertOnItsWay,
                        OptionsOnTheirWay, NothingToDo
  <1>2. CASE reconcileConfigMap
    <2>1. configMap' \in Options
      BY <1>2, ProfileTypes, Zenon DEF reconcileConfigMap, TlsTypeOK
    <2>2. TlsTypeOK'
      BY <1>2, <2>1, Zenon DEF reconcileConfigMap, TlsTypeOK, validator, operator
    <2> QED
      BY <1>2, <2>2, Zenon DEF reconcileConfigMap, validator, operator, NoStrayLoad, CertOnItsWay,
                        OptionsOnTheirWay, NothingToDo
  <1>3. CASE MountOptions
    <2>1. TlsTypeOK'
      BY <1>3, Zenon DEF MountOptions, TlsTypeOK, operator, Notified, Watched, Dirs
    <2> QED
      BY <1>3, <2>1, Zenon DEF MountOptions, operator, Notified, Watched, NoStrayLoad, CertOnItsWay,
                        OptionsOnTheirWay, NothingToDo
  <1>4. CASE RotateCerts
    <2>1. TlsTypeOK'
      BY <1>4, TlsBoundsAssumption, SMTT(20) DEF RotateCerts, TlsTypeOK, operator, Notified, Watched, Dirs
    <2> QED
      BY <1>4, <2>1, ZenonT(40) DEF RotateCerts, operator, Notified, Watched, NoStrayLoad, CertOnItsWay,
                        OptionsOnTheirWay, NothingToDo
  <1> QED
    BY <1>1, <1>2, <1>3, <1>4, Zenon

\* A callback reads the files one after the other.
LEMMA LoaderStep == ASSUME TlsTypeOK, WatchInv, Loader PROVE TlsTypeOK' /\ WatchInv'
  <1> USE NoLoadAssumption, NilAssumption, TlsBoundsAssumption DEF WatchInv
  <1>1. CASE ReadCert
    <2>1. TlsTypeOK' /\ load' \in Load /\ load'.dir = "certs" /\ load'.crt = certFiles.crt
          /\ load'.key = load.key
      BY <1>1 DEF ReadCert, TlsTypeOK, Files, operator, Load
    <2> QED
      BY <1>1, <2>1, Zenon DEF ReadCert, Files, TlsTypeOK, NoStrayLoad, CertOnItsWay, OptionsOnTheirWay,
                        NothingToDo
  <1>2. CASE ReadKey
    <2>1. TlsTypeOK' /\ load' \in Load /\ load'.dir = "certs" /\ load'.crt = load.crt
          /\ load'.key = certFiles.key
      BY <1>2 DEF ReadKey, TlsTypeOK, Files, operator, Load
    <2> QED
      BY <1>2, <2>1, Zenon DEF ReadKey, Files, TlsTypeOK, NoStrayLoad, CertOnItsWay, OptionsOnTheirWay,
                        NothingToDo
  <1>3. CASE updateCertificates
    <2>1. load \in Load /\ load.dir = "certs" /\ load.crt \in Nat
      BY <1>3, Zenon DEF updateCertificates, TlsTypeOK, Load
    <2>2. info' = [cert |-> UpdatedCert(load.crt, load.key), options |-> info.options]
      BY <1>3, Zenon DEF updateCertificates, TlsTypeOK
    <2>3. TlsTypeOK'
      BY <1>3, <2>1, <2>2, Zenon DEF updateCertificates, TlsTypeOK, Files, operator, UpdatedCert
    <2>4. CertOnItsWay'
      BY <1>3, <2>1, <2>2, Zenon DEF updateCertificates, Files, TlsTypeOK, CertOnItsWay, UpdatedCert, Load
    <2>5. OptionsOnTheirWay'
      BY <1>3, <2>1, <2>2, Zenon DEF updateCertificates, Files, OptionsOnTheirWay
    <2> QED
      BY <1>3, <2>3, <2>4, <2>5, Zenon DEF updateCertificates, Files, NoStrayLoad, NothingToDo
  <1>4. CASE ReadOptions
    <2>1. LoadedOptions(optFile) \in Options
      BY LoadedOptionsType, Zenon DEF TlsTypeOK
    <2>2. TlsTypeOK' /\ load' \in Load /\ load'.dir = "options"
          /\ load'.options = LoadedOptions(optFile)
      BY <1>4, <2>1, Zenon DEF ReadOptions, TlsTypeOK, Files, operator, Load
    <2> QED
      BY <1>4, <2>2, Zenon DEF ReadOptions, Files, NoStrayLoad, CertOnItsWay, OptionsOnTheirWay,
                        NothingToDo
  <1>5. CASE updateTLSOptions
    <2>1. load \in Load /\ load.dir = "options" /\ load.options \in Options
      BY <1>5, Zenon DEF updateTLSOptions, TlsTypeOK, Load
    <2>2. info' = [cert |-> info.cert, options |-> load.options]
      BY <1>5, Zenon DEF updateTLSOptions, TlsTypeOK
    <2>3. TlsTypeOK'
      BY <1>5, <2>1, <2>2, Zenon DEF updateTLSOptions, TlsTypeOK, Files, operator
    <2>4. CertOnItsWay'
      BY <1>5, <2>1, <2>2, Zenon DEF updateTLSOptions, Files, CertOnItsWay
    <2>5. OptionsOnTheirWay'
      BY <1>5, <2>1, <2>2, Zenon DEF updateTLSOptions, Files, OptionsOnTheirWay
    <2> QED
      BY <1>5, <2>3, <2>4, <2>5, Zenon DEF updateTLSOptions, Files, NoStrayLoad, NothingToDo
  <1> QED
    BY <1>1, <1>2, <1>3, <1>4, <1>5, Zenon DEF Loader

\* The goroutine starts callbacks, fails and starts again.
LEMMA WatcherStep == ASSUME TlsTypeOK, WatchInv, Watcher \/ RunFails PROVE TlsTypeOK' /\ WatchInv'
  <1> USE NoLoadAssumption, NilAssumption, TlsBoundsAssumption DEF WatchInv
  <1>0. \A dir \in Dirs : /\ [dir |-> dir, crt |-> 0, key |-> 0, options |-> Nil] \in Load
                          /\ [dir |-> dir, crt |-> 0, key |-> 0, options |-> Nil] # Nil
    BY SMTT(20) DEF Load
  <1>1. CASE Init_
    <2>1. watch' \in [phase: {"init", "stopped"}, todo: SUBSET Dirs] /\ load' \in Load \cup {Nil}
          /\ (watch'.phase = "stopped" => load' = Nil)
      BY <1>0, <1>1 DEF Init_, Callback, TlsTypeOK, Dirs
    <2>2. TlsTypeOK'
      BY <1>1, <2>1, Zenon DEF Init_, Files, operator, TlsTypeOK
    <2> QED
      BY <2>1, <2>2, Zenon DEF NoStrayLoad, CertOnItsWay, OptionsOnTheirWay, NothingToDo
  <1>2. CASE Run
    <2>1. TlsTypeOK'
      BY <1>2, Zenon DEF Run, Files, operator, TlsTypeOK
    <2> QED
      BY <1>2, <2>1, Zenon DEF Run, Files, Dirs, NoStrayLoad, CertOnItsWay, OptionsOnTheirWay, NothingToDo
  <1>3. CASE runCallbacks
    <2>1. CASE UNCHANGED load
      <3>1. watch.todo = {} /\ watch' = [phase |-> "events", todo |-> {}]
        BY <1>0, <1>3, <2>1, Zenon DEF runCallbacks, Callback, TlsTypeOK
      <3>2. TlsTypeOK'
        BY <1>3, <2>1, <3>1, Zenon DEF runCallbacks, Files, operator, TlsTypeOK
      <3> QED
        BY <1>3, <2>1, <3>1, <3>2, Zenon DEF runCallbacks, Files, NoStrayLoad, CertOnItsWay,
                                      OptionsOnTheirWay, NothingToDo
    <2>2. CASE ~UNCHANGED load
      <3>1. PICK dir \in watch.todo :
               Callback(dir) /\ watch' = [watch EXCEPT !.todo = @ \ {dir}]
        BY <1>3, <2>2, Zenon DEF runCallbacks
      <3>2. /\ dir \in Dirs /\ watch' = [phase |-> "callbacks", todo |-> watch.todo \ {dir}]
            /\ load' \in Load /\ load' # Nil /\ load'.dir = dir
            /\ load'.crt = 0 /\ load'.key = 0 /\ load'.options = Nil
        BY <1>0, <1>3, <3>1, Zenon DEF runCallbacks, Callback, TlsTypeOK
      <3>3. TlsTypeOK'
        BY <1>3, <3>2, Zenon DEF runCallbacks, Files, operator, TlsTypeOK
      <3> QED
        BY <1>3, <3>2, <3>3, Zenon DEF runCallbacks, Files, Dirs, NoStrayLoad, CertOnItsWay,
                                OptionsOnTheirWay, NothingToDo
    <2> QED
      BY <2>1, <2>2, Zenon
  <1>4. CASE handleEvent
    <2>1. PICK dir \in pending : Callback(dir) /\ pending' = pending \ {dir}
      BY <1>4, Zenon DEF handleEvent
    <2>2. /\ dir \in Dirs /\ load' \in Load /\ load' # Nil /\ load'.dir = dir
          /\ load'.crt = 0 /\ load'.key = 0 /\ load'.options = Nil
      BY <1>0, <2>1, Zenon DEF Callback, TlsTypeOK
    <2>3. TlsTypeOK'
      BY <1>4, <2>1, <2>2, Zenon DEF handleEvent, Files, operator, TlsTypeOK
    <2> QED
      BY <1>4, <2>1, <2>2, <2>3, Zenon DEF handleEvent, Files, Dirs, NoStrayLoad, CertOnItsWay,
                                    OptionsOnTheirWay, NothingToDo
  <1>5. CASE RunFails
    <2>1. TlsTypeOK' /\ watch'.phase = "failed" /\ load' = Nil
      <3>1. /\ watch' = [phase |-> "failed", todo |-> {}] /\ pending' = {} /\ load = Nil
            /\ UNCHANGED <<Files, load, info>>
        BY <1>5, Zenon DEF RunFails
      <3>2. failures' \in 0..MaxFailures
        BY <1>5, TlsBoundsAssumption DEF RunFails, TlsTypeOK
      <3>3. watch' \in [phase: {"init", "stopped", "callbacks", "events", "failed"}, todo: SUBSET Dirs]
        BY <3>1, Zenon
      <3> QED
        BY <3>1, <3>2, <3>3, Zenon DEF Files, operator, TlsTypeOK
    <2> QED
      BY <2>1, Zenon DEF NoStrayLoad, CertOnItsWay, OptionsOnTheirWay, NothingToDo
  <1>6. CASE RunAgain
    <2>1. TlsTypeOK' /\ watch'.phase = "stopped" /\ load' = load
      BY <1>6, Zenon DEF RunAgain, Files, operator, TlsTypeOK
    <2> QED
      BY <1>6, <2>1, Zenon DEF RunAgain, NoStrayLoad, CertOnItsWay, OptionsOnTheirWay, NothingToDo
  <1> QED
    BY <1>1, <1>2, <1>3, <1>4, <1>5, <1>6, Zenon DEF Watcher

\* A handshake keeps the types, and leaves the validator alone.
LEMMA HandshakeStep ==
    ASSUME TlsTypeOK, WatchInv, NEW h \in Handshakes, Handshake(h)
    PROVE  TlsTypeOK' /\ WatchInv'
  <1> DEFINE p == handshakes[h].profile
             Hs == [phase: {"idle", "min", "ciphers", "use"}, profile: Profiles \cup {Nil},
                    min: TLSVersions \cup {0}, ciphers: SUBSET Ciphers]
  <1>0. /\ p \in Profiles \cup {Nil}
        /\ ClientMin(p) \in TLSVersions \cup {Error}
        /\ ClientCiphers(p) \in SUBSET Ciphers
    BY ProfileTypes, Zenon DEF TlsTypeOK
  <1>1. UNCHANGED Environment
    BY Zenon DEF Handshake, ListSsp, SetMinVersion, SetCipherSuites, Finish
  <1>2. TlsTypeOK'
    <2>1. CASE ListSsp(h) \/ Finish(h)
      <3>1. PICK new \in Hs : handshakes' = [handshakes EXCEPT ![h] = new] /\ UNCHANGED cfg
        <4>1. Idle \in Hs /\ [Idle EXCEPT !.phase = "min", !.profile = profile] \in Hs
          BY Zenon DEF Idle, TlsTypeOK, TLSVersions
        <4> QED
          BY <2>1, <4>1, Zenon DEF ListSsp, Finish
      <3>2. handshakes' \in [Handshakes -> Hs]
        BY <3>1, Zenon DEF TlsTypeOK
      <3> QED
        BY <1>1, <3>1, <3>2, Zenon DEF TlsTypeOK, Environment, validator
    <2>2. CASE SetMinVersion(h)
      BY <1>0, <1>1, <2>2 DEF SetMinVersion, Idle, TlsTypeOK, Environment, validator, Options
    <2>3. CASE SetCipherSuites(h)
      <3>1. /\ handshakes' = [handshakes EXCEPT ![h].phase = "use", ![h].ciphers = ClientCiphers(p)]
            /\ cfg' = IF Shared THEN [cfg EXCEPT !.ciphers = ClientCiphers(p)] ELSE cfg
        BY <2>3, Zenon DEF SetCipherSuites
      <3>2. cfg' \in Options
        BY <1>0, <3>1, Zenon DEF TlsTypeOK, Options
      <3>3. handshakes \in [Handshakes -> Hs]
        BY Zenon DEF TlsTypeOK
      <3>4. [handshakes[h] EXCEPT !.phase = "use", !.ciphers = ClientCiphers(p)] \in Hs
        BY <1>0, <3>3, Zenon
      <3>5. handshakes' = [handshakes EXCEPT
                              ![h] = [handshakes[h] EXCEPT !.phase = "use", !.ciphers = ClientCiphers(p)]]
        BY <3>1, <3>3, Zenon
      <3>6. handshakes' \in [Handshakes -> Hs]
        BY <3>3, <3>4, <3>5, Zenon
      <3> QED
        BY <1>1, <3>2, <3>6, Zenon DEF TlsTypeOK, Environment, validator
    <2> QED
      BY <2>1, <2>2, <2>3, Zenon DEF Handshake
  <1> QED
    BY <1>1, <1>2, Zenon DEF Environment, validator, WatchInv, NoStrayLoad, CertOnItsWay,
                      OptionsOnTheirWay, NothingToDo

\* Every step preserves the invariant.
LEMMA TlsStepLemma == TlsTypeOK /\ WatchInv /\ [TlsNext]_tlsVars => (TlsTypeOK /\ WatchInv)'
  <1> SUFFICES ASSUME TlsTypeOK, WatchInv, [TlsNext]_tlsVars PROVE TlsTypeOK' /\ WatchInv'
    BY Zenon
  <1>1. CASE UNCHANGED tlsVars
    BY <1>1 DEF tlsVars, validator, operator, TlsTypeOK, WatchInv, NoStrayLoad, CertOnItsWay,
                OptionsOnTheirWay, NothingToDo
  <1> QED
    BY <1>1, EnvironmentStep, LoaderStep, WatcherStep, HandshakeStep, Zenon DEF TlsNext

\* The invariant holds throughout.
LEMMA TlsInvariance == TlsSpec => [](TlsTypeOK /\ WatchInv)
  BY TlsInitLemma, TlsStepLemma, PTL DEF TlsSpec

\* The variables keep their types.
THEOREM TlsTypeCorrect == TlsSpec => []TlsTypeOK
  BY TlsInvariance, PTL

\* filewatch.go and tlsinfo.go: nothing that was mounted before the watch began,
\* while a file was being read, or while the watch was broken is missed.
THEOREM RestingIsAlwaysFresh == TlsSpec => []RestingIsFresh
  <1>1. TlsTypeOK /\ WatchInv => RestingIsFresh
    BY Zenon DEF TlsTypeOK, WatchInv, CertOnItsWay, OptionsOnTheirWay, NothingToDo, RestingIsFresh
  <1> QED
    BY <1>1, TlsInvariance, PTL

-----------------------------------------------------------------------------
\* What a handshake of its own configuration has set is of the profile it read.
OwnConfig ==
    \A h \in Handshakes :
        /\ handshakes[h].phase \in {"ciphers", "use"} =>
              handshakes[h].min = ClientMin(handshakes[h].profile)
        /\ handshakes[h].phase = "use" =>
              handshakes[h].ciphers = ClientCiphers(handshakes[h].profile)

\* Each step of a handshake works on the profile that ListSsp has read.
LEMMA OwnConfigStep == TlsTypeOK /\ OwnConfig /\ [TlsNext]_tlsVars => OwnConfig'
  <1> SUFFICES ASSUME TlsTypeOK, OwnConfig, [TlsNext]_tlsVars PROVE OwnConfig'
    BY Zenon
  <1>1. CASE UNCHANGED handshakes
    BY <1>1, Zenon DEF OwnConfig
  <1>2. ASSUME NEW h \in Handshakes, Handshake(h) PROVE OwnConfig'
    <2>1. CASE ListSsp(h) \/ Finish(h)
      <3>1. handshakes'[h].phase \in {"idle", "min"}
        <4>1. Idle.phase = "idle" /\ [Idle EXCEPT !.phase = "min", !.profile = profile].phase = "min"
          BY Zenon DEF Idle
        <4> QED
          BY <2>1, <4>1, Zenon DEF ListSsp, Finish, TlsTypeOK
      <3>2. \A k \in Handshakes \ {h} : handshakes'[k] = handshakes[k]
        BY <2>1, Zenon DEF ListSsp, Finish, TlsTypeOK
      <3> QED
        BY <3>1, <3>2, Zenon DEF OwnConfig
    <2>2. CASE SetMinVersion(h)
      BY <2>2 DEF SetMinVersion, Idle, TlsTypeOK, OwnConfig
    <2>3. CASE SetCipherSuites(h)
      BY <2>3, Zenon DEF SetCipherSuites, TlsTypeOK, OwnConfig
    <2> QED
      BY <1>2, <2>1, <2>2, <2>3, Zenon DEF Handshake
  <1>3. CASE ~\E h \in Handshakes : Handshake(h)
    BY <1>1, <1>3, Zenon DEF TlsNext, tlsVars, operator, ChangeProfile, reconcileConfigMap, MountOptions,
                      RotateCerts, Loader, ReadCert, ReadKey, updateCertificates, ReadOptions,
                      updateTLSOptions, Watcher, Init_, Run, runCallbacks, handleEvent,
                      RunAgain, RunFails, Files
  <1> QED
    BY <1>2, <1>3, Zenon

\* main.go: the metrics server clones its tls.Config for every handshake, and so
\* every handshake uses the version and the ciphers of one profile.
THEOREM HandshakeIsConsistent == ASSUME ~Shared PROVE TlsSpec => []HandshakeConsistent
  <1>1. TlsInit => OwnConfig
    BY DEF TlsInit, Idle, OwnConfig
  <1>2. TlsSpec => []OwnConfig
    BY <1>1, OwnConfigStep, TlsTypeCorrect, PTL DEF TlsSpec
  <1>3. OwnConfig => HandshakeConsistent
    BY Zenon DEF OwnConfig, HandshakeConsistent, Used
  <1> QED
    BY <1>2, <1>3, PTL
=============================================================================
