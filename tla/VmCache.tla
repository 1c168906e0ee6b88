-------------------------------- MODULE VmCache --------------------------------
(***************************************************************************)
(* The template validator's cache of the VMs that need a template           *)
(* (internal/template-validator/virtinformers), which a client-go Reflector *)
(* fills, and the webhook that asks it before a template is deleted         *)
(* (webhooks/hook.go, admitTemplate).                                       *)
(*                                                                          *)
(* history is the sequence of states of the cluster's VMs, one change after  *)
(* the other; the Reflector has seen it up to pos.  It lists (Replace) and   *)
(* then watches: Add, Update and Delete, one for each change.               *)
(***************************************************************************)
EXTENDS Naturals, Sequences

CONSTANTS
    VmKeys,
    TemplateNames,
    Old,          \* templates with validation rules of their own
    NoTemplate,   \* the key of a VM that names no template
    NoVm,
    MaxChanges,   \* bound: changes of VMs
    MaxFaults     \* bound: restarts and broken watches

ASSUME OldAssumption == Old \subseteq TemplateNames
ASSUME NoTemplateAssumption == NoTemplate \notin TemplateNames
ASSUME BoundsAssumption == MaxChanges \in Nat /\ MaxFaults \in Nat

TemplateKeys == TemplateNames \cup {NoTemplate}

\* template: labels.GetTemplateKeys; validations: the VM's own annotation with
\* rules, which may be there and empty
Vm == [template: TemplateKeys, validations: {"absent", "empty", "rules"}]

ASSUME NoVmAssumption == NoVm \notin TemplateKeys \cup Vm

VARIABLES
    history,    \* states of the VMs
    pos,        \* the state that the Reflector has seen, 0 before the first list
    since,      \* history: the state when the validator was started
    vmStore,    \* vmCache.store: VM |-> template key, or NoVm
    index,      \* vmCache.vmsForTemplate: template key |-> VMs
    templates,  \* templates of the cluster
    faults

cacheVars == <<history, pos, since, vmStore, index, templates, faults>>

Vmsnow == history[Len(history)]

-----------------------------------------------------------------------------
(* vmCache *)

vmNeedsTemplate(vm) == vm.validations = "absent" /\ vm.template # NoTemplate

\* getValidationRulesForVM (webhooks/uplink.go) takes the rules of the template
TakesRulesFrom(vm, t) == vm.validations # "rules" /\ vm.template = t

\* templateMap.Add and Delete
IndexAdd(idx, t, v) == [idx EXCEPT ![t] = @ \cup {v}]
IndexDelete(idx, t, v) == [idx EXCEPT ![t] = @ \ {v}]

Add(v, vm) ==
    IF vmNeedsTemplate(vm)
    THEN /\ vmStore' = [vmStore EXCEPT ![v] = vm.template]
         /\ index' = IndexAdd(index, vm.template, v)
    ELSE UNCHANGED <<vmStore, index>>

Delete(v) ==
    IF vmStore[v] # NoVm
    THEN /\ vmStore' = [vmStore EXCEPT ![v] = NoVm]
         /\ index' = IndexDelete(index, vmStore[v], v)
    ELSE UNCHANGED <<vmStore, index>>

\* Mutant: the old template keeps the VM.
UpdateAdds(v, vm) == IF vmNeedsTemplate(vm) THEN Add(v, vm) ELSE Delete(v)

\* Mutant: a VM that no longer passes the filter stays.
UpdateIgnores(v, vm) ==
    IF ~vmNeedsTemplate(vm) THEN UNCHANGED <<vmStore, index>>
    ELSE /\ vmStore' = [vmStore EXCEPT ![v] = vm.template]
         /\ index' = IndexAdd(IF vmStore[v] = NoVm THEN index ELSE IndexDelete(index, vmStore[v], v),
                              vm.template, v)

\* The comparison with the old value never holds (a value and a pointer), so
\* the VM is always moved.
Update(v, vm) ==
    IF ~vmNeedsTemplate(vm) THEN Delete(v)
    ELSE /\ vmStore' = [vmStore EXCEPT ![v] = vm.template]
         /\ index' = IndexAdd(IF vmStore[v] = NoVm THEN index ELSE IndexDelete(index, vmStore[v], v),
                              vm.template, v)

\* Mutant: a new list is merged into the index.
ReplaceMerges(vms) ==
    /\ vmStore' = [v \in VmKeys |-> IF vms[v] = NoVm THEN NoVm ELSE vms[v].template]
    /\ index' = [t \in TemplateKeys |-> index[t] \cup {v \in VmKeys : vms[v] # NoVm /\ vms[v].template = t}]

\* Every listed VM is stored, also one that does not need its template.
Replace(vms) ==
    /\ vmStore' = [v \in VmKeys |-> IF vms[v] = NoVm THEN NoVm ELSE vms[v].template]
    /\ index' = [t \in TemplateKeys |-> {v \in VmKeys : vms[v] # NoVm /\ vms[v].template = t}]

NewVmCache ==
    /\ vmStore = [v \in VmKeys |-> NoVm]
    /\ index = [t \in TemplateKeys |-> {}]

-----------------------------------------------------------------------------
(* The Reflector, users, and the webhook *)

\* A list shows a state that is not older than what was seen before.
List ==
    /\ pos = 0 \/ faults > 0
    /\ faults' = IF pos = 0 THEN faults ELSE faults - 1
    /\ \E p \in 1..Len(history) :
          /\ p >= pos
          /\ Replace(history[p]) /\ pos' = p
    /\ UNCHANGED <<history, since, templates>>

Watch ==
    LET before == history[pos]
        after == history[pos + 1]
    IN  /\ pos > 0 /\ pos < Len(history)
        /\ pos' = pos + 1
        /\ \E v \in VmKeys :
              /\ before[v] # after[v]
              /\ CASE before[v] = NoVm -> Add(v, after[v])
                   [] before[v] # NoVm /\ after[v] # NoVm -> Update(v, after[v])
                   [] after[v] = NoVm -> Delete(v)
        /\ UNCHANGED <<history, since, templates, faults>>

\* The validator starts again; nothing waits for the cache to be filled.
Restart ==
    /\ faults > 0 /\ faults' = faults - 1
    /\ pos' = 0 /\ since' = Len(history)
    /\ vmStore' = [v \in VmKeys |-> NoVm]
    /\ index' = [t \in TemplateKeys |-> {}]
    /\ UNCHANGED <<history, templates>>

\* A VM is created, changed or deleted.
ChangeVm(v) ==
    /\ Len(history) <= MaxChanges
    /\ \E vm \in Vm \cup {NoVm} :
          /\ vm # Vmsnow[v]
          /\ history' = Append(history, [Vmsnow EXCEPT ![v] = vm])
    /\ UNCHANGED <<pos, since, vmStore, index, templates, faults>>

\* Mutant: the deletion is refused only when every VM needs the template.
admitTemplateAny(t) == t \notin Old \/ \E v \in VmKeys : v \notin index[t]

\* A template without validation rules may always be deleted.
admitTemplate(t) == t \notin Old \/ index[t] = {}

DeleteTemplate(t) ==
    /\ t \in templates /\ admitTemplate(t)
    /\ templates' = templates \ {t}
    /\ UNCHANGED <<history, pos, since, vmStore, index, faults>>

CacheInit ==
    /\ \E vms \in [VmKeys -> {NoVm} \cup [template: TemplateKeys, validations: {"absent"}]] : history = <<vms>>
    /\ pos = 0 /\ since = 1
    /\ NewVmCache
    /\ templates = TemplateNames
    /\ faults = MaxFaults

CacheNext ==
    \/ List \/ Watch \/ Restart
    \/ \E v \in VmKeys : ChangeVm(v)
    \/ \E t \in TemplateNames : DeleteTemplate(t)

CacheSpec == CacheInit /\ [][CacheNext]_cacheVars

\* client-go keeps the Reflector listing and watching.
FairSpec == CacheSpec /\ WF_cacheVars(List /\ pos = 0) /\ WF_cacheVars(Watch)

-----------------------------------------------------------------------------
(* Properties *)

\* The types of the variables.
CacheTypeOK ==
    /\ history \in Seq([VmKeys -> Vm \cup {NoVm}]) /\ Len(history) \in 1..(MaxChanges + 1)
    /\ pos \in 0..Len(history) /\ since \in 1..Len(history)
    /\ vmStore \in [VmKeys -> TemplateKeys \cup {NoVm}]
    /\ index \in [TemplateKeys -> SUBSET VmKeys]
    /\ templates \subseteq TemplateNames
    /\ faults \in 0..MaxFaults

\* The index is the inverse of the store, whatever lists and events came.
IndexExact == \A t \in TemplateKeys : index[t] = {v \in VmKeys : vmStore[v] = t}

\* What the Reflector has seen is in the store: a VM that needs its template is
\* there with the template it has, a VM that does not exist is not there, and
\* one that is there names its template.
StoreFollows ==
    pos > 0 => \A v \in VmKeys :
        LET vm == history[pos][v] IN
        IF vm = NoVm THEN vmStore[v] = NoVm
        ELSE /\ vmNeedsTemplate(vm) => vmStore[v] = vm.template
             /\ vmStore[v] \in {vm.template, NoVm}

\* Once the Reflector has listed the VMs, a template with rules is deleted only
\* when no VM it has seen needs it.
NeededTemplateKept ==
    [][\A t \in Old : (t \in templates \ templates' /\ pos > 0)
          => \A v \in VmKeys : history[pos][v] # NoVm =>
                ~(vmNeedsTemplate(history[pos][v]) /\ history[pos][v].template = t)]_cacheVars

\* In the end the webhook knows about all VMs: it refuses to delete a template
\* that one needs, and no template is kept for VMs that do not name it.
EventuallyExact ==
    <>[](\A t \in TemplateNames :
            /\ index[t] \subseteq {v \in VmKeys : Vmsnow[v] # NoVm /\ Vmsnow[v].template = t}
            /\ {v \in VmKeys : Vmsnow[v] # NoVm /\ vmNeedsTemplate(Vmsnow[v]) /\ Vmsnow[v].template = t}
                  \subseteq index[t])

\* A template with rules is not deleted when a VM takes its rules from it, and
\* has done so since the validator was started.
UsedTemplateKept ==
    [][\A t \in Old : t \in templates \ templates' =>
          ~\E v \in VmKeys : \A i \in since..Len(history) :
              history[i][v] # NoVm /\ TakesRulesFrom(history[i][v], t)]_cacheVars

\* The cache holds no VM that the filter rejects.
FilterRespected ==
    pos > 0 => \A v \in VmKeys : vmStore[v] # NoVm => vmNeedsTemplate(history[pos][v])
=============================================================================
