------------------------------ MODULE TlsProfile ------------------------------
(***************************************************************************)
(* The TLS settings of an SSP (spec.tlsSecurityProfile) on their way to the *)
(* two servers that use them.  The operator reads the profile from its cache *)
(* in every handshake (main.go, getConfigForClient).  The template validator *)
(* gets it in a file: the operator writes a ConfigMap, the kubelet swaps the *)
(* mounted file, and a goroutine that watches the directory (filewatch.go)   *)
(* loads it, as it loads the certificate and the key next to it              *)
(* (tlsinfo.go).                                                            *)
(***************************************************************************)
EXTENDS Naturals

CONSTANTS
    Ciphers,      \* names of ciphers
    KnownCiphers, \* those that crypto/tls implements
    Profiles,     \* values of spec.tlsSecurityProfile
    TLSProfiles,  \* type |-> [min, ciphers]: the named profiles of OpenShift
    Handshakes,   \* concurrent handshakes with the operator
    Shared,       \* do the handshakes share one tls.Config?
    Nil,
    Error,
    MaxEdits,     \* bound: changes of the SSP
    MaxCerts,     \* bound: certificates, each with its own key
    MaxFailures     \* bound: failures of the watch

\* Versions are numbers, 10 to 13; 0 is one that is not given, Error a bad one.
TLSVersions == 10..13

Options == [min: TLSVersions \cup {0}, ciphers: SUBSET Ciphers]

\* A profile has the fields of its type, and a custom one names a version.  The
\* operator goes by the type and the validator by the field, so that they would
\* not agree on any other.
ASSUME ProfilesAssumption ==
    /\ TLSProfiles \in [DOMAIN TLSProfiles -> Options]
    /\ \A p \in Profiles:
          IF p.type = "Custom" THEN p.custom \in [min: TLSVersions \cup {Error}, ciphers: SUBSET Ciphers]
          ELSE p.custom = Nil /\ p.type \in DOMAIN TLSProfiles
ASSUME NilAssumption ==
    /\ Nil \notin Profiles \cup Options \cup [min: TLSVersions \cup {Error}, ciphers: SUBSET Ciphers] \cup {Error}
    /\ Error \notin Options \cup Nat
ASSUME TlsBoundsAssumption == MaxEdits \in Nat /\ MaxCerts \in Nat \ {0} /\ MaxFailures \in Nat

Dirs == {"certs", "options"}

\* What a callback has read so far.
Load == [dir: Dirs, crt: Nat, key: Nat, options: Options \cup {Nil}]

ASSUME NoLoadAssumption == Nil \notin Load

VARIABLES
    profile,    \* spec.tlsSecurityProfile, Nil when it is not set
    configMap,  \* tls-config.json in the validator's ConfigMap
    optFile,    \* tls-config.json as the kubelet has mounted it
    certFiles,  \* [crt, key]: the pair that the kubelet has mounted
    watch,      \* [phase, todo]: the goroutine of TLSInfo, and callbacks to run
    pending,    \* directories with fsnotify events not handled yet
    load,       \* Nil, or what the running callback has read so far
    info,       \* TLSInfo: [cert, options], each Error after a failed load
    cfg,        \* the tls.Config that handshakes share
    handshakes, \* handshake |-> [phase, profile, min, ciphers]
    edits,
    failures

validator == <<watch, pending, load, info>>
operator == <<cfg, handshakes>>
tlsVars == <<profile, configMap, optFile, certFiles, validator, operator, edits, failures>>

-----------------------------------------------------------------------------
(* Profiles and options *)

NoOptions == [min |-> 0, ciphers |-> {}]

\* Mutant: the named profile only.
SelectedByType(p) == IF p = Nil \/ p.type \notin DOMAIN TLSProfiles THEN NoOptions ELSE TLSProfiles[p.type]

\* selectCipherSuitesAndMinTLSVersion
Selected(p) ==
    IF p = Nil THEN NoOptions
    ELSE IF p.custom # Nil THEN p.custom
    ELSE TLSProfiles[p.type]

\* tlsVersionToHumanReadable fails for a version that it does not know.
NewSSPTLSOptions(p) == IF Selected(p).min = Error THEN Error ELSE Selected(p)

CipherIDs(names) == names \cap KnownCiphers

\* crypto.DefaultTLSVersion, and what crypto/tls makes of version 0
DefaultTLSVersion == 12

IsEmpty(options) == options = NoOptions

MinTLSVersionId(options) == IF options.min = 0 THEN 10 ELSE options.min

\* updateTLSOptions: what a handshake with the validator makes of its options
LoadedOptions(options) ==
    IF IsEmpty(options) THEN [min |-> DefaultTLSVersion, ciphers |-> {}]
    ELSE [min |-> MinTLSVersionId(options), ciphers |-> CipherIDs(options.ciphers)]

\* The profile that getConfigForClient looks at: Custom by its type, not by
\* whether it is set
ClientProfile(p) ==
    IF p = Nil THEN NoOptions
    ELSE IF p.type = "Custom" THEN p.custom
    ELSE TLSProfiles[p.type]

\* crypto.TLSVersion takes the default for no version.
ClientMin(p) == IF ClientProfile(p).min = 0 THEN DefaultTLSVersion ELSE ClientProfile(p).min
ClientCiphers(p) == CipherIDs(ClientProfile(p).ciphers)

-----------------------------------------------------------------------------
(* From the SSP to the files *)

ChangeProfile ==
    /\ edits < MaxEdits
    /\ \E p \in Profiles \cup {Nil}: p # profile /\ profile' = p
    /\ edits' = edits + 1
    /\ UNCHANGED <<configMap, optFile, certFiles, validator, operator, failures>>

\* A profile with a bad version fails the operand: the ConfigMap stays.
reconcileConfigMap ==
    /\ NewSSPTLSOptions(profile) \notin {Error, configMap}
    /\ configMap' = NewSSPTLSOptions(profile)
    /\ UNCHANGED <<profile, optFile, certFiles, validator, operator, edits, failures>>

Watched == watch.phase \in {"callbacks", "events"}

Notified(dir) == pending' = IF Watched THEN pending \cup {dir} ELSE pending

\* The kubelet swaps a symbolic link: all files of a volume change at once.
MountOptions ==
    /\ optFile # configMap
    /\ optFile' = configMap
    /\ Notified("options")
    /\ UNCHANGED <<profile, configMap, certFiles, watch, load, info, operator, edits, failures>>

RotateCerts ==
    /\ certFiles.crt < MaxCerts
    /\ certFiles' = [crt |-> certFiles.crt + 1, key |-> certFiles.key + 1]
    /\ Notified("certs")
    /\ UNCHANGED <<profile, configMap, optFile, watch, load, info, operator, edits, failures>>

-----------------------------------------------------------------------------
(* TLSInfo *)

Files == <<profile, configMap, optFile, certFiles, operator, edits>>

\* The certificate, then the key, then both are set under the lock.
ReadCert ==
    /\ load # Nil /\ load.dir = "certs" /\ load.crt = 0
    /\ load' = [load EXCEPT !.crt = certFiles.crt]
    /\ UNCHANGED <<Files, watch, pending, info, failures>>

ReadKey ==
    /\ load # Nil /\ load.dir = "certs" /\ load.crt # 0 /\ load.key = 0
    /\ load' = [load EXCEPT !.key = certFiles.key]
    /\ UNCHANGED <<Files, watch, pending, info, failures>>

\* tls.X509KeyPair refuses a certificate and a key that do not belong together.
UpdatedCert(crt, key) == IF crt = key THEN crt ELSE Error

updateCertificates ==
    /\ load # Nil /\ load.dir = "certs" /\ load.key # 0
    /\ info' = [info EXCEPT !.cert = UpdatedCert(load.crt, load.key)]
    /\ load' = Nil
    /\ UNCHANGED <<Files, watch, pending, failures>>

ReadOptions ==
    /\ load # Nil /\ load.dir = "options" /\ load.options = Nil
    /\ load' = [load EXCEPT !.options = LoadedOptions(optFile)]
    /\ UNCHANGED <<Files, watch, pending, info, failures>>

updateTLSOptions ==
    /\ load # Nil /\ load.dir = "options" /\ load.options # Nil
    /\ info' = [info EXCEPT !.options = load.options]
    /\ load' = Nil
    /\ UNCHANGED <<Files, watch, pending, failures>>

Callback(dir) == load' = [dir |-> dir, crt |-> 0, key |-> 0, options |-> Nil]

\* Init loads the certificates and the options once, before the goroutine runs.
Init_ ==
    /\ watch.phase = "init" /\ load = Nil
    /\ \/ /\ watch.todo # {}
          /\ LET dir == IF "certs" \in watch.todo THEN "certs" ELSE "options"
             IN  Callback(dir) /\ watch' = [watch EXCEPT !.todo = @ \ {dir}]
       \/ watch.todo = {} /\ watch' = [watch EXCEPT !.phase = "stopped"] /\ UNCHANGED load
    /\ UNCHANGED <<Files, pending, info, failures>>

\* Mutant: only events run the callbacks.
RunEventsOnly ==
    /\ watch.phase = "stopped"
    /\ watch' = [phase |-> "events", todo |-> {}]
    /\ UNCHANGED <<Files, pending, load, info, failures>>

\* watch.Run: all directories are watched before all callbacks run.
Run ==
    /\ watch.phase = "stopped"
    /\ watch' = [phase |-> "callbacks", todo |-> Dirs]
    /\ UNCHANGED <<Files, pending, load, info, failures>>

runCallbacks ==
    /\ watch.phase = "callbacks" /\ load = Nil
    /\ \/ \E dir \in watch.todo:
            Callback(dir) /\ watch' = [watch EXCEPT !.todo = @ \ {dir}]
       \/ watch.todo = {} /\ watch' = [watch EXCEPT !.phase = "events"] /\ UNCHANGED load
    /\ UNCHANGED <<Files, pending, info, failures>>

handleEvent ==
    /\ watch.phase = "events" /\ load = Nil
    /\ \E dir \in pending: Callback(dir) /\ pending' = pending \ {dir}
    /\ UNCHANGED <<Files, watch, info, failures>>

\* Run returns an error, before (watcher.Add) or after the callbacks: the
\* watcher is closed, and its events are lost.  The goroutine runs it again.
RunFails ==
    /\ watch.phase \in {"stopped", "events"} /\ load = Nil
    /\ failures < MaxFailures
    /\ failures' = failures + 1
    /\ watch' = [phase |-> "failed", todo |-> {}]
    /\ pending' = {}
    /\ UNCHANGED <<Files, load, info>>

\* After a second
RunAgain ==
    /\ watch.phase = "failed"
    /\ watch' = [watch EXCEPT !.phase = "stopped"]
    /\ UNCHANGED <<Files, pending, load, info, failures>>

\* CreateTlsConfig: a handshake with the validator gets both, or an error.
CreateTlsConfig == IF Error \in {info.cert, info.options} THEN Error ELSE info

-----------------------------------------------------------------------------
(* The operator: getConfigForClient *)

Environment == <<profile, configMap, optFile, certFiles, validator, edits, failures>>

Idle == [phase |-> "idle", profile |-> Nil, min |-> 0, ciphers |-> {}]

\* cache.List
ListSsp(h) ==
    /\ handshakes[h].phase = "idle"
    /\ handshakes' = [handshakes EXCEPT ![h] = [Idle EXCEPT !.phase = "min", !.profile = profile]]
    /\ UNCHANGED <<cfg, Environment>>

\* A bad version fails the handshake before the configuration is changed.
SetMinVersion(h) ==
    /\ handshakes[h].phase = "min"
    /\ LET min == ClientMin(handshakes[h].profile) IN
       IF min = Error
       THEN handshakes' = [handshakes EXCEPT ![h] = Idle] /\ UNCHANGED cfg
       ELSE /\ handshakes' = [handshakes EXCEPT ![h].phase = "ciphers", ![h].min = min]
            /\ cfg' = IF Shared THEN [cfg EXCEPT !.min = min] ELSE cfg
    /\ UNCHANGED Environment

\* Mutant: the ciphers of the profile as it is by now.
SetCiphersLate(h) ==
    /\ handshakes[h].phase = "ciphers"
    /\ handshakes' = [handshakes EXCEPT ![h].phase = "use", ![h].ciphers = ClientCiphers(profile)]
    /\ UNCHANGED <<cfg, Environment>>

SetCipherSuites(h) ==
    /\ handshakes[h].phase = "ciphers"
    /\ LET ciphers == ClientCiphers(handshakes[h].profile) IN
       /\ handshakes' = [handshakes EXCEPT ![h].phase = "use", ![h].ciphers = ciphers]
       /\ cfg' = IF Shared THEN [cfg EXCEPT !.ciphers = ciphers] ELSE cfg
    /\ UNCHANGED Environment

\* The configuration that getConfigForClient has returned to the handshake
Used(h) ==
    IF Shared THEN cfg
    ELSE [min |-> handshakes[h].min, ciphers |-> handshakes[h].ciphers]

Finish(h) ==
    /\ handshakes[h].phase = "use"
    /\ handshakes' = [handshakes EXCEPT ![h] = Idle]
    /\ UNCHANGED <<cfg, Environment>>

-----------------------------------------------------------------------------
TlsInit ==
    /\ profile = Nil
    /\ configMap = NoOptions
    /\ optFile = NoOptions
    /\ certFiles = [crt |-> 1, key |-> 1]
    /\ watch = [phase |-> "init", todo |-> Dirs]
    /\ pending = {}
    /\ load = Nil
    /\ info = [cert |-> Error, options |-> Error]
    /\ cfg = [min |-> DefaultTLSVersion, ciphers |-> {}]
    /\ handshakes = [h \in Handshakes |-> Idle]
    /\ edits = 0
    /\ failures = 0

Loader == ReadCert \/ ReadKey \/ updateCertificates \/ ReadOptions \/ updateTLSOptions

Watcher == Init_ \/ Run \/ runCallbacks \/ handleEvent \/ RunAgain

Handshake(h) == ListSsp(h) \/ SetMinVersion(h) \/ SetCipherSuites(h) \/ Finish(h)

TlsNext ==
    \/ ChangeProfile \/ reconcileConfigMap \/ MountOptions \/ RotateCerts
    \/ Loader \/ Watcher \/ RunFails
    \/ \E h \in Handshakes: Handshake(h)

TlsSpec == TlsInit /\ [][TlsNext]_tlsVars

\* The operator reconciles, the kubelet mounts, and the validator's goroutine runs.
FairTlsSpec ==
    /\ TlsSpec
    /\ WF_tlsVars(reconcileConfigMap)
    /\ WF_tlsVars(MountOptions)
    /\ WF_tlsVars(Loader)
    /\ WF_tlsVars(Watcher)

-----------------------------------------------------------------------------
(* Properties *)

\* The types of the variables; the certificate and the key of a volume are always
\* a pair.
TlsTypeOK ==
    /\ profile \in Profiles \cup {Nil}
    /\ configMap \in Options /\ optFile \in Options
    /\ certFiles \in [crt: 1..MaxCerts, key: 1..MaxCerts] /\ certFiles.key = certFiles.crt
    /\ watch \in [phase: {"init", "stopped", "callbacks", "events", "failed"}, todo: SUBSET Dirs]
    /\ pending \subseteq Dirs
    /\ load \in Load \cup {Nil}
    /\ info \in [cert: Nat \cup {Error}, options: Options \cup {Error}]
    /\ cfg \in Options
    /\ handshakes \in [Handshakes -> [phase: {"idle", "min", "ciphers", "use"}, profile: Profiles \cup {Nil},
                                      min: TLSVersions \cup {0}, ciphers: SUBSET Ciphers]]
    /\ edits \in 0..MaxEdits /\ failures \in 0..MaxFailures

\* When the validator waits for events and none is pending, it serves the
\* certificate and the options of its directories: nothing that was mounted
\* before the watch began, while a file was being read, or while the watch was
\* broken has been missed (filewatch.go, Run: "callbacks will notice the state of
\* the files after watch starts, but before any events arrive").
RestingIsFresh ==
    (watch.phase = "events" /\ pending = {} /\ load = Nil) =>
        info = [cert |-> certFiles.crt, options |-> LoadedOptions(optFile)]

\* A handshake with the operator uses the version and the ciphers of one profile,
\* the one that getConfigForClient has read for it.
HandshakeConsistent ==
    \A h \in Handshakes: handshakes[h].phase = "use" =>
        Used(h) = [min |-> ClientMin(handshakes[h].profile),
                   ciphers |-> ClientCiphers(handshakes[h].profile)]

\* Once the SSP and the certificates no longer change, the validator serves the
\* newest certificate with the options that the operator uses for the same
\* profile, unless the profile names no valid version (reconcileConfigMap fails).
EventuallyAgreed ==
    <>[](\/ NewSSPTLSOptions(profile) = Error
         \/ CreateTlsConfig = [cert |-> certFiles.crt,
                               options |-> [min |-> ClientMin(profile),
                                            ciphers |-> ClientCiphers(profile)]])

=============================================================================
