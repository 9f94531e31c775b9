-------------------------------- MODULE Startup --------------------------------
(***************************************************************************)
(* Processes that start on one machine and share its cached profile: the   *)
(* engine, the profile and the doctor commands all call load_or_probe.     *)
(* Between them the machine changes: its memory is used by others, its     *)
(* hardware or its software is replaced, the checkpoint appears.  A        *)
(* process may be killed in the middle of a probe, which writes a file     *)
(* beside the weights when there is nothing to read, or of a save, which   *)
(* empties the cache file before it fills it.                              *)
(***************************************************************************)
EXTENDS HardwareProfile

CONSTANTS
    Procs,           \* processes
    Machines,        \* identities of hardware and software
    Facts,           \* what a machine is: identity |-> totals, cores, ...
    Storage,         \* what a probe of the storage may measure
    Memory,          \* the host memory that may be available
    Models,          \* the models an engine may load
    Overrides,       \* what the environment may set
    MaxChanges,      \* bound: changes of the machine
    MaxStarts        \* bound: starts of a process

\* What a machine and a model are, and what a probe may measure: a core at least, sizes that are
\* no less than nothing, rates of reads of one or more at a time.
ASSUME StartupAssumption ==
    /\ Facts \in [Machines -> [device : Nat, torch : Nat, deviceTotal : Nat, deviceBandwidth : Nat, fragmentation : Nat \cup {None},
                             workspace : Nat, hostTotal : Nat, cpu : Nat \ {0}, charges : BOOLEAN,
                             commit : Nat, link : Nat, bf16 : BOOLEAN, fp16 : BOOLEAN, fused : BOOLEAN]]
    /\ \A rates \in Storage : IsFiniteSet(DOMAIN rates) /\ DOMAIN rates \subseteq Nat \ {0}
    /\ Memory \subseteq Nat
    /\ \A model \in Models : model.largest \in Nat /\ model.windowMax \in Nat \cup {None}

VARIABLES
    machine, available, shards, leftover,   \* the world: the files beside the weights, too
    files,                                  \* the cache directory: fingerprint |-> content
    pc, env, profile, engine,               \* the processes: what the environment sets, ...
    seen,                                   \* the memory that was available at derive
    changes, starts
world == <<machine, available, shards, leftover>>
process == <<pc, env, profile, engine, seen>>
startupVars == <<world, files, process, changes, starts>>

Torn == [written |-> FALSE]
NoOverrides == [name \in {} |-> 0]
NoProfile == [measured |-> FALSE]
NoEngine == [built |-> FALSE]

StartupInit ==
    /\ machine \in Machines /\ available \in Memory
    /\ shards \in BOOLEAN /\ leftover = FALSE
    /\ files = [name \in {} |-> Torn]
    /\ pc = [p \in Procs |-> "off"]
    /\ env = [p \in Procs |-> NoOverrides]
    /\ profile = [p \in Procs |-> NoProfile]
    /\ engine = [p \in Procs |-> NoEngine]
    /\ seen = [p \in Procs |-> 0]
    /\ changes = 0 /\ starts = 0

(***************************************************************************)
(* The world.  Hardware and software are replaced while nothing runs.      *)
(***************************************************************************)
Changed == changes < MaxChanges /\ changes' = changes + 1 /\ UNCHANGED <<files, process, starts>>
UseMemory == Changed /\ \E a \in Memory \ {available} : available' = a /\ UNCHANGED <<machine, shards, leftover>>
Replace == /\ Changed /\ \A p \in Procs : pc[p] = "off"
           /\ \E m \in Machines \ {machine} : machine' = m
           /\ UNCHANGED <<available, shards, leftover>>
Split == Changed /\ ~shards /\ shards' = TRUE /\ UNCHANGED <<machine, available, leftover>>

(***************************************************************************)
(* The name of a cached profile, as a probe computes it from what it       *)
(* measured and a lookup from cheap queries.  device stands for all that   *)
(* names the device, torch for the version of torch and the platform.  The *)
(* driver, the kernels that are installed, the link, the commit limit and  *)
(* what the allocator was measured to do are not in it.                    *)
(***************************************************************************)
Identity == {"device", "torch", "deviceTotal", "hostTotal", "cpu"}
\* Broken variant: the fingerprint leaves the host out
FingerprintOfDevice(facts) == [fact \in Identity \ {"hostTotal", "cpu"} |-> facts[fact]]
Fingerprint(facts) == [fact \in Identity |-> facts[fact]]
OwnName == Fingerprint(Facts[machine])

(***************************************************************************)
(* load_or_probe.                                                          *)
(***************************************************************************)
Start(p) ==
    /\ pc[p] = "off" /\ starts < MaxStarts
    /\ starts' = starts + 1
    /\ \E o \in Overrides : env' = [env EXCEPT ![p] = o]
    /\ \E reprofile \in BOOLEAN : pc' = [pc EXCEPT ![p] = IF reprofile THEN "probe" ELSE "look"]
    /\ UNCHANGED <<world, files, profile, engine, seen, changes>>

\* What a process does once it has a measurement, its own or a cached one: derive the knobs,
\* with what its environment sets.
Knobs(p, record) == Derive(record.of, env[p])
Uses(p, record) ==
    /\ profile' = [profile EXCEPT ![p] = [measured |-> TRUE, of |-> record.of, derived |-> Knobs(p, record)]]
    /\ seen' = [seen EXCEPT ![p] = available]

Readable == OwnName \in DOMAIN files /\ files[OwnName].written
Look(p) ==
    /\ pc[p] = "look"
    /\ IF Readable
       THEN /\ pc' = [pc EXCEPT ![p] = "ready"]
            /\ Uses(p, files[OwnName])
       ELSE /\ pc' = [pc EXCEPT ![p] = "probe"]
            /\ UNCHANGED <<profile, seen>>
    /\ UNCHANGED <<world, files, env, engine, changes, starts>>

\* Nothing to read: a file of its own, on the same filesystem.  A file a killed probe left
\* behind is found like any other.
Synthetic(p) ==
    /\ pc[p] = "probe" /\ ~shards /\ ~leftover
    /\ leftover' = TRUE
    /\ pc' = [pc EXCEPT ![p] = "synthetic"]
    /\ UNCHANGED <<machine, available, shards, files, env, profile, engine, seen, changes, starts>>

\* measure_storage tries up to two reads at once for each core; reads that fail or come too late
\* leave no rate.
Levels(identity) == 2 * Facts[identity].cpu
Sampled(identity) == {rates \in Storage : \A level \in DOMAIN rates : level <= Levels(identity)}
Measurement(rates) ==
    [field \in DOMAIN Facts[machine] \cup {"hostAvailable", "rates"} |->
        CASE field = "hostAvailable" -> available
          [] field = "rates" -> rates
          [] OTHER -> Facts[machine][field]]
Probe(p) ==
    /\ pc[p] = "synthetic" \/ (pc[p] = "probe" /\ (shards \/ leftover))
    /\ \E rates \in Sampled(machine) :
         Uses(p, [of |-> Measurement(rates)])
    /\ leftover' = IF pc[p] = "synthetic" THEN FALSE ELSE leftover
    /\ pc' = [pc EXCEPT ![p] = "save"]
    /\ UNCHANGED <<machine, available, shards, files, env, engine, changes, starts>>

(***************************************************************************)
(* save: the file is emptied, then written.  A disk that is full leaves it *)
(* as it is, and the process goes on without it.                           *)
(***************************************************************************)
Written(p) == [written |-> TRUE, of |-> profile[p].of, derived |-> profile[p].derived]
Put(content, p) == files' = [name \in DOMAIN files \cup {Fingerprint(profile[p].of)} |->
                                 IF name = Fingerprint(profile[p].of) THEN content ELSE files[name]]
Empty(p) ==
    /\ pc[p] = "save"
    /\ Put(Torn, p)
    /\ pc' = [pc EXCEPT ![p] = "saving"]
    /\ UNCHANGED <<world, env, profile, engine, seen, changes, starts>>
Fill(p) ==
    /\ pc[p] = "saving"
    /\ Put(Written(p), p)
    /\ pc' = [pc EXCEPT ![p] = "ready"]
    /\ UNCHANGED <<world, env, profile, engine, seen, changes, starts>>
SaveFails(p) ==
    /\ pc[p] \in {"save", "saving"}
    /\ pc' = [pc EXCEPT ![p] = "ready"]
    /\ UNCHANGED <<world, files, env, profile, engine, seen, changes, starts>>

(***************************************************************************)
(* An engine sizes its cache; what is free on the device is what others    *)
(* leave of it, or is not reported.                                        *)
(***************************************************************************)
Build(p) ==
    /\ pc[p] = "ready"
    /\ \E model \in Models, free \in {None, profile[p].of.deviceTotal \div 4} :
         engine' = [engine EXCEPT ![p] = [built |-> TRUE, model |-> model,
                                       sizes |-> Engine(profile[p].derived, model, free)]]
    /\ pc' = [pc EXCEPT ![p] = "running"]
    /\ UNCHANGED <<world, files, env, profile, seen, changes, starts>>

Exit(p) ==
    /\ pc[p] # "off"
    /\ pc' = [pc EXCEPT ![p] = "off"]
    /\ profile' = [profile EXCEPT ![p] = NoProfile]
    /\ engine' = [engine EXCEPT ![p] = NoEngine]
    /\ seen' = [seen EXCEPT ![p] = 0]
    /\ env' = [env EXCEPT ![p] = NoOverrides]
    /\ UNCHANGED <<world, files, changes, starts>>

Works(p) == Look(p) \/ Synthetic(p) \/ Probe(p) \/ Empty(p) \/ Fill(p) \/ SaveFails(p) \/ Build(p)
StartupNext == UseMemory \/ Replace \/ Split \/ \E p \in Procs : Start(p) \/ Works(p) \/ Exit(p)
StartupSpec == StartupInit /\ [][StartupNext]_startupVars /\ \A p \in Procs : WF_startupVars(Works(p))

(***************************************************************************)
(* Properties.                                                             *)
(***************************************************************************)
\* "Moving to a different machine, swapping a card or upgrading torch invalidates it automatically"
\* (load_or_probe): a profile in use says of the device, of torch and of the host what is so now,
\* whoever wrote the file, and whatever was killed while it was written.
OwnMachine ==
    \A p \in Procs : profile[p].measured =>
        \A fact \in {"device", "torch", "deviceTotal", "hostTotal", "cpu"} : profile[p].of[fact] = Facts[machine][fact]

\* The knobs never promise more than was measured: the weight cache, the staging pool and the
\* prefix cache together fit in what was available beyond the headroom; the window and the
\* reserve in the device; the workers in the cores, at a level the storage was measured at
\* (derive).  A running engine holds no more layers than its window budget, or just one.
Fits(m, derived) ==
    /\ derived.hostCache + derived.staging + derived.prefix <= AtLeast(Spendable(m), 0)
    /\ AtMost(derived.reserve, m.deviceTotal) + derived.window <= m.deviceTotal
    /\ derived.workers \in 1..m.cpu
    /\ derived.workers = 1 \/ \E level \in DOMAIN m.rates : derived.workers <= level
EngineFits(e, derived) ==
    /\ e.sizes.window <= e.sizes.device
    /\ e.sizes.layers = 1 \/ e.sizes.layers * e.model.largest <= derived.window
BudgetsFit ==
    \A p \in Procs :
        /\ profile[p].measured => Fits(profile[p].of, profile[p].derived)
        /\ engine[p].built => EngineFits(engine[p], profile[p].derived)

\* "Derivations are cheap and depend on live free memory and on overrides, so they are
\* recomputed even on a cache hit" (load_or_probe): the shares of the host fit in the memory that
\* was available when they were derived.
LiveMemoryIsRespected ==
    \A p \in Procs : profile[p].measured =>
        LET derived == profile[p].derived IN derived.hostCache + derived.staging + derived.prefix <= seen[p]

\* "A torch upgrade can change allocator behaviour and kernel availability, which changes what we
\* would derive", so a change of software is to be noticed (_compute_fingerprint): nothing in a
\* profile in use is other than on the machine it is used on.
NothingIsStale ==
    \A p \in Procs : profile[p].measured =>
        \A fact \in DOMAIN Facts[machine] : profile[p].of[fact] = Facts[machine][fact]
===============================================================================
