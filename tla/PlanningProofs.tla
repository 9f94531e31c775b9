---------------------------- MODULE PlanningProofs -----------------------------
(***************************************************************************)
(* From what a machine is measured to be to what stays on its device.      *)
(*                                                                         *)
(* Startup: what holds of the cached profile for every number of processes *)
(* and machines, every measurement and every environment; and that the     *)
(* knobs derived from any measurement promise no more than was measured,   *)
(* as long as the environment sets none of the shares itself.              *)
(*                                                                         *)
(* Placement: the greedy fill leaves nothing out that had room in its      *)
(* class, and a new capacity is met at once, for any units, sizes and      *)
(* routes, and for every course the memory of the device may take.         *)
(***************************************************************************)
EXTENDS Startup, Placement, Collections, TLAPS

-------------------------------------------------------------------------------
(***************************************************************************)
(* Startup.                                                                *)
(***************************************************************************)
Functions ==
    /\ pc = [p \in Procs |-> pc[p]]
    /\ env = [p \in Procs |-> env[p]]
    /\ profile = [p \in Procs |-> profile[p]]

\* A file is named for the identity of the machine its measurement was taken on, whoever wrote it.
FilesAreNamed == \A name \in DOMAIN files : files[name].written => Fingerprint(files[name].of) = name

\* A process that is off has no profile; one that has a profile runs on a machine of the identity
\* it is of, and derived its knobs from it under its own environment.
ProfilesAreOwn ==
    \A p \in Procs : profile[p].measured =>
        /\ pc[p] # "off"
        /\ Fingerprint(profile[p].of) = OwnName
        /\ profile[p].derived = Derive(profile[p].of, env[p])

ProfileInv == Functions /\ machine \in Machines /\ FilesAreNamed /\ ProfilesAreOwn

\* What is measured of a machine has the identity that a lookup finds.
LEMMA MeasuredIsNamed == ASSUME machine \in Machines, NEW rates PROVE Fingerprint(Measurement(rates)) = OwnName
<1> DEFINE f == Facts[machine]
           x == Measurement(rates)
<1>1. Identity \subseteq DOMAIN f BY StartupAssumption DEF StartupAssumption, Identity
<1>2. \A fact \in Identity : fact \notin {"hostAvailable", "rates"} BY DEF Identity
<1>3. x = [field \in DOMAIN f \cup {"hostAvailable", "rates"} |->
              CASE field = "hostAvailable" -> available [] field = "rates" -> rates [] OTHER -> f[field]]
  BY DEF Measurement
<1> HIDE DEF f, x
<1>4. \A fact \in Identity : x[fact] = f[fact] BY <1>1, <1>2, <1>3
<1>5. Fingerprint(x) = Fingerprint(f) BY <1>4 DEF Fingerprint
<1> QED BY <1>5 DEF OwnName, f, x

\* A step that gives p a measurement of this machine.
LEMMA UsesKeeps ==
  ASSUME ProfileInv, NEW p \in Procs, NEW record, Uses(p, record), Fingerprint(record.of) = OwnName,
         NEW q, q # "off", pc' = [pc EXCEPT ![p] = q], UNCHANGED <<machine, files, env>>
  PROVE  ProfileInv'
<1>1. profile' = [profile EXCEPT ![p] =
                     [measured |-> TRUE, of |-> record.of, derived |-> Derive(record.of, env[p])]]
  BY DEF Uses, Knobs
<1>0. OwnName' = OwnName BY DEF OwnName
<1>2. Functions' /\ machine' \in Machines /\ FilesAreNamed' BY <1>1 DEF ProfileInv, Functions, FilesAreNamed
<1>3. /\ profile'[p].of = record.of /\ profile'[p].derived = Derive(record.of, env[p]) /\ pc'[p] = q
      /\ \A x \in Procs \ {p} : profile'[x] = profile[x] /\ pc'[x] = pc[x]
  BY <1>1 DEF ProfileInv, Functions
<1>4. \A x \in Procs \ {p} : profile'[x].measured =>
          pc'[x] # "off" /\ Fingerprint(profile'[x].of) = OwnName' /\ profile'[x].derived = Derive(profile'[x].of, env'[x])
  BY <1>0, <1>3 DEF ProfileInv, ProfilesAreOwn
<1>5. pc'[p] # "off" /\ Fingerprint(profile'[p].of) = OwnName' /\ profile'[p].derived = Derive(profile'[p].of, env'[p])
  BY <1>0, <1>3
<1>6. ProfilesAreOwn' BY <1>4, <1>5 DEF ProfilesAreOwn
<1> QED BY <1>2, <1>6 DEF ProfileInv

\* A step of a process that keeps its profile, and leaves every file named for its machine.
LEMMA GoesOn ==
  ASSUME ProfileInv, NEW p \in Procs, NEW q, q # "off", pc' = [pc EXCEPT ![p] = q],
         UNCHANGED <<machine, env, profile>>, FilesAreNamed'
  PROVE  ProfileInv'
<1>1. Functions' BY DEF ProfileInv, Functions
<1>2. \A x \in Procs : pc[x] # "off" => pc'[x] # "off" BY DEF ProfileInv, Functions
<1>3. OwnName' = OwnName BY DEF OwnName
<1>4. ProfilesAreOwn' BY <1>2, <1>3 DEF ProfileInv, ProfilesAreOwn
<1> QED BY <1>1, <1>4 DEF ProfileInv

\* A save, whole or cut short, leaves the file under the name of what was measured.
LEMMA SavesKeep ==
  ASSUME ProfileInv, NEW p \in Procs, Empty(p) \/ Fill(p) \/ SaveFails(p)
  PROVE  FilesAreNamed'
<1>1. CASE Empty(p) BY <1>1 DEF ProfileInv, FilesAreNamed, Empty, Put, Torn
<1>2. CASE Fill(p) BY <1>2 DEF ProfileInv, FilesAreNamed, Fill, Put, Written
<1>3. CASE SaveFails(p) BY <1>3 DEF ProfileInv, FilesAreNamed, SaveFails
<1> QED BY <1>1, <1>2, <1>3

\* A step of a running process keeps the invariant.
LEMMA WorksKeep ==
  ASSUME ProfileInv, NEW p \in Procs, Works(p)
  PROVE  ProfileInv'
<1>0. FilesAreNamed BY DEF ProfileInv
<1>1. CASE Look(p)
  <2>1. CASE Readable
    <3>1. Fingerprint(files[OwnName].of) = OwnName
      BY <1>0, <2>1 DEF Readable, FilesAreNamed
    <3>2. Uses(p, files[OwnName]) /\ pc' = [pc EXCEPT ![p] = "ready"] /\ UNCHANGED <<machine, files, env>>
      BY <1>1, <2>1 DEF Look, world
    <3> QED BY <3>1, <3>2, UsesKeeps
  <2>2. CASE ~Readable
    <3>1. pc' = [pc EXCEPT ![p] = "probe"] /\ UNCHANGED <<machine, files, env, profile>>
      BY <1>1, <2>2 DEF Look, world
    <3>2. FilesAreNamed' BY <1>0, <3>1 DEF FilesAreNamed
    <3> QED BY <3>1, <3>2, GoesOn
  <2> QED BY <2>1, <2>2
<1>2. CASE Synthetic(p)
  <2>1. pc' = [pc EXCEPT ![p] = "synthetic"] /\ UNCHANGED <<machine, files, env, profile>>
    BY <1>2 DEF Synthetic
  <2>2. FilesAreNamed' BY <1>0, <2>1 DEF FilesAreNamed
  <2> QED BY <2>1, <2>2, GoesOn
<1>3. CASE Probe(p)
  <2>1. PICK rates : Uses(p, [of |-> Measurement(rates)]) BY <1>3 DEF Probe
  <2>2. Fingerprint([of |-> Measurement(rates)].of) = OwnName
    <3>1. [of |-> Measurement(rates)].of = Measurement(rates) OBVIOUS
    <3>2. Fingerprint(Measurement(rates)) = OwnName BY MeasuredIsNamed DEF ProfileInv
    <3> QED BY <3>1, <3>2
  <2>3. pc' = [pc EXCEPT ![p] = "save"] /\ UNCHANGED <<machine, files, env>> BY <1>3 DEF Probe
  <2> QED BY <2>1, <2>2, <2>3, UsesKeeps
<1>4. CASE Empty(p)
  <2>1. pc' = [pc EXCEPT ![p] = "saving"] /\ UNCHANGED <<machine, env, profile>> BY <1>4 DEF Empty, world
  <2> QED BY <1>4, <2>1, SavesKeep, GoesOn
<1>5. CASE Fill(p)
  <2>1. pc' = [pc EXCEPT ![p] = "ready"] /\ UNCHANGED <<machine, env, profile>> BY <1>5 DEF Fill, world
  <2> QED BY <1>5, <2>1, SavesKeep, GoesOn
<1>6. CASE SaveFails(p)
  <2>1. pc' = [pc EXCEPT ![p] = "ready"] /\ UNCHANGED <<machine, env, profile>> BY <1>6 DEF SaveFails, world
  <2> QED BY <1>6, <2>1, SavesKeep, GoesOn
<1>7. CASE Build(p)
  <2>1. pc' = [pc EXCEPT ![p] = "running"] /\ UNCHANGED <<machine, files, env, profile>> BY <1>7 DEF Build, world
  <2>2. FilesAreNamed' BY <1>0, <2>1 DEF FilesAreNamed
  <2> QED BY <2>1, <2>2, GoesOn
<1> QED BY <1>1, <1>2, <1>3, <1>4, <1>5, <1>6, <1>7 DEF Works

\* So does every step.
LEMMA ProfileInvKept == ProfileInv /\ [StartupNext]_startupVars => ProfileInv'
<1> SUFFICES ASSUME ProfileInv, [StartupNext]_startupVars PROVE ProfileInv' OBVIOUS
<1>1. ASSUME UNCHANGED <<files, process>>, machine' \in Machines,
             UNCHANGED machine \/ \A p \in Procs : pc[p] = "off"
      PROVE  ProfileInv'
  BY <1>1 DEF process, ProfileInv, Functions, FilesAreNamed, ProfilesAreOwn, OwnName
<1>0. machine \in Machines BY DEF ProfileInv
<1>2. CASE UseMemory \/ Split BY <1>0, <1>1, <1>2 DEF UseMemory, Split, Changed
<1>3. CASE Replace BY <1>1, <1>3 DEF Replace, Changed
<1>4. ASSUME NEW p \in Procs, Start(p) PROVE ProfileInv'
  <2>1. ~profile[p].measured BY <1>4 DEF Start, ProfileInv, ProfilesAreOwn
  <2>2. PICK o \in Overrides : env' = [env EXCEPT ![p] = o] BY <1>4 DEF Start
  <2>3. PICK q \in {"probe", "look"} : pc' = [pc EXCEPT ![p] = q] BY <1>4 DEF Start
  <2>4. UNCHANGED <<machine, files, profile>> BY <1>4 DEF Start, world
  <2>5. \A x \in Procs \ {p} : env'[x] = env[x] /\ pc'[x] = pc[x] BY <2>2, <2>3 DEF ProfileInv, Functions
  <2>6. ProfilesAreOwn' BY <2>1, <2>4, <2>5 DEF ProfileInv, ProfilesAreOwn, OwnName
  <2>7. Functions' /\ FilesAreNamed' BY <2>2, <2>3, <2>4 DEF ProfileInv, Functions, FilesAreNamed
  <2> QED BY <1>0, <2>4, <2>6, <2>7 DEF ProfileInv
<1>5. ASSUME NEW p \in Procs, Works(p) PROVE ProfileInv' BY <1>5, WorksKeep
<1>6. ASSUME NEW p \in Procs, Exit(p) PROVE ProfileInv'
  <2>1. /\ profile' = [profile EXCEPT ![p] = NoProfile] /\ pc' = [pc EXCEPT ![p] = "off"]
        /\ env' = [env EXCEPT ![p] = NoOverrides] /\ UNCHANGED <<machine, files>>
    BY <1>6 DEF Exit, world
  <2>2. Functions' /\ FilesAreNamed' BY <2>1 DEF ProfileInv, Functions, FilesAreNamed
  <2>3. \A x \in Procs \ {p} : profile'[x] = profile[x] /\ env'[x] = env[x] /\ pc'[x] = pc[x]
    BY <2>1 DEF ProfileInv, Functions
  <2>4. ~profile'[p].measured BY <2>1 DEF ProfileInv, Functions, NoProfile
  <2>5. ProfilesAreOwn' BY <2>1, <2>3, <2>4 DEF ProfileInv, ProfilesAreOwn, OwnName
  <2> QED BY <1>0, <2>1, <2>2, <2>5 DEF ProfileInv
<1>7. CASE UNCHANGED startupVars BY <1>0, <1>1, <1>7 DEF startupVars, world
<1> QED BY <1>2, <1>3, <1>4, <1>5, <1>6, <1>7 DEF StartupNext

\* There is no file and no process at the start.
LEMMA ProfileInvInit == StartupInit => ProfileInv
<1> SUFFICES ASSUME StartupInit PROVE ProfileInv OBVIOUS
<1>1. Functions /\ machine \in Machines BY DEF StartupInit, Functions
<1>2. FilesAreNamed BY DEF StartupInit, FilesAreNamed
<1>3. ProfilesAreOwn BY DEF StartupInit, ProfilesAreOwn, NoProfile
<1> QED BY <1>1, <1>2, <1>3 DEF ProfileInv

\* Profiles of one fingerprint say the same of each fact it is made from.
LEMMA SameFacts ==
  ASSUME NEW one, NEW other, Fingerprint(one) = Fingerprint(other)
  PROVE  \A fact \in Identity : one[fact] = other[fact]
<1>1. \A fact \in Identity : Fingerprint(one)[fact] = one[fact] /\ Fingerprint(other)[fact] = other[fact]
  BY DEF Fingerprint
<1> QED BY <1>1

(***************************************************************************)
(* load_or_probe never uses a profile of another device, torch or host,    *)
(* whatever files other processes, killed or not, have left, and however   *)
(* often the machine is replaced.  Of the rest, kernels among it, nothing  *)
(* of the kind holds: StartupStale.cfg.                                    *)
(***************************************************************************)
THEOREM ProfileIsOwn == StartupSpec => []OwnMachine
<1>1. ProfileInv => OwnMachine
  <2> SUFFICES ASSUME ProfileInv, NEW p \in Procs, profile[p].measured,
                      NEW fact \in {"device", "torch", "deviceTotal", "hostTotal", "cpu"}
      PROVE  profile[p].of[fact] = Facts[machine][fact]
    BY DEF OwnMachine
  <2>1. Fingerprint(profile[p].of) = Fingerprint(Facts[machine]) BY DEF ProfileInv, ProfilesAreOwn, OwnName
  <2>2. fact \in Identity BY DEF Identity
  <2> QED BY <2>1, <2>2, SameFacts
<1> QED BY <1>1, ProfileInvInit, ProfileInvKept, PTL DEF StartupSpec

-------------------------------------------------------------------------------
(* What is derived from a measurement fits in it. *)

\* What is measured: of a machine, with rates of some reads of one or more at a time.
Sound(m) ==
    /\ m.deviceTotal \in Nat /\ m.hostTotal \in Nat /\ m.hostAvailable \in Nat
    /\ m.cpu \in Nat \ {0} /\ m.workspace \in Nat /\ m.fragmentation \in Nat \cup {None}
    /\ IsFiniteSet(DOMAIN m.rates) /\ DOMAIN m.rates \subseteq Nat \ {0}

\* What the environment may set for the shares to add up: a reserve, and how much of the rest the
\* window is, but none of the shares that are given out.
Modest(o) ==
    /\ DOMAIN o \cap {"window", "hostCache", "staging", "prefix", "workers"} = {}
    /\ "reserve" \in DOMAIN o => o["reserve"] \in Nat
    /\ "windowShare" \in DOMAIN o => o["windowShare"] \in 0 .. 100

\* The larger and the smaller of two.
LEMMA Clamped ==
  ASSUME NEW x \in Int, NEW y \in Int
  PROVE  AtLeast(x, y) = (IF x >= y THEN x ELSE y) /\ AtMost(x, y) = (IF x <= y THEN x ELSE y)
<1>1. Max({x, y}) \in {x, y} /\ \A z \in {x, y} : Max({x, y}) >= z
  <2>1. \E m \in {x, y} : \A z \in {x, y} : m >= z OBVIOUS
  <2> QED BY <2>1 DEF Max
<1>2. Min({x, y}) \in {x, y} /\ \A z \in {x, y} : Min({x, y}) <= z
  <2>1. \E m \in {x, y} : \A z \in {x, y} : m <= z OBVIOUS
  <2> QED BY <2>1 DEF Min
<1> QED BY <1>1, <1>2 DEF AtLeast, AtMost

\* A percentage of something is no more than it.
LEMMA PercentWithin ==
  ASSUME NEW x \in Nat, NEW percent \in 0 .. 100
  PROVE  Percent(x, percent) \in 0 .. x
<1>1. x * percent \in Nat /\ x * percent <= x * 100
  <2>1. \A a, b, c \in Nat : b <= c => a * b \in Nat /\ a * b <= a * c OBVIOUS
  <2> QED BY <2>1
<1> DEFINE n == x * percent
<1>2. n \in Nat /\ n <= x * 100 BY <1>1
<1>3. Percent(x, percent) = n \div 100 BY DEF Percent
<1> HIDE DEF n
<1>4. n \div 100 \in Nat /\ n \div 100 <= x BY <1>2
<1> QED BY <1>3, <1>4

\* Nor is the share b / c of something, when b is no more than c.
LEMMA Scaled ==
  ASSUME NEW a \in Nat, NEW b \in Nat, NEW c \in Nat \ {0}, b <= c
  PROVE  (a * b) \div c \in 0 .. a
<1> DEFINE n == a * b
           q == n \div c
<1>1. n \in Nat /\ n <= a * c
  <2>1. \A x, y, z \in Nat : y <= z => x * y \in Nat /\ x * y <= x * z OBVIOUS
  <2> QED BY <2>1
<1> HIDE DEF n
<1>2. q \in Nat /\ c * q <= n BY <1>1
<1> HIDE DEF q
<1>3. q <= a
  <2>1. SUFFICES ASSUME q > a PROVE FALSE BY <1>2
  <2>2. c * q >= c * (a + 1)
    <3>1. \A x, y, z \in Nat : y <= z => x * y \in Nat /\ x * y <= x * z OBVIOUS
    <3> QED BY <1>2, <2>1, <3>1
  <2>3. c * (a + 1) = a * c + c OBVIOUS
  <2>4. c * q \in Nat /\ c * (a + 1) \in Nat /\ a * c \in Nat BY <1>2
  <2> QED BY <1>1, <1>2, <2>2, <2>3, <2>4
<1> QED BY <1>2, <1>3 DEF n, q

\* The reserve is no more than the device.
LEMMA ReserveWithin == ASSUME NEW m, Sound(m) PROVE DeriveReserve(m) \in 0 .. m.deviceTotal
<1>1. m.deviceTotal \in Nat /\ m.workspace \in Nat BY DEF Sound
<1>2. CASE m.deviceTotal = 0 BY <1>2 DEF DeriveReserve
<1>3. CASE m.deviceTotal # 0
  <2> DEFINE part == Percent(m.deviceTotal, OrZero(m.fragmentation))
             most == Percent(m.deviceTotal, ReserveCeiling)
  <2>1. part \in Int
    <3>1. OrZero(m.fragmentation) \in Nat BY DEF Sound, OrZero
    <3>2. \A a, b \in Nat : a * b \in Nat OBVIOUS
    <3>3. m.deviceTotal * OrZero(m.fragmentation) \in Nat BY <1>1, <3>1, <3>2
    <3> DEFINE n == m.deviceTotal * OrZero(m.fragmentation)
    <3> HIDE DEF n
    <3>4. n \in Nat BY <3>3 DEF n
    <3>5. part = n \div 100 BY DEF Percent, n
    <3> QED BY <3>4, <3>5
  <2>2. most \in 0 .. m.deviceTotal
    <3>1. ReserveCeiling \in 0 .. 100 BY DEF ReserveCeiling
    <3> QED BY <1>1, <3>1, PercentWithin
  <2>3. DeriveReserve(m) = AtMost(AtLeast(m.workspace, part), most) BY <1>3 DEF DeriveReserve
  <2> HIDE DEF part, most
  <2>4. AtLeast(m.workspace, part) \in Nat BY <1>1, <2>1, Clamped
  <2> QED BY <1>1, <2>2, <2>3, <2>4, Clamped
<1> QED BY <1>2, <1>3

\* The shares of the host together are no more than what there is beyond the headroom.
LEMMA SharesWithin ==
  ASSUME NEW m, Sound(m)
  PROVE  HostShare(m, HostCacheShare) + HostShare(m, StagingShare) + HostShare(m, PrefixShare)
            <= AtLeast(Spendable(m), 0)
<1> DEFINE s == Spendable(m)
<1>1. s \in Int BY DEF Sound, Spendable, Percent, OsHeadroom
<1>2. \A percent \in {HostCacheShare, StagingShare, PrefixShare} :
        HostShare(m, percent) = AtLeast((s * percent) \div 100, 0)
  BY DEF HostShare, Percent
<1> HIDE DEF s
<1>3. /\ HostShare(m, HostCacheShare) = AtLeast((s * 50) \div 100, 0)
      /\ HostShare(m, StagingShare) = AtLeast((s * 10) \div 100, 0)
      /\ HostShare(m, PrefixShare) = AtLeast((s * 15) \div 100, 0)
  BY <1>2 DEF HostCacheShare, StagingShare, PrefixShare
<1>4. (s * 50) \div 100 \in Int /\ (s * 10) \div 100 \in Int /\ (s * 15) \div 100 \in Int BY <1>1
<1> DEFINE a == (s * 50) \div 100
           b == (s * 10) \div 100
           c == (s * 15) \div 100
<1>5. a \in Int /\ b \in Int /\ c \in Int BY <1>4
<1>6. s >= 0 => 0 <= a /\ 0 <= b /\ 0 <= c /\ a + b + c <= s BY <1>1
<1>7. s < 0 => a <= 0 /\ b <= 0 /\ c <= 0 BY <1>1
<1> HIDE DEF a, b, c
<1>8. /\ HostShare(m, HostCacheShare) = IF a >= 0 THEN a ELSE 0
      /\ HostShare(m, StagingShare) = IF b >= 0 THEN b ELSE 0
      /\ HostShare(m, PrefixShare) = IF c >= 0 THEN c ELSE 0
      /\ AtLeast(s, 0) = IF s >= 0 THEN s ELSE 0
  <2>1. /\ HostShare(m, HostCacheShare) = AtLeast(a, 0) /\ HostShare(m, StagingShare) = AtLeast(b, 0)
        /\ HostShare(m, PrefixShare) = AtLeast(c, 0)
    BY <1>3 DEF a, b, c
  <2> QED BY <1>1, <1>5, <2>1, Clamped
<1>9. AtLeast(Spendable(m), 0) = AtLeast(s, 0) BY DEF s
<1> QED BY <1>1, <1>5, <1>6, <1>7, <1>8, <1>9

\* There are no more workers than cores, nor than reads that were measured at once.
LEMMA WorkersWithin ==
  ASSUME NEW m, Sound(m)
  PROVE  /\ IoWorkers(m) \in 1 .. m.cpu
         /\ IoWorkers(m) = 1 \/ \E level \in DOMAIN m.rates : IoWorkers(m) <= level
<1>1. m.cpu \in Nat \ {0} BY DEF Sound
<1>2. CASE SaturatingLevel(m) = None BY <1>1, <1>2 DEF IoWorkers
<1>3. CASE SaturatingLevel(m) # None
  <2> DEFINE near == {n \in DOMAIN m.rates : 100 * m.rates[n] >= BestRate(m) * (100 - Improvement)}
  <2>1. near # {} /\ SaturatingLevel(m) = Min(near) BY <1>3 DEF SaturatingLevel
  <2>2. near \in SUBSET Int /\ IsFiniteSet(near) /\ near \subseteq DOMAIN m.rates BY FS_Subset DEF Sound
  <2> HIDE DEF near
  <2>3. \E x \in near : \A y \in near : x <= y BY <2>1, <2>2, HasLeast
  <2>4. Min(near) \in near BY <2>3 DEF Min
  <2> DEFINE level == Min(near)
  <2>5. level \in DOMAIN m.rates /\ level \in Nat \ {0} BY <2>2, <2>4 DEF Sound
  <2>6. IoWorkers(m) = AtLeast(AtMost(level, m.cpu), 1) BY <1>3, <2>1 DEF IoWorkers
  <2> HIDE DEF level
  <2>7. IoWorkers(m) = IF level <= m.cpu THEN level ELSE m.cpu BY <1>1, <2>5, <2>6, Clamped
  <2> QED BY <1>1, <2>5, <2>7
<1> QED BY <1>2, <1>3

\* Whatever was measured, what is derived from it fits in it.
LEMMA DerivedFits ==
  ASSUME NEW m, Sound(m), NEW o, Modest(o)
  PROVE  /\ Fits(m, Derive(m, o))
         /\ Derive(m, o).usable \in Nat /\ Derive(m, o).reserve \in Nat
         /\ Derive(m, o).window \in 0 .. Derive(m, o).usable
<1> DEFINE d == Derive(m, o)
           percent == IF "windowShare" \in DOMAIN o THEN o["windowShare"] ELSE WindowShare
<1>1. /\ d.hostCache = HostShare(m, HostCacheShare) /\ d.staging = HostShare(m, StagingShare)
      /\ d.prefix = HostShare(m, PrefixShare) /\ d.workers = IoWorkers(m)
      /\ d.reserve = IF "reserve" \in DOMAIN o THEN o["reserve"] ELSE DeriveReserve(m)
      /\ d.usable = AtLeast(m.deviceTotal - d.reserve, 0)
      /\ d.window = Percent(d.usable, percent)
  BY DEF Derive, Modest
<1> HIDE DEF d
<1>2. percent \in 0 .. 100 BY DEF Modest, WindowShare
<1> HIDE DEF percent
<1>3. m.deviceTotal \in Nat BY DEF Sound
<1>4. d.reserve \in Nat BY <1>1, <1>3, ReserveWithin DEF Modest
<1>5. d.usable \in Nat /\ (d.reserve <= m.deviceTotal => d.usable = m.deviceTotal - d.reserve)
      /\ (d.reserve > m.deviceTotal => d.usable = 0)
  BY <1>1, <1>3, <1>4, Clamped
<1>6. d.window \in 0 .. d.usable BY <1>1, <1>2, <1>5, PercentWithin
<1>7. AtMost(d.reserve, m.deviceTotal) + d.window <= m.deviceTotal
  <2>1. AtMost(d.reserve, m.deviceTotal) = IF d.reserve <= m.deviceTotal THEN d.reserve ELSE m.deviceTotal
    BY <1>3, <1>4, Clamped
  <2> QED BY <1>3, <1>4, <1>5, <1>6, <2>1
<1>8. d.hostCache + d.staging + d.prefix <= AtLeast(Spendable(m), 0) BY <1>1, SharesWithin
<1>9. d.workers \in 1 .. m.cpu /\ (d.workers = 1 \/ \E level \in DOMAIN m.rates : d.workers <= level)
  BY <1>1, WorkersWithin
<1>10. Fits(m, d) BY <1>7, <1>8, <1>9 DEF Fits
<1> QED BY <1>4, <1>5, <1>6, <1>10 DEF d

\* More than one layer is held only as many times as the largest goes into the budget.
LEMMA LayersWithin ==
  ASSUME NEW budget \in Nat, NEW largest \in Nat, NEW cap \in Nat \cup {None}
  PROVE  LET n == WindowLayers(budget, largest, cap) IN n = 1 \/ n * largest <= budget
<1> DEFINE n == WindowLayers(budget, largest, cap)
           q == budget \div largest
           fits == AtLeast(q, 1)
<1>1. CASE largest = 0 BY <1>1 DEF WindowLayers
<1>2. CASE largest # 0
  <2>1. q \in Nat /\ q * largest <= budget
    <3>1. q \in Nat /\ largest * q <= budget BY <1>2
    <3>2. largest * q = q * largest BY <1>2, <3>1
    <3> QED BY <3>1, <3>2
  <2>2. n = AtLeast(AtMost(fits, IF cap = None THEN fits ELSE cap), 1) BY <1>2 DEF WindowLayers
  <2> HIDE DEF n, q
  <2>3. fits = IF q >= 1 THEN q ELSE 1 BY <2>1, Clamped
  <2> HIDE DEF fits
  <2>4. fits \in Nat /\ None \in Int BY <2>1, <2>3 DEF None
  <2> DEFINE c == IF cap = None THEN fits ELSE cap
  <2>5. c \in Nat BY <2>4
  <2> HIDE DEF c
  <2>6. n = AtLeast(AtMost(fits, c), 1) BY <2>2 DEF c
  <2>7. AtMost(fits, c) = IF fits <= c THEN fits ELSE c BY <2>4, <2>5, Clamped
  <2>8. n \in Nat /\ n >= 1 /\ (n = 1 \/ n <= fits) BY <2>4, <2>5, <2>6, <2>7, Clamped
  <2>9. CASE n # 1
    <3>1. n <= q BY <2>1, <2>3, <2>8, <2>9
    <3>2. n * largest <= q * largest
      <4>1. \A x, y, z \in Nat : x <= y => x * z <= y * z OBVIOUS
      <4> QED BY <2>1, <2>8, <3>1, <4>1
    <3>3. n * largest \in Nat /\ q * largest \in Nat
      <4>1. \A x, y \in Nat : x * y \in Nat OBVIOUS
      <4> QED BY <2>1, <2>8, <4>1
    <3> QED BY <2>1, <3>2, <3>3 DEF n
  <2> QED BY <2>9 DEF n
<1> QED BY <1>1, <1>2

\* An engine holds no more than its profile promises it.
LEMMA EngineWithin ==
  ASSUME NEW derived, derived.usable \in Nat, derived.reserve \in Nat,
         derived.window \in 0 .. derived.usable, NEW model \in Models, NEW free \in Nat \cup {None}
  PROVE  LET e == Engine(derived, model, free)
         IN  e.window <= e.device /\ (e.layers = 1 \/ e.layers * model.largest <= derived.window)
<1> DEFINE e == Engine(derived, model, free)
           device == IF free = None THEN derived.usable ELSE AtLeast(free - derived.reserve, 0)
<1>1. device \in Nat
  <2>1. CASE free = None BY <2>1
  <2>2. CASE free # None BY <2>2, Clamped
  <2> QED BY <2>1, <2>2
<1>2. /\ e.device = device
      /\ e.window = IF derived.usable = 0 THEN 0 ELSE (device * derived.window) \div derived.usable
      /\ e.layers = WindowLayers(derived.window, model.largest, model.windowMax)
  BY DEF Engine
<1> HIDE DEF e, device
<1>3. e.window <= e.device
  <2>1. CASE derived.usable = 0 BY <1>1, <1>2, <2>1
  <2>2. CASE derived.usable # 0
    <3>1. (device * derived.window) \div derived.usable \in 0 .. device BY <1>1, <2>2, Scaled
    <3> QED BY <1>1, <1>2, <2>2, <3>1
  <2> QED BY <2>1, <2>2
<1>4. model.largest \in Nat /\ model.windowMax \in Nat \cup {None} /\ derived.window \in Nat
  BY StartupAssumption DEF StartupAssumption
<1>5. e.layers = 1 \/ e.layers * model.largest <= derived.window BY <1>2, <1>4, LayersWithin
<1> QED BY <1>3, <1>5 DEF e

\* Every measurement in a file or in hand is sound; a process that gets past its probe has one, and
\* only one that runs has an engine, which its knobs were enough for.
Gauged == {"save", "saving", "ready", "running"}
BudgetInv ==
    /\ machine \in Machines /\ available \in Memory
    /\ engine = [p \in Procs |-> engine[p]]
    /\ \A m \in DOMAIN files : files[m].written => Sound(files[m].of)
    /\ \A p \in Procs :
        /\ pc[p] # "off" => env[p] \in Overrides
        /\ profile[p].measured => Sound(profile[p].of)
        /\ pc[p] \in Gauged => profile[p].measured
        /\ engine[p].built => pc[p] = "running" /\ EngineFits(engine[p], profile[p].derived)

\* A probe measures the machine as it is.
LEMMA MeasurementSound ==
  ASSUME machine \in Machines, available \in Memory, NEW rates \in Storage
  PROVE  Sound(Measurement(rates))
<1> DEFINE x == Measurement(rates)
           f == Facts[machine]
<1>1. /\ f.deviceTotal \in Nat /\ f.hostTotal \in Nat /\ f.cpu \in Nat \ {0} /\ f.workspace \in Nat
      /\ f.fragmentation \in Nat \cup {None}
      /\ {"deviceTotal", "hostTotal", "cpu", "workspace", "fragmentation"} \subseteq DOMAIN f
  BY StartupAssumption DEF StartupAssumption
<1>2. /\ x.deviceTotal = f.deviceTotal /\ x.hostTotal = f.hostTotal /\ x.cpu = f.cpu
      /\ x.workspace = f.workspace /\ x.fragmentation = f.fragmentation
      /\ x.hostAvailable = available /\ x.rates = rates
  BY <1>1 DEF Measurement
<1> HIDE DEF x, f
<1>3. IsFiniteSet(DOMAIN rates) /\ DOMAIN rates \subseteq Nat \ {0} /\ available \in Nat
  BY StartupAssumption DEF StartupAssumption
<1>4. Sound(x) BY <1>1, <1>2, <1>3 DEF Sound
<1> QED BY <1>4 DEF x

\* A step of a process that changes nothing but where it is, and perhaps a file.
LEMMA BudgetGoesOn ==
  ASSUME ProfileInv, BudgetInv, NEW p \in Procs, pc[p] \notin {"off", "running"},
         NEW q, q # "off", q \in Gauged => profile[p].measured,
         pc' = [pc EXCEPT ![p] = q], UNCHANGED <<machine, available, env, profile, engine>>,
         \A m \in DOMAIN files' : files'[m].written => Sound(files'[m].of)
  PROVE  BudgetInv'
<1>1. pc'[p] = q /\ \A x \in Procs \ {p} : pc'[x] = pc[x] BY DEF ProfileInv, Functions
<1>2. ~engine[p].built BY DEF BudgetInv
<1> QED BY <1>1, <1>2 DEF BudgetInv

\* A step of a process that takes a sound measurement up.
LEMMA BudgetUses ==
  ASSUME ProfileInv, BudgetInv, NEW p \in Procs, pc[p] \notin {"off", "running"}, NEW record,
         Uses(p, record), Sound(record.of), NEW q \in Gauged,
         pc' = [pc EXCEPT ![p] = q], UNCHANGED <<machine, available, files, env, engine>>
  PROVE  BudgetInv'
<1>1. pc'[p] = q /\ \A x \in Procs \ {p} : pc'[x] = pc[x] BY DEF ProfileInv, Functions
<1>2. ~engine[p].built BY DEF BudgetInv
<1>3. profile' = [profile EXCEPT ![p] =
                     [measured |-> TRUE, of |-> record.of, derived |-> Knobs(p, record)]]
  BY DEF Uses
<1>4. /\ profile'[p].measured /\ profile'[p].of = record.of
      /\ \A x \in Procs \ {p} : profile'[x] = profile[x]
  BY <1>3 DEF ProfileInv, Functions
<1>5. env[p] \in Overrides BY DEF BudgetInv
<1>6. \A x \in Procs \ {p} :
        /\ pc'[x] # "off" => env[x] \in Overrides
        /\ profile'[x].measured => Sound(profile'[x].of)
        /\ pc'[x] \in Gauged => profile'[x].measured
        /\ engine[x].built => pc'[x] = "running" /\ EngineFits(engine[x], profile'[x].derived)
  BY <1>1, <1>4 DEF BudgetInv
<1>7. ~engine'[p].built /\ env'[p] \in Overrides /\ profile'[p].measured /\ Sound(profile'[p].of)
  BY <1>2, <1>4, <1>5
<1> QED BY <1>6, <1>7 DEF BudgetInv

\* The steps of a running process.
LEMMA BudgetWorks ==
  ASSUME ProfileInv, BudgetInv, \A o \in Overrides : Modest(o), NEW p \in Procs, Works(p)
  PROVE  BudgetInv'
<1>1. \A m \in DOMAIN files : files[m].written => Sound(files[m].of) BY DEF BudgetInv
<1>2. CASE Look(p)
  <2>1. pc[p] = "look" /\ UNCHANGED <<machine, available, files, env, engine>> BY <1>2 DEF Look, world
  <2>2. CASE Readable
    <3>1. Uses(p, files[OwnName]) /\ pc' = [pc EXCEPT ![p] = "ready"] BY <1>2, <2>2 DEF Look
    <3>2. Sound(files[OwnName].of) BY <1>1, <2>2 DEF Readable
    <3> QED BY <2>1, <3>1, <3>2, BudgetUses DEF Gauged
  <2>3. CASE ~Readable
    <3>1. pc' = [pc EXCEPT ![p] = "probe"] /\ UNCHANGED profile BY <1>2, <2>3 DEF Look
    <3> QED BY <1>1, <2>1, <3>1, BudgetGoesOn DEF Gauged
  <2> QED BY <2>2, <2>3
<1>3. CASE Synthetic(p)
  <2>1. /\ pc[p] = "probe" /\ pc' = [pc EXCEPT ![p] = "synthetic"]
        /\ UNCHANGED <<machine, available, files, env, engine, profile>>
    BY <1>3 DEF Synthetic
  <2> QED BY <1>1, <2>1, BudgetGoesOn DEF Gauged
<1>4. CASE Probe(p)
  <2>1. PICK rates \in Storage : Uses(p, [of |-> Measurement(rates)]) BY <1>4 DEF Probe, Sampled
  <2>2. Sound(Measurement(rates)) BY MeasurementSound DEF BudgetInv
  <2>3. /\ pc[p] \in {"probe", "synthetic"} /\ pc' = [pc EXCEPT ![p] = "save"]
        /\ UNCHANGED <<machine, available, files, env, engine>>
    BY <1>4 DEF Probe
  <2> QED BY <2>1, <2>2, <2>3, BudgetUses DEF Gauged
<1>5. CASE Empty(p)
  <2>1. /\ pc[p] = "save" /\ pc' = [pc EXCEPT ![p] = "saving"]
        /\ UNCHANGED <<machine, available, env, engine, profile>>
    BY <1>5 DEF Empty, world
  <2>2. \A m \in DOMAIN files' : files'[m].written => Sound(files'[m].of)
    BY <1>1, <1>5 DEF Empty, Put, Torn
  <2>3. profile[p].measured BY <2>1 DEF BudgetInv, Gauged
  <2> QED BY <2>1, <2>2, <2>3, BudgetGoesOn
<1>6. CASE Fill(p)
  <2>1. /\ pc[p] = "saving" /\ pc' = [pc EXCEPT ![p] = "ready"]
        /\ UNCHANGED <<machine, available, env, engine, profile>>
    BY <1>6 DEF Fill, world
  <2>2. profile[p].measured /\ Sound(profile[p].of) BY <2>1 DEF BudgetInv, Gauged
  <2>3. \A m \in DOMAIN files' : files'[m].written => Sound(files'[m].of)
    BY <1>1, <1>6, <2>2 DEF Fill, Put, Written
  <2> QED BY <2>1, <2>2, <2>3, BudgetGoesOn
<1>7. CASE SaveFails(p)
  <2>1. /\ pc[p] \in {"save", "saving"} /\ pc' = [pc EXCEPT ![p] = "ready"]
        /\ UNCHANGED <<machine, available, files, env, engine, profile>>
    BY <1>7 DEF SaveFails, world
  <2>2. profile[p].measured BY <2>1 DEF BudgetInv, Gauged
  <2> QED BY <1>1, <2>1, <2>2, BudgetGoesOn
<1>8. CASE Build(p)
  <2>1. pc[p] = "ready" /\ pc' = [pc EXCEPT ![p] = "running"]
        /\ UNCHANGED <<machine, available, files, env, profile>>
    BY <1>8 DEF Build, world
  <2>2. PICK model \in Models, free \in {None, profile[p].of.deviceTotal \div 4} :
          engine' = [engine EXCEPT ![p] = [built |-> TRUE, model |-> model,
                                          sizes |-> Engine(profile[p].derived, model, free)]]
    BY <1>8 DEF Build
  <2>3. profile[p].measured /\ Sound(profile[p].of) /\ Modest(env[p])
    BY <2>1 DEF BudgetInv, Gauged
  <2> DEFINE d == profile[p].derived
  <2>4. d.usable \in Nat /\ d.reserve \in Nat /\ d.window \in 0 .. d.usable
    <3>1. d = Derive(profile[p].of, env[p]) BY <2>3 DEF ProfileInv, ProfilesAreOwn
    <3> QED BY <2>3, <3>1, DerivedFits
  <2>5. free \in Nat \cup {None} BY <2>3 DEF Sound
  <2> HIDE DEF d
  <2>6. LET e == Engine(d, model, free)
        IN  e.window <= e.device /\ (e.layers = 1 \/ e.layers * model.largest <= d.window)
    BY <2>4, <2>5, EngineWithin
  <2>7. /\ engine'[p].built /\ engine'[p].model = model /\ engine'[p].sizes = Engine(d, model, free)
        /\ \A x \in Procs \ {p} : engine'[x] = engine[x]
    BY <2>2 DEF BudgetInv, d
  <2>8. EngineFits(engine'[p], profile'[p].derived) BY <2>1, <2>6, <2>7 DEF EngineFits, d
  <2>9. pc'[p] = "running" /\ \A x \in Procs \ {p} : pc'[x] = pc[x] BY <2>1 DEF ProfileInv, Functions
  <2>10. engine' = [x \in Procs |-> engine'[x]] BY <2>2 DEF BudgetInv
  <2>11. env[p] \in Overrides BY <2>1 DEF BudgetInv
  <2>12. \A x \in Procs \ {p} :
           /\ pc'[x] # "off" => env[x] \in Overrides
           /\ profile[x].measured => Sound(profile[x].of)
           /\ pc'[x] \in Gauged => profile[x].measured
           /\ engine'[x].built => pc'[x] = "running" /\ EngineFits(engine'[x], profile[x].derived)
    BY <2>7, <2>9 DEF BudgetInv
  <2>13. machine \in Machines /\ available \in Memory BY DEF BudgetInv
  <2> QED BY <1>1, <2>1, <2>3, <2>8, <2>9, <2>10, <2>11, <2>12, <2>13 DEF BudgetInv
<1> QED BY <1>2, <1>3, <1>4, <1>5, <1>6, <1>7, <1>8 DEF Works

\* Every step keeps the budgets.
LEMMA BudgetInvKept ==
  ASSUME ProfileInv, BudgetInv, \A o \in Overrides : Modest(o), [StartupNext]_startupVars
  PROVE  BudgetInv'
<1>1. ASSUME UNCHANGED <<files, process>>, machine' \in Machines, available' \in Memory PROVE BudgetInv'
  BY <1>1 DEF process, BudgetInv
<1>2. CASE UseMemory \/ Split BY <1>1, <1>2 DEF UseMemory, Split, Changed, BudgetInv
<1>3. CASE Replace BY <1>1, <1>3 DEF Replace, Changed, BudgetInv
<1>4. ASSUME NEW p \in Procs, Start(p) PROVE BudgetInv'
  <2>1. PICK o \in Overrides : env' = [env EXCEPT ![p] = o] BY <1>4 DEF Start
  <2>2. PICK q \in {"probe", "look"} : pc' = [pc EXCEPT ![p] = q] BY <1>4 DEF Start
  <2>3. pc[p] = "off" /\ UNCHANGED <<machine, available, files, profile, engine>> BY <1>4 DEF Start, world
  <2>4. \A x \in Procs \ {p} : env'[x] = env[x] /\ pc'[x] = pc[x] BY <2>1, <2>2 DEF ProfileInv, Functions
  <2>5. env'[p] = o /\ pc'[p] = q BY <2>1, <2>2 DEF ProfileInv, Functions
  <2>6. ~engine[p].built /\ ~profile[p].measured BY <2>3 DEF BudgetInv, ProfileInv, ProfilesAreOwn
  <2>7. pc'[p] \notin Gauged BY <2>5 DEF Gauged
  <2> QED BY <2>3, <2>4, <2>5, <2>6, <2>7 DEF BudgetInv
<1>5. ASSUME NEW p \in Procs, Works(p) PROVE BudgetInv' BY <1>5, BudgetWorks
<1>6. ASSUME NEW p \in Procs, Exit(p) PROVE BudgetInv'
  <2>1. /\ profile' = [profile EXCEPT ![p] = NoProfile] /\ pc' = [pc EXCEPT ![p] = "off"]
        /\ env' = [env EXCEPT ![p] = NoOverrides] /\ engine' = [engine EXCEPT ![p] = NoEngine]
        /\ UNCHANGED <<machine, available, files>>
    BY <1>6 DEF Exit, world
  <2>2. \A x \in Procs \ {p} :
          profile'[x] = profile[x] /\ env'[x] = env[x] /\ pc'[x] = pc[x] /\ engine'[x] = engine[x]
    BY <2>1 DEF ProfileInv, Functions, BudgetInv
  <2>3. ~profile'[p].measured /\ ~engine'[p].built /\ pc'[p] = "off"
    BY <2>1 DEF ProfileInv, Functions, NoProfile, NoEngine, BudgetInv
  <2>4. engine' = [x \in Procs |-> engine'[x]] BY <2>1 DEF BudgetInv
  <2>5. pc'[p] \notin Gauged BY <2>3 DEF Gauged
  <2> QED BY <2>1, <2>2, <2>3, <2>4, <2>5 DEF BudgetInv
<1>7. CASE UNCHANGED startupVars
  <2>1. UNCHANGED <<files, process, machine, available>> BY <1>7 DEF startupVars, world
  <2> QED BY <1>1, <2>1 DEF BudgetInv
<1> QED BY <1>2, <1>3, <1>4, <1>5, <1>6, <1>7 DEF StartupNext

(***************************************************************************)
(* The knobs never promise more than was measured, for every machine,      *)
(* measurement, model and number of processes, and an engine never sizes   *)
(* its window beyond them, as long as the environment overrides none of    *)
(* the shares themselves (derive; _build_cache).                           *)
(***************************************************************************)
THEOREM BudgetsHold ==
  ASSUME \A o \in Overrides : Modest(o)
  PROVE  StartupSpec => []BudgetsFit
<1>1. StartupInit => ProfileInv /\ BudgetInv
  <2> SUFFICES ASSUME StartupInit PROVE BudgetInv BY ProfileInvInit
  <2> QED BY DEF StartupInit, BudgetInv, Gauged, NoProfile, NoEngine
<1>2. ProfileInv /\ BudgetInv /\ [StartupNext]_startupVars => (ProfileInv /\ BudgetInv)'
  BY ProfileInvKept, BudgetInvKept
<1>3. ProfileInv /\ BudgetInv => BudgetsFit
  <2> SUFFICES ASSUME ProfileInv, BudgetInv, NEW p \in Procs
               PROVE  /\ profile[p].measured => Fits(profile[p].of, profile[p].derived)
                      /\ engine[p].built => EngineFits(engine[p], profile[p].derived)
    BY DEF BudgetsFit
  <2>1. ASSUME profile[p].measured PROVE Fits(profile[p].of, profile[p].derived)
    <3>1. profile[p].derived = Derive(profile[p].of, env[p]) /\ pc[p] # "off"
      BY <2>1 DEF ProfileInv, ProfilesAreOwn
    <3>2. Sound(profile[p].of) /\ Modest(env[p]) BY <2>1, <3>1 DEF BudgetInv
    <3> QED BY <3>1, <3>2, DerivedFits
  <2> QED BY <2>1 DEF BudgetInv
<1> QED BY <1>1, <1>2, <1>3, PTL DEF StartupSpec

-------------------------------------------------------------------------------
(***************************************************************************)
(* Placement.                                                              *)
(***************************************************************************)
(* The bytes of a set of units. *)

\* A set of units holds a number of bytes.
LEMMA HeldIsNat == ASSUME NEW S \in SUBSET Units PROVE Held[S] \in Nat /\ IsFiniteSet(S)
<1>1. IsFiniteSet(S) /\ \A u \in S : Bytes[u] \in Nat
  BY PlacementAssumption, FS_Subset DEF PlacementAssumption
<1>2. SumFunctionOnSet(Bytes, S) \in Nat BY <1>1, SumType
<1> QED BY <1>1, <1>2 DEF Held

\* No units hold no bytes.
LEMMA HeldOfNone == Held[{}] = 0
BY SumOfNone DEF Held

\* A unit more is that many bytes more.
LEMMA HeldAdd ==
  ASSUME NEW S \in SUBSET Units, NEW u \in Units \ S PROVE Held[S \cup {u}] = Held[S] + Bytes[u]
<1>1. IsFiniteSet(S) BY HeldIsNat
<1>2. \A y \in S \cup {u} : Bytes[y] \in Int BY PlacementAssumption DEF PlacementAssumption
<1>3. SumFunctionOnSet(Bytes, S \cup {u}) = SumFunctionOnSet(Bytes, S) + Bytes[u] BY <1>1, <1>2, SumAdd
<1> QED BY <1>3 DEF Held

\* Fewer units hold no more bytes.
LEMMA HeldMonotone ==
  ASSUME NEW T \in SUBSET Units, NEW S \in SUBSET T PROVE Held[S] <= Held[T]
<1>1. IsFiniteSet(T) BY HeldIsNat
<1>2. \A y \in T : Bytes[y] \in Nat BY PlacementAssumption DEF PlacementAssumption
<1>3. SumFunctionOnSet(Bytes, S) <= SumFunctionOnSet(Bytes, T) BY <1>1, <1>2, SumMonotone
<1> QED BY <1>3 DEF Held

-------------------------------------------------------------------------------
(* The order of the plan. *)

\* Fractions are ordered: a/b and so on, with no division.
LEMMA Fractions ==
  ASSUME NEW a \in Nat, NEW b \in Nat \ {0}, NEW c \in Nat, NEW d \in Nat \ {0},
         NEW e \in Nat, NEW f \in Nat \ {0}
  PROVE  /\ a * d > c * b /\ c * f >= e * d => a * f > e * b
         /\ a * d >= c * b /\ c * f > e * d => a * f > e * b
         /\ a * d = c * b /\ c * f = e * d => a * f = e * b
<1>1. ASSUME a * d > c * b, c * f >= e * d PROVE a * f > e * b BY <1>1
<1>2. ASSUME a * d >= c * b, c * f > e * d PROVE a * f > e * b BY <1>2
<1>3. ASSUME a * d = c * b, c * f = e * d PROVE a * f = e * b BY <1>3
<1> QED BY <1>1, <1>2, <1>3

\* The counts the order is computed from.
Counted ==
  /\ visits \in [Layers -> Nat]
  /\ uses \in [UNION {Experts[l] : l \in Layers} -> Nat]

\* What a unit saves is a fraction.
LEMMA AccessesIsFraction ==
  ASSUME Counted, NEW u \in Units PROVE Accesses(u)[1] \in Nat /\ Accesses(u)[2] \in Nat \ {0}
<1>1. CASE Class[u] # Routed BY <1>1 DEF Accesses
<1>2. CASE Class[u] = Routed
  <2> DEFINE v == visits[LayerOf(u)]
             m == Min({uses[u], v * One})
  <2>1. PICK l \in Layers : u \in Experts[l]
    BY <1>2, PlacementAssumption DEF PlacementAssumption
  <2>2. LayerOf(u) \in Layers BY <2>1 DEF LayerOf
  <2>3. v \in Nat /\ One \in Nat \ {0} /\ uses[u] \in Nat
    BY <2>1, <2>2, PlacementAssumption DEF Counted, PlacementAssumption
  <2>4. CASE v = 0 BY <1>2, <2>4 DEF Accesses
  <2>5. CASE v # 0
    <3>1. Accesses(u) = <<m, v * One>> BY <1>2, <2>5 DEF Accesses
    <3> HIDE DEF v
    <3>2. v * One \in Nat \ {0} BY <2>3, <2>5
    <3>3. m \in Nat
      <4> DEFINE w == v * One
      <4>1. w \in Nat BY <3>2
      <4>2. m = Min({uses[u], w}) OBVIOUS
      <4> HIDE DEF w, m
      <4> QED BY <2>3, <4>1, <4>2 DEF Min
    <3> HIDE DEF m
    <3> QED BY <3>1, <3>2, <3>3
  <2> QED BY <2>4, <2>5
<1> QED BY <1>1, <1>2

\* The order by four keys: a class, a fraction, a size and a name.
Earlier(c1, n1, d1, b1, k1, c2, n2, d2, b2, k2) ==
  \/ c1 < c2
  \/ c1 = c2 /\ (\/ n1 * d2 > n2 * d1
                 \/ n1 * d2 = n2 * d1 /\ b1 < b2
                 \/ n1 * d2 = n2 * d1 /\ b1 = b2 /\ k1 < k2)

\* It is transitive.
LEMMA EarlierTransitive ==
  ASSUME NEW c1 \in Nat, NEW n1 \in Nat, NEW d1 \in Nat \ {0}, NEW b1 \in Nat, NEW k1 \in Nat,
         NEW c2 \in Nat, NEW n2 \in Nat, NEW d2 \in Nat \ {0}, NEW b2 \in Nat, NEW k2 \in Nat,
         NEW c3 \in Nat, NEW n3 \in Nat, NEW d3 \in Nat \ {0}, NEW b3 \in Nat, NEW k3 \in Nat,
         Earlier(c1, n1, d1, b1, k1, c2, n2, d2, b2, k2),
         Earlier(c2, n2, d2, b2, k2, c3, n3, d3, b3, k3)
  PROVE  Earlier(c1, n1, d1, b1, k1, c3, n3, d3, b3, k3)
<1> DEFINE p12 == n1 * d2  p21 == n2 * d1  p23 == n2 * d3  p32 == n3 * d2  p13 == n1 * d3  p31 == n3 * d1
<1>1. p12 \in Nat /\ p21 \in Nat /\ p23 \in Nat /\ p32 \in Nat /\ p13 \in Nat /\ p31 \in Nat OBVIOUS
<1>2. /\ p12 > p21 /\ p23 >= p32 => p13 > p31
      /\ p12 >= p21 /\ p23 > p32 => p13 > p31
      /\ p12 = p21 /\ p23 = p32 => p13 = p31
  BY Fractions
<1>3. c1 < c2 \/ (c1 = c2 /\ (p12 > p21 \/ (p12 = p21 /\ b1 < b2) \/ (p12 = p21 /\ b1 = b2 /\ k1 < k2)))
  BY DEF Earlier
<1>4. c2 < c3 \/ (c2 = c3 /\ (p23 > p32 \/ (p23 = p32 /\ b2 < b3) \/ (p23 = p32 /\ b2 = b3 /\ k2 < k3)))
  BY DEF Earlier
<1>5. c1 < c3 \/ (c1 = c3 /\ (p13 > p31 \/ (p13 = p31 /\ b1 < b3) \/ (p13 = p31 /\ b1 = b3 /\ k1 < k3)))
  <2> HIDE DEF p12, p21, p23, p32, p13, p31
  <2> QED BY <1>1, <1>2, <1>3, <1>4
<1> QED BY <1>5 DEF Earlier

\* What is offered the budget before what, in numbers.
LEMMA BeforeIsEarlier ==
  ASSUME Counted, NEW u \in Units, NEW v \in Units
  PROVE  Before(u, v) <=>
           Earlier(Class[u], Accesses(u)[1], Accesses(u)[2] * Bytes[u], Bytes[u], Named[u],
                   Class[v], Accesses(v)[1], Accesses(v)[2] * Bytes[v], Bytes[v], Named[v])
BY DEF Before, Earlier

\* The four keys of a unit are numbers.
LEMMA KeysAreNumbers ==
  ASSUME Counted, NEW u \in Units
  PROVE  /\ Class[u] \in Nat /\ Accesses(u)[1] \in Nat /\ Accesses(u)[2] * Bytes[u] \in Nat \ {0}
         /\ Bytes[u] \in Nat /\ Named[u] \in Nat
<1>1. Class[u] \in Nat /\ Bytes[u] \in Nat \ {0} /\ Named[u] \in Nat
  BY PlacementAssumption DEF PlacementAssumption, Always, Shared, Routed
<1>2. Accesses(u)[1] \in Nat /\ Accesses(u)[2] \in Nat \ {0} BY AccessesIsFraction
<1> QED BY <1>1, <1>2

\* What comes before what comes before a unit comes before it.
LEMMA BeforeTransitive ==
  ASSUME Counted, NEW u \in Units, NEW v \in Units, NEW w \in Units, Before(u, v), Before(v, w)
  PROVE  Before(u, w)
<1> DEFINE n(x) == Accesses(x)[1]
           d(x) == Accesses(x)[2] * Bytes[x]
<1>1. \A x \in Units : Class[x] \in Nat /\ n(x) \in Nat /\ d(x) \in Nat \ {0} /\ Bytes[x] \in Nat /\ Named[x] \in Nat
  BY KeysAreNumbers
<1>2. \A x, y \in Units : Before(x, y) <=>
        Earlier(Class[x], n(x), d(x), Bytes[x], Named[x], Class[y], n(y), d(y), Bytes[y], Named[y])
  BY BeforeIsEarlier
<1> HIDE DEF n, d
<1>3. Earlier(Class[u], n(u), d(u), Bytes[u], Named[u], Class[w], n(w), d(w), Bytes[w], Named[w])
  BY <1>1, <1>2, EarlierTransitive
<1> QED BY <1>2, <1>3

\* Any units have one that comes after all the others.
LEMMA HasLast ==
  ASSUME Counted, NEW S \in SUBSET Units, S # {}
  PROVE  LastOf(S) \in S /\ \A v \in S \ {LastOf(S)} : Before(v, LastOf(S))
<1> DEFINE C == {s \in SUBSET S : s # {} => \E u \in s : \A v \in s \ {u} : Before(v, u)}
<1>1. ASSUME NEW s \in SUBSET S, \A t \in SUBSET s : t # s => t \in C PROVE s \in C
  <2>1. CASE s = {} BY <2>1
  <2>2. CASE s # {}
    <3>1. PICK y \in s : TRUE BY <2>2
    <3>2. s \ {y} \in C BY <1>1, <3>1
    <3>3. CASE s \ {y} = {} BY <3>1, <3>3
    <3>4. CASE s \ {y} # {}
      <4>1. PICK m \in s \ {y} : \A v \in s \ {y, m} : Before(v, m) BY <3>2, <3>4
      <4>2. m \in Units /\ y \in Units /\ m # y BY <3>1, <4>1
      <4>3. Before(m, y) \/ Before(y, m)
        <5>1. Named[m] # Named[y] BY <4>2, PlacementAssumption DEF PlacementAssumption
        <5> QED BY <4>2, <5>1, KeysAreNumbers, BeforeIsEarlier DEF Earlier
      <4>4. CASE Before(y, m)
        <5>1. \A v \in s \ {m} : Before(v, m) BY <4>1, <4>4
        <5> QED BY <4>1, <5>1
      <4>5. CASE Before(m, y)
        <5>1. ASSUME NEW v \in s \ {y} PROVE Before(v, y)
          <6>1. CASE v = m BY <4>5, <6>1
          <6>2. CASE v # m
            <7>1. Before(v, m) /\ v \in Units BY <4>1, <5>1, <6>2
            <7> QED BY <4>2, <4>5, <7>1, BeforeTransitive
          <6> QED BY <6>1, <6>2
        <5> QED BY <3>1, <5>1
      <4> QED BY <4>3, <4>4, <4>5
    <3> QED BY <3>3, <3>4
  <2> QED BY <2>1, <2>2
<1> HIDE DEF C
<1>2. IsFiniteSet(S) BY HeldIsNat
<1>3. SUBSET S \subseteq C BY <1>1, <1>2, SubsetInduction
<1>4. S \in C BY <1>3
<1>5. \E u \in S : \A v \in S \ {u} : Before(v, u) BY <1>4 DEF C
<1> QED BY <1>5 DEF LastOf

-------------------------------------------------------------------------------
(* The fill. *)

\* The recursion the plan is defined by, over the subsets of C.
Rest(s) == s \ {LastOf(s)}
Fills(g, budget, C) ==
  g = [S \in SUBSET C |->
         IF S = {} THEN {}
         ELSE IF Held[g[Rest(S)] \cup {LastOf(S)}] <= budget THEN g[Rest(S)] \cup {LastOf(S)}
         ELSE g[Rest(S)]]

\* The recursion at one set.
LEMMA FillsAt ==
  ASSUME NEW budget, NEW C, NEW g, Fills(g, budget, C), NEW S \in SUBSET C
  PROVE  g[S] = IF S = {} THEN {}
                ELSE IF Held[g[Rest(S)] \cup {LastOf(S)}] <= budget THEN g[Rest(S)] \cup {LastOf(S)}
                ELSE g[Rest(S)]
BY DEF Fills

\* Two fills agree on what both fill.
LEMMA FillsAgree ==
  ASSUME Counted, NEW budget, NEW C \in SUBSET Units, NEW D \in SUBSET Units, NEW g, NEW h,
         Fills(g, budget, C), Fills(h, budget, D), NEW U, U \subseteq C, U \subseteq D
  PROVE  g[U] = h[U]
<1> DEFINE E == {u \in SUBSET U : g[u] = h[u]}
<1>1. ASSUME NEW s \in SUBSET U, \A t \in SUBSET s : t # s => t \in E PROVE s \in E
  <2>1. CASE s = {} BY <2>1, FillsAt
  <2>2. CASE s # {}
    <3>1. LastOf(s) \in s BY <2>2, HasLast
    <3>2. Rest(s) \in E BY <1>1, <3>1 DEF Rest
    <3>3. g[s] = IF Held[g[Rest(s)] \cup {LastOf(s)}] <= budget THEN g[Rest(s)] \cup {LastOf(s)} ELSE g[Rest(s)]
      BY <2>2, FillsAt
    <3>4. h[s] = IF Held[h[Rest(s)] \cup {LastOf(s)}] <= budget THEN h[Rest(s)] \cup {LastOf(s)} ELSE h[Rest(s)]
      BY <2>2, FillsAt
    <3> QED BY <3>2, <3>3, <3>4
  <2> QED BY <2>1, <2>2
<1> HIDE DEF E
<1>2. IsFiniteSet(U) BY HeldIsNat
<1>3. SUBSET U \subseteq E BY <1>1, <1>2, SubsetInduction
<1>4. U \in E BY <1>3
<1> QED BY <1>4 DEF E

\* There is a fill.
LEMMA FillsExists ==
  ASSUME Counted, NEW budget, NEW U \in SUBSET Units
  PROVE  \E g : Fills(g, budget, U)
<1> DEFINE E == {s \in SUBSET U : \E g : Fills(g, budget, s)}
           fill(s) == (CHOOSE g : Fills(g, budget, s))[s]
           more(s, above) == IF Held[above \cup {LastOf(s)}] <= budget THEN above \cup {LastOf(s)} ELSE above
<1>1. ASSUME NEW s \in SUBSET U, \A t \in SUBSET s : t # s => t \in E PROVE s \in E
  <2> DEFINE G == [t \in SUBSET s |-> IF t # s THEN fill(t) ELSE IF s = {} THEN {} ELSE more(s, fill(Rest(s)))]
  <2>1. ASSUME NEW t \in SUBSET s PROVE G[t] = IF t = {} THEN {} ELSE more(t, G[Rest(t)])
    <3>1. t # {} => LastOf(t) \in t BY HasLast
    <3>2. CASE t = s
      <4>1. s # {} => Rest(s) # s /\ Rest(s) \in SUBSET s BY <3>1, <3>2 DEF Rest
      <4>2. s # {} => G[Rest(s)] = fill(Rest(s)) BY <4>1
      <4>3. G[s] = IF s = {} THEN {} ELSE more(s, fill(Rest(s))) OBVIOUS
      <4> HIDE DEF G, fill, more
      <4> QED BY <3>2, <4>2, <4>3
    <3>3. CASE t # s
      <4>1. G[t] = fill(t) BY <3>3
      <4>2. Fills(CHOOSE g : Fills(g, budget, t), budget, t) BY <1>1, <3>3
      <4>3. CASE t = {}
        <5> DEFINE ft == CHOOSE g : Fills(g, budget, t)
        <5>1. fill(t) = {}
          <6>1. Fills(ft, budget, t) /\ t \in SUBSET t BY <4>2
          <6> HIDE DEF ft
          <6>2. ft[t] = {} BY <4>3, <6>1, FillsAt
          <6> QED BY <6>2 DEF ft
        <5> QED BY <4>1, <4>3, <5>1
      <4>4. CASE t # {}
        <5> DEFINE r == Rest(t)
        <5>1. r \in SUBSET s /\ r # s /\ r \subseteq t BY <3>1, <4>4 DEF Rest
        <5>2. Fills(CHOOSE g : Fills(g, budget, r), budget, r) BY <1>1, <5>1
        <5>3. (CHOOSE g : Fills(g, budget, t))[r] = fill(r) BY <4>2, <5>1, <5>2, FillsAgree
        <5>4. fill(t) = more(t, (CHOOSE g : Fills(g, budget, t))[r]) BY <4>2, <4>4, FillsAt
        <5>5. G[r] = fill(r) BY <5>1
        <5> HIDE DEF G, fill, more
        <5> QED BY <4>1, <4>4, <5>3, <5>4, <5>5
      <4> QED BY <4>3, <4>4
    <3> QED BY <3>2, <3>3
  <2>2. G = [t \in SUBSET s |-> IF t = {} THEN {} ELSE more(t, G[Rest(t)])]
    <3>1. G = [t \in SUBSET s |-> G[t]] OBVIOUS
    <3> HIDE DEF G
    <3> QED BY <2>1, <3>1
  <2> HIDE DEF G
  <2>3. Fills(G, budget, s) BY <2>2 DEF Fills
  <2> QED BY <2>3
<1> HIDE DEF E
<1>2. IsFiniteSet(U) BY HeldIsNat
<1>3. SUBSET U \subseteq E BY <1>1, <1>2, SubsetInduction
<1>4. U \in E BY <1>3
<1> QED BY <1>4 DEF E

\* What ranks in the class of u or above takes the room u would need.
Crowded(S, u, budget) == Held[{v \in S : Class[v] <= Class[u]}] + Bytes[u] > budget

\* A fill fits, and what it skips had no room in its class.
LEMMA FillIsBest ==
  ASSUME Counted, NEW budget \in Nat, NEW C \in SUBSET Units, NEW g, Fills(g, budget, C)
  PROVE  g[C] \subseteq C /\ Held[g[C]] <= budget /\ \A u \in C \ g[C] : Crowded(g[C], u, budget)
<1> DEFINE E == {s \in SUBSET C : /\ g[s] \subseteq s /\ Held[g[s]] <= budget
                                  /\ \A u \in s \ g[s] : Crowded(g[s], u, budget)}
<1>1. ASSUME NEW s \in SUBSET C, \A t \in SUBSET s : t # s => t \in E PROVE s \in E
  <2>1. CASE s = {}
    <3>1. g[s] = {} BY <2>1, FillsAt
    <3> QED BY <2>1, <3>1, HeldOfNone
  <2>2. CASE s # {}
    <3> DEFINE last == LastOf(s)
               above == g[Rest(s)]
    <3>1. last \in s /\ \A v \in s \ {last} : Before(v, last) BY <2>2, HasLast
    <3>2. Rest(s) \in E /\ Rest(s) = s \ {last} BY <1>1, <3>1 DEF Rest
    <3>3. above \subseteq s \ {last} /\ Held[above] <= budget
          /\ \A u \in (s \ {last}) \ above : Crowded(above, u, budget)
      BY <3>2
    <3>4. g[s] = IF Held[above \cup {last}] <= budget THEN above \cup {last} ELSE above
      BY <2>2, FillsAt
    <3> HIDE DEF last, above, E
    <3>5. last \in Units /\ above \in SUBSET Units BY <3>1, <3>3
    <3>6. Bytes[last] \in Nat /\ Held[above] \in Nat BY <3>5, HeldIsNat, PlacementAssumption DEF PlacementAssumption
    <3>7. CASE Held[above \cup {last}] <= budget
      <4>1. g[s] = above \cup {last} BY <3>4, <3>7
      <4>2. ASSUME NEW u \in s \ (above \cup {last}) PROVE Crowded(above \cup {last}, u, budget)
        <5> DEFINE few == {v \in above : Class[v] <= Class[u]}
                   many == {v \in above \cup {last} : Class[v] <= Class[u]}
        <5>1. Held[few] + Bytes[u] > budget BY <3>3, <4>2 DEF Crowded
        <5>2. few \in SUBSET many /\ many \in SUBSET Units BY <3>5
        <5> HIDE DEF few, many
        <5>3. Held[few] <= Held[many] /\ Held[few] \in Nat /\ Held[many] \in Nat
          BY <5>2, HeldMonotone, HeldIsNat
        <5>4. Bytes[u] \in Nat BY <4>2, PlacementAssumption DEF PlacementAssumption
        <5>5. Held[many] + Bytes[u] > budget BY <5>1, <5>3, <5>4
        <5> QED BY <5>5 DEF Crowded, many
      <4> QED BY <3>1, <3>3, <3>7, <4>1, <4>2 DEF E
    <3>8. CASE ~(Held[above \cup {last}] <= budget)
      <4>1. g[s] = above BY <3>4, <3>8
      <4>2. Crowded(above, last, budget)
        <5>1. \A v \in above : Class[v] <= Class[last]
          <6>1. \A v \in above : Class[v] \in Nat /\ Class[last] \in Nat /\ Before(v, last)
            BY <3>1, <3>3, <3>5, KeysAreNumbers
          <6> QED BY <6>1 DEF Before
        <5>2. {v \in above : Class[v] <= Class[last]} = above BY <5>1
        <5>3. Held[above \cup {last}] = Held[above] + Bytes[last]
          <6>1. last \in Units \ above BY <3>3, <3>5
          <6> QED BY <3>5, <6>1, HeldAdd
        <5>4. Held[above] + Bytes[last] > budget BY <3>6, <3>8, <5>3
        <5> QED BY <5>2, <5>4 DEF Crowded
      <4>3. \A u \in s \ above : Crowded(above, u, budget) BY <3>3, <4>2
      <4> QED BY <3>3, <4>1, <4>3 DEF E
    <3> QED BY <3>7, <3>8
  <2> QED BY <2>1, <2>2
<1> HIDE DEF E
<1>2. IsFiniteSet(C) BY HeldIsNat
<1>3. SUBSET C \subseteq E BY <1>1, <1>2, SubsetInduction
<1>4. C \in E BY <1>3
<1> QED BY <1>4 DEF E

\* The plan is the fill of the candidates.
LEMMA PlanIsFill ==
  Counted => \A budget \in Nat :
    /\ Plan(budget) \subseteq Candidates /\ Held[Plan(budget)] <= budget
    /\ \A u \in Candidates \ Plan(budget) : Crowded(Plan(budget), u, budget)
<1> SUFFICES ASSUME Counted, NEW budget \in Nat
    PROVE  /\ Plan(budget) \subseteq Candidates /\ Held[Plan(budget)] <= budget
           /\ \A u \in Candidates \ Plan(budget) : Crowded(Plan(budget), u, budget)
  OBVIOUS
<1> DEFINE filler == CHOOSE g : Fills(g, budget, Candidates)
<1>1. Candidates \in SUBSET Units BY DEF Candidates
<1>2. Fills(filler, budget, Candidates) BY <1>1, FillsExists
<1>3. Plan(budget) = filler[Candidates] BY DEF Plan, Fills, Rest
<1> HIDE DEF filler
<1> QED BY <1>1, <1>2, <1>3, FillIsBest

-------------------------------------------------------------------------------
(* The invariant. *)

Typed ==
  /\ Counted /\ others \in Nat /\ resident \in SUBSET Units /\ pinned \in SUBSET Units
  /\ capacity \in Nat /\ share \in {Share, <<0, 1>>} /\ pinBudget = PinBudget(capacity)
  /\ streak.low \in Nat /\ replanned \in BOOLEAN

\* No layer has fired before the plan could count on it, and one that has not is why experts wait.
Waits(u) == Class[u] = Routed /\ ~replanned /\ \E l \in Layers : Experts[l] # {} /\ visits[l] = 0

Planned ==
  /\ Held[pinned] <= pinBudget
  /\ \A u \in Units \ pinned : Waits(u) \/ Crowded(pinned, u, pinBudget)

\* What was planned again was planned after a router had fired.
ReplannedAfter == replanned => Firings > 0

PlaceInv == Typed /\ Planned /\ ReplannedAfter

\* The pins' part of a capacity is a number no larger than it.
LEMMA PinBudgetFits ==
  ASSUME NEW bytes \in Nat, share \in {Share, <<0, 1>>}
  PROVE  PinBudget(bytes) \in Nat /\ PinBudget(bytes) <= bytes
<1>1. \A a, b \in Nat, c \in Nat \ {0} : b <= c => (a * b) \div c <= a /\ (a * b) \div c \in Nat OBVIOUS
<1>2. share[1] \in Nat /\ share[2] \in Nat \ {0} /\ share[1] <= share[2]
  BY PlacementAssumption DEF PlacementAssumption
<1>3. (bytes * share[1]) \div share[2] <= bytes /\ (bytes * share[1]) \div share[2] \in Nat
  BY <1>1, <1>2
<1> DEFINE part == (bytes * share[1]) \div share[2]
<1>4. PinBudget(bytes) = bytes - part BY DEF PinBudget
<1> HIDE DEF part
<1> QED BY <1>3, <1>4 DEF part

\* What is measured is a number of bytes.
LEMMA MeasureIsNat == ASSUME resident \in SUBSET Units, others \in Int PROVE Measure \in Nat
<1> DEFINE room == Pool - others - Held[resident] - Reserve + Held[resident]
<1>1. Held[resident] \in Nat /\ Pool \in Nat /\ Reserve \in Nat
  BY HeldIsNat, PlacementAssumption DEF PlacementAssumption
<1>2. room \in Int BY <1>1
<1>3. Measure = Max({0, room}) BY DEF Measure
<1> HIDE DEF room
<1> QED BY <1>2, <1>3 DEF Max

FiringsRight == Firings \in Nat /\ (Firings = 0 => \A l \in Layers : visits[l] = 0)

\* Firings are counted, and none have happened exactly when no layer has fired.
LEMMA FiringsCount ==
  Counted => FiringsRight
<1> SUFFICES ASSUME Counted PROVE FiringsRight
  OBVIOUS
<1>1. IsFiniteSet(Layers) /\ \A l \in Layers : visits[l] \in Nat
  BY PlacementAssumption DEF PlacementAssumption, Counted
<1>2. Firings \in Nat BY <1>1, SumType DEF Firings
<1>3. ASSUME NEW l \in Layers PROVE visits[l] <= Firings
  <2>1. SumFunctionOnSet(visits, Layers) = visits[l] + SumFunctionOnSet(visits, Layers \ {l})
    BY <1>1, SumRemove
  <2>2. IsFiniteSet(Layers \ {l}) BY <1>1, FS_Subset
  <2>3. SumFunctionOnSet(visits, Layers \ {l}) \in Nat BY <1>1, <2>2, SumType
  <2> QED BY <1>1, <2>1, <2>3 DEF Firings
<1> QED BY <1>1, <1>2, <1>3 DEF FiringsRight

\* A plan made from the counts there are is as good as it has to be.
LEMMA PlanIsPlanned ==
  Counted /\ ReplannedAfter => \A budget \in Nat :
    /\ Plan(budget) \in SUBSET Units /\ Held[Plan(budget)] <= budget
    /\ \A u \in Units \ Plan(budget) : Waits(u) \/ Crowded(Plan(budget), u, budget)
<1> SUFFICES ASSUME Counted, ReplannedAfter, NEW budget \in Nat
    PROVE  /\ Plan(budget) \in SUBSET Units /\ Held[Plan(budget)] <= budget
           /\ \A u \in Units \ Plan(budget) : Waits(u) \/ Crowded(Plan(budget), u, budget)
  OBVIOUS
<1>1. /\ Plan(budget) \subseteq Candidates /\ Held[Plan(budget)] <= budget
      /\ \A u \in Candidates \ Plan(budget) : Crowded(Plan(budget), u, budget)
  BY PlanIsFill
<1>2. ASSUME NEW u \in Units \ Candidates PROVE Waits(u)
  <2>1. Class[u] = Routed /\ ~(Firings > 0) BY DEF Candidates
  <2>2. ~replanned /\ \A l \in Layers : visits[l] = 0 BY <2>1, FiringsCount DEF FiringsRight, ReplannedAfter
  <2>3. PICK l \in Layers : u \in Experts[l]
    BY <2>1, PlacementAssumption DEF PlacementAssumption
  <2> QED BY <2>1, <2>2, <2>3 DEF Waits
<1> QED BY <1>1, <1>2 DEF Candidates

\* A new budget is planned for, and met where it is not zero.
LEMMA BudgetChangedKeeps ==
  ASSUME PlaceInv, NEW bytes \in Nat, BudgetChanged(bytes),
         streak'.low \in Nat, UNCHANGED <<others, share, statVars>>
  PROVE  PlaceInv' /\ (bytes > 0 => Held[resident'] <= bytes)
<1>1. /\ capacity' = bytes /\ pinBudget' = PinBudget(bytes) /\ pinned' = Plan(pinBudget')
      /\ resident' \in Evicted(resident, pinned', 0, bytes) /\ UNCHANGED <<visits, uses, replanned, share>>
  BY DEF BudgetChanged, statVars
<1>2. pinBudget' \in Nat /\ pinBudget' <= bytes BY <1>1, PinBudgetFits DEF PlaceInv, Typed
<1>3. /\ pinned' \in SUBSET Units /\ Held[pinned'] <= pinBudget'
      /\ \A u \in Units \ pinned' : Waits(u) \/ Crowded(pinned', u, pinBudget')
  BY <1>1, <1>2, PlanIsPlanned DEF PlaceInv, Typed
<1>4. resident' \in SUBSET Units BY <1>1 DEF Evicted, PlaceInv, Typed
<1>5. Typed' BY <1>1, <1>3, <1>4 DEF PlaceInv, Typed, Counted, PinBudget
<1>6. Planned' BY <1>1, <1>3 DEF Planned, Waits, Crowded
<1>7. ReplannedAfter' BY <1>1 DEF PlaceInv, ReplannedAfter, Firings
<1>8. ASSUME bytes > 0 PROVE Held[resident'] <= bytes
  <2>1. Held[resident'] + 0 <= bytes \/ resident' \subseteq pinned' BY <1>1, <1>8 DEF Evicted
  <2>2. Held[resident'] \in Nat /\ Held[pinned'] \in Nat BY <1>3, <1>4, HeldIsNat
  <2>3. resident' \subseteq pinned' => Held[resident'] <= Held[pinned'] BY <1>3, HeldMonotone
  <2> QED BY <1>2, <1>3, <2>1, <2>2, <2>3
<1> QED BY <1>5, <1>6, <1>7, <1>8 DEF PlaceInv

\* A step that leaves the plan, its budget and the counts alone.
LEMMA PlanStays ==
  ASSUME PlaceInv, UNCHANGED <<share, capacity, pinBudget, pinned, statVars>>,
         others' \in Nat, resident' \in SUBSET Units, streak'.low \in Nat
  PROVE  PlaceInv'
BY DEF PlaceInv, Typed, Counted, PinBudget, Planned, Waits, Crowded, ReplannedAfter, Firings, statVars

\* The low of a streak is a reading.
LEMMA StreakIsNat ==
  ASSUME streak.low \in Nat, NEW usable \in Nat PROVE Streak(usable).low \in Nat
<1> DEFINE least == Min({streak.low, usable})
<1>1. least \in Nat BY DEF Min
<1>2. Streak(usable).low \in {least, usable} BY DEF Streak
<1> HIDE DEF least
<1> QED BY <1>1, <1>2

\* A reading of the budget keeps the invariant and meets the capacity it publishes.
LEMMA SampleKeeps ==
  ASSUME PlaceInv, Sample PROVE PlaceInv' /\ (capacity' # capacity /\ capacity' > 0 => Held[resident'] <= capacity')
<1> DEFINE run == Streak(Measure)
<1>1. Measure \in Nat /\ streak.low \in Nat BY MeasureIsNat DEF PlaceInv, Typed
<1>2. run.low \in Nat BY <1>1, StreakIsNat
<1>3. UNCHANGED <<others, share, statVars>> BY DEF Sample
<1>4. NoStreak.low \in Nat BY DEF NoStreak
<1>5. CASE UNCHANGED cacheVars /\ streak' \in {NoStreak, run}
  <2>1. UNCHANGED <<capacity, pinBudget, pinned, resident>> BY <1>5 DEF cacheVars
  <2>2. streak'.low \in Nat BY <1>2, <1>4, <1>5
  <2> QED BY <1>3, <2>1, <2>2, PlanStays DEF PlaceInv, Typed
<1>6. CASE streak' = NoStreak /\ BudgetChanged(run.low)
  <2>1. capacity' = run.low BY <1>6 DEF BudgetChanged
  <2> HIDE DEF run
  <2> QED BY <1>2, <1>3, <1>4, <1>6, <2>1, BudgetChangedKeeps
<1>7. \/ UNCHANGED cacheVars /\ streak' \in {NoStreak, run}
      \/ streak' = NoStreak /\ BudgetChanged(run.low)
  BY DEF Sample
<1> QED BY <1>5, <1>6, <1>7

\* And so does a reset.
LEMMA RepublishKeeps ==
  ASSUME PlaceInv, Republish PROVE PlaceInv' /\ (capacity' # capacity /\ capacity' > 0 => Held[resident'] <= capacity')
<1>1. Measure \in Nat BY MeasureIsNat DEF PlaceInv, Typed
<1>2. /\ target' = Measure /\ streak' = NoStreak /\ UNCHANGED <<others, share, statVars>>
      /\ IF target' # target THEN BudgetChanged(target') ELSE UNCHANGED cacheVars
  BY DEF Republish
<1>3. NoStreak.low \in Nat BY DEF NoStreak
<1>4. CASE UNCHANGED cacheVars
  <2>1. UNCHANGED <<capacity, pinBudget, pinned, resident>> BY <1>4 DEF cacheVars
  <2> QED BY <1>2, <1>3, <2>1, PlanStays DEF PlaceInv, Typed
<1>5. CASE BudgetChanged(Measure)
  <2>1. capacity' = Measure BY <1>5 DEF BudgetChanged
  <2> QED BY <1>1, <1>2, <1>3, <1>5, <2>1, BudgetChangedKeeps
<1> QED BY <1>2, <1>4, <1>5

\* A router fires: the plan is made again, or what waited for it still does.
LEMMA FireKeeps ==
  ASSUME PlaceInv, NEW l \in Layers, NEW selected \in SUBSET Experts[l], Fire(l, selected)
  PROVE  PlaceInv'
<1>1. /\ visits' = [visits EXCEPT ![l] = @ + 1]
      /\ UNCHANGED <<others, share, streak, capacity, pinBudget, resident>>
  BY DEF Fire, Observe, budgetVars
<1>2. visits \in [Layers -> Nat] /\ uses \in [UNION {Experts[m] : m \in Layers} -> Nat] /\ One \in Nat
  BY PlacementAssumption DEF PlaceInv, Typed, Counted, PlacementAssumption
<1>3. visits' \in [Layers -> Nat] /\ visits'[l] > 0 BY <1>1, <1>2
<1>4. uses' \in [UNION {Experts[m] : m \in Layers} -> Nat]
  <2> DEFINE counted == [u \in DOMAIN uses |-> uses[u] + IF u \in selected THEN One ELSE 0]
  <2>1. counted \in [UNION {Experts[m] : m \in Layers} -> Nat] BY <1>2
  <2>2. uses' = IF Ages THEN [u \in DOMAIN uses |-> counted[u] \div 2] ELSE counted
    BY DEF Fire, Observe
  <2> HIDE DEF counted
  <2>3. \A n \in Nat : n \div 2 \in Nat OBVIOUS
  <2>4. DOMAIN uses = UNION {Experts[m] : m \in Layers} BY <1>2
  <2> QED BY <2>1, <2>2, <2>3, <2>4
<1>5. Counted' BY <1>3, <1>4 DEF Counted
<1>6. Firings' > 0
  <2>1. (Counted => FiringsRight)' BY FiringsCount, PTL
  <2> QED BY <1>3, <1>5, <2>1 DEF FiringsRight
<1>7. ReplannedAfter' BY <1>6 DEF ReplannedAfter
<1>8. pinBudget' = PinBudget(capacity)' /\ pinBudget \in Nat
  BY <1>1, PinBudgetFits DEF PlaceInv, Typed, PinBudget
<1>9. CASE ShouldReplan
  <2>1. replanned' = TRUE /\ pinned' = Plan(pinBudget)' BY <1>9 DEF Fire
  <2>2. (Counted /\ ReplannedAfter => \A budget \in Nat :
            /\ Plan(budget) \in SUBSET Units /\ Held[Plan(budget)] <= budget
            /\ \A u \in Units \ Plan(budget) : Waits(u) \/ Crowded(Plan(budget), u, budget))'
    BY PlanIsPlanned, PTL
  <2>3. /\ pinned' \in SUBSET Units /\ Held[pinned'] <= pinBudget'
        /\ \A u \in Units \ pinned' : Waits(u)' \/ Crowded(pinned', u, pinBudget')
    BY <1>1, <1>5, <1>7, <1>8, <2>1, <2>2
  <2>4. Planned' BY <2>3 DEF Planned, Crowded
  <2> QED BY <1>1, <1>5, <1>7, <1>8, <2>1, <2>3, <2>4 DEF PlaceInv, Typed
<1>10. CASE ~ShouldReplan
  <2>1. UNCHANGED <<replanned, pinned>> BY <1>10 DEF Fire
  <2>2. ASSUME NEW u \in Units, Waits(u) PROVE Waits(u)'
    <3>1. \E m \in Layers : Experts[m] # {} /\ ~(visits'[m] > 0)
      BY <1>10, <2>2 DEF ShouldReplan, Waits
    <3>2. \E m \in Layers : Experts[m] # {} /\ visits'[m] = 0 BY <1>3, <3>1
    <3> QED BY <2>1, <2>2, <3>2 DEF Waits
  <2>3. Planned'
    <3>1. \A u \in Units \ pinned : Waits(u) \/ Crowded(pinned, u, pinBudget) BY DEF PlaceInv, Planned
    <3>2. \A u \in Units \ pinned' : Waits(u)' \/ Crowded(pinned, u, pinBudget)'
      BY <1>1, <2>1, <2>2, <3>1 DEF Crowded
    <3>3. Held[pinned'] <= pinBudget' BY <1>1, <2>1 DEF PlaceInv, Planned
    <3> QED BY <3>2, <3>3 DEF Planned
  <2> QED BY <1>1, <1>5, <1>7, <1>8, <2>1, <2>3 DEF PlaceInv, Typed
<1> QED BY <1>9, <1>10

\* Every step keeps the invariant, and meets a capacity it changes.
LEMMA Step ==
  PlaceInv /\ [Next]_vars =>
    PlaceInv' /\ (capacity' # capacity /\ capacity' > 0 => Held[resident'] <= capacity')
<1> SUFFICES ASSUME PlaceInv, [Next]_vars
    PROVE  PlaceInv' /\ (capacity' # capacity /\ capacity' > 0 => Held[resident'] <= capacity')
  OBVIOUS
<1>1. CASE UNCHANGED vars
  <2>1. /\ UNCHANGED <<share, capacity, pinBudget, pinned, statVars>>
        /\ UNCHANGED <<others, resident, streak>>
    BY <1>1 DEF vars, cacheVars, budgetVars
  <2> QED BY <2>1, PlanStays DEF PlaceInv, Typed
<1>2. ASSUME NEW bytes \in Loads, Load(bytes) PROVE PlaceInv' /\ capacity' = capacity
  <2>1. /\ UNCHANGED <<share, capacity, pinBudget, pinned, statVars>>
        /\ UNCHANGED <<resident, streak>> /\ others' = bytes
    BY <1>2 DEF Load, cacheVars, budgetVars
  <2>2. bytes \in Nat BY PlacementAssumption DEF PlacementAssumption
  <2> QED BY <2>1, <2>2, PlanStays DEF PlaceInv, Typed
<1>3. ASSUME NEW u \in Units, Use(u) PROVE PlaceInv' /\ capacity' = capacity
  <2>1. /\ UNCHANGED <<share, capacity, pinBudget, pinned, statVars>>
        /\ UNCHANGED <<others, streak>>
    BY <1>3 DEF Use, budgetVars
  <2>2. resident' \in SUBSET Units BY <1>3 DEF Use, Evicted, PlaceInv, Typed
  <2> QED BY <2>1, <2>2, PlanStays DEF PlaceInv, Typed
<1>4. ASSUME NEW l \in Layers, NEW selected \in SUBSET Experts[l], Fire(l, selected)
      PROVE  PlaceInv' /\ capacity' = capacity
  <2>1. capacity' = capacity BY <1>4 DEF Fire
  <2> QED BY <1>4, <2>1, FireKeeps
<1> QED BY <1>1, <1>2, <1>3, <1>4, SampleKeeps, RepublishKeeps DEF Next, vars, cacheVars

\* It holds at the start.
LEMMA Starts == Init => PlaceInv
<1> SUFFICES ASSUME Init PROVE PlaceInv
  OBVIOUS
<1>1. /\ others \in Loads /\ streak = NoStreak /\ visits = [l \in Layers |-> 0] /\ replanned = FALSE
      /\ uses = [u \in UNION {Experts[l] : l \in Layers} |-> 0] /\ resident = {}
      /\ capacity = Measure /\ share \in {Share, <<0, 1>>}
      /\ pinBudget = PinBudget(capacity) /\ pinned = Plan(pinBudget)
  BY DEF Init
<1>2. others \in Nat /\ Counted /\ ReplannedAfter
  BY <1>1, PlacementAssumption DEF Counted, ReplannedAfter, PlacementAssumption
<1>3. Measure \in Nat BY <1>1, <1>2, MeasureIsNat
<1>4. pinBudget \in Nat BY <1>1, <1>3, PinBudgetFits
<1>5. /\ pinned \in SUBSET Units /\ Held[pinned] <= pinBudget
      /\ \A u \in Units \ pinned : Waits(u) \/ Crowded(pinned, u, pinBudget)
  BY <1>1, <1>2, <1>4, PlanIsPlanned
<1> QED BY <1>1, <1>2, <1>3, <1>5 DEF PlaceInv, Typed, Planned, NoStreak

\* Whatever the memory of the device does and whatever the routers choose, the pins fit their
\* budget and nothing is left out that had room in its class (plan_pins, rank, _should_replan).
THEOREM PinsAreBest == Spec => []PlanIsBest
<1>1. PlaceInv => PlanIsBest
  BY DEF PlaceInv, Planned, PlanIsBest, Waits, Crowded
<1> QED BY <1>1, Starts, Step, PTL DEF Spec

\* A capacity that changes is met in the same step: the pins that no longer fit are unpinned before
\* the cache makes room (_budget_changed).
THEOREM ResizesFit == Spec => ResizeFits
<1>1. PlaceInv /\ [Next]_vars => [capacity' # capacity /\ capacity' > 0 => Held[resident'] <= capacity']_vars
  BY Step
<1> QED BY <1>1, Starts, Step, PTL DEF Spec, ResizeFits

===============================================================================
