---------------------------- MODULE HardwareProfile ----------------------------
(***************************************************************************)
(* What hw/profile.py derives from a measurement of the machine.  Fractions*)
(* of the policy are percentages, and a quantity that could not be         *)
(* measured is None.  A measurement m is a record:                         *)
(*    device, torch                    what identifies the device and torch*)
(*    deviceTotal, deviceBandwidth     the device, 0 without one           *)
(*    fragmentation, workspace         the allocator: a percentage, bytes  *)
(*    hostTotal, hostAvailable, cpu    the host                            *)
(*    charges, commit                  mappings charged against a limit    *)
(*    link, rates                      bandwidth to the device, and that of*)
(*                                     storage by number of reads at once  *)
(*    bf16, fp16, fused                what the device can run             *)
(***************************************************************************)
EXTENDS Integers, FiniteSets, FiniteSetsExt

None == -1
OrZero(x) == IF x = None THEN 0 ELSE x
Percent(x, share) == (x * share) \div 100
AtLeast(x, least) == Max({x, least})
AtMost(x, most) == Min({x, most})
Rounded(n, d) == (2 * n + d) \div (2 * d)     \* round(n / d), ties aside

(***************************************************************************)
(* Policy.                                                                 *)
(***************************************************************************)
ReserveCeiling == 25
OsHeadroom == 10
HostCacheShare == 50
StagingShare == 10
PrefixShare == 15
SpillMultiple == 4
WindowShare == 50
MappingShare == 25
HandleCeiling == 4
HysteresisFloor == 2
PinReplanShare == 10
Improvement == 10
Amortization == 10
LookaheadCeiling == 8
KvHeadroom == 15

(***************************************************************************)
(* measure_storage: the fewest reads at once that come within noise of the *)
(* best rate.                                                              *)
(***************************************************************************)
BestRate(m) == Max({m.rates[n] : n \in DOMAIN m.rates} \cup {None})
SaturatingLevel(m) ==
    LET near == {n \in DOMAIN m.rates : 100 * m.rates[n] >= BestRate(m) * (100 - Improvement)}
    IN  IF near = {} THEN None ELSE Min(near)

(***************************************************************************)
(* The shares of the device.                                               *)
(***************************************************************************)
DeriveReserve(m) ==
    IF m.deviceTotal = 0 THEN 0
    ELSE AtMost(AtLeast(m.workspace, Percent(m.deviceTotal, OrZero(m.fragmentation))),
                Percent(m.deviceTotal, ReserveCeiling))
HysteresisRatio(m) == AtLeast(OrZero(m.fragmentation), HysteresisFloor)

(***************************************************************************)
(* The shares of the host: of what is available beyond the headroom.       *)
(***************************************************************************)
Spendable(m) == m.hostAvailable - Percent(m.hostTotal, OsHeadroom)
\* Broken variant: the headroom is shared out, too
HostShareOfAll(m, share) == Percent(m.hostAvailable, share)
HostShare(m, share) == AtLeast(Percent(Spendable(m), share), 0)

IoWorkers(m) == IF SaturatingLevel(m) = None THEN 1 ELSE AtLeast(AtMost(SaturatingLevel(m), m.cpu), 1)
MappingBudget(m) == IF m.charges /\ m.commit > 0 THEN Percent(m.commit, MappingShare) ELSE 0
HandleLimit(m) == IF m.charges /\ m.commit > 0 THEN HandleCeiling ELSE 0

(***************************************************************************)
(* Formats and speculation.                                                *)
(***************************************************************************)
ComputeDtype(m) == IF m.bf16 THEN "bfloat16" ELSE IF m.fp16 THEN "float16" ELSE "float32"
QuantPath(m) == IF m.fused THEN "fused_packed" ELSE "dequant_to_scratch"

SlowestTier(m) == Min({b \in {m.link, BestRate(m)} : b > 0} \cup {2^30})
Measured(m) == m.deviceBandwidth > 0 /\ {m.link, BestRate(m)} \cap (1..2^30) # {}
Recommended(m) == Measured(m) /\ m.deviceBandwidth >= Amortization * SlowestTier(m)
Lookahead(m) ==
    IF Measured(m)
    THEN AtLeast(AtMost(Rounded(m.deviceBandwidth, SlowestTier(m) * Amortization) + 1, LookaheadCeiling), 1)
    ELSE None

(***************************************************************************)
(* derive: every knob, an override in place of what was derived from it.   *)
(* The window follows an overridden reserve.                               *)
(***************************************************************************)
Derive(m, overrides) ==
    LET set(name, value) == IF name \in DOMAIN overrides THEN overrides[name] ELSE value
        reserve == set("reserve", DeriveReserve(m))
        usable == AtLeast(m.deviceTotal - reserve, 0)
    IN  [reserve |-> reserve,
         usable |-> usable,
         window |-> set("window", Percent(usable, set("windowShare", WindowShare))),
         hostCache |-> set("hostCache", HostShare(m, HostCacheShare)),
         staging |-> set("staging", HostShare(m, StagingShare)),
         prefix |-> set("prefix", HostShare(m, PrefixShare)),
         spill |-> set("spill", HostShare(m, PrefixShare) * SpillMultiple),
         workers |-> set("workers", IoWorkers(m)),
         mapping |-> set("mapping", MappingBudget(m)),
         handles |-> set("handles", HandleLimit(m)),
         ratio |-> HysteresisRatio(m), replan |-> Percent(usable, PinReplanShare),
         dtype |-> ComputeDtype(m), path |-> QuantPath(m),
         speculate |-> set("speculate", Recommended(m)), lookahead |-> set("lookahead", Lookahead(m))]

(***************************************************************************)
(* What an engine makes of a profile (_build_cache): the layers its window *)
(* holds, the device budget, scaled to what is free now, the choice of the *)
(* context's format and whether a draft is used.                           *)
(***************************************************************************)
WindowLayers(budget, largest, cap) ==
    IF largest = 0 THEN 1
    ELSE LET fits == AtLeast(budget \div largest, 1)
         IN  AtLeast(AtMost(fits, IF cap = None THEN fits ELSE cap), 1)

KvChoice(setting, weights, device) ==
    IF setting # "auto" THEN setting
    ELSE IF weights = 0 \/ device = 0 \/ weights * (100 + KvHeadroom) <= 100 * device THEN "fp16"
    ELSE "int4"

Speculates(setting, draft, weights, device, profile) ==
    /\ draft /\ setting # "off"
    /\ \/ setting = "on"
       \/ (weights > device \/ device = 0 \/ weights = 0) /\ profile.speculate

Engine(profile, model, free) ==
    LET device == IF free = None THEN profile.usable ELSE AtLeast(free - profile.reserve, 0)
        window == IF profile.usable = 0 THEN 0 ELSE (device * profile.window) \div profile.usable
    IN  [device |-> device, window |-> window,
         layers |-> WindowLayers(profile.window, model.largest, model.windowMax),
         hostCache |-> profile.hostCache, staging |-> profile.staging, workers |-> profile.workers,
         kv |-> KvChoice(model.kv, model.weights, device),
         speculates |-> Speculates(model.speculative, model.draft, model.weights, device, profile)]
===============================================================================
