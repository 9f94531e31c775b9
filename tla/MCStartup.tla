------------------------------- MODULE MCStartup -------------------------------
\* One machine with a device, the same after a package with kernels was installed, the same after
\* its host was changed, and one without a device.
EXTENDS Startup, TLC

Accelerated == [device |-> 1, torch |-> 1, deviceTotal |-> 40, deviceBandwidth |-> 400, fragmentation |-> 10, workspace |-> 6,
                hostTotal |-> 100, cpu |-> 2, charges |-> FALSE, commit |-> 0, link |-> 8,
                bf16 |-> TRUE, fp16 |-> TRUE, fused |-> FALSE]
MCMachines == {"first", "kernels", "larger host", "host only"}
MCFacts == [m \in MCMachines |->
    CASE m = "first" -> Accelerated
      [] m = "kernels" -> [Accelerated EXCEPT !.fused = TRUE]
      [] m = "larger host" -> [Accelerated EXCEPT !.hostTotal = 200, !.cpu = 4]
      [] OTHER -> [Accelerated EXCEPT !.device = 0, !.deviceTotal = 0, !.deviceBandwidth = 0, !.fragmentation = None,
                                      !.workspace = 0, !.cpu = 1, !.charges = TRUE, !.commit = 80,
                                      !.link = 0, !.bf16 = FALSE, !.fp16 = FALSE]]

\* Storage that could not be read, and storage that rewards four reads at once (or two, where
\* four are not tried).
MCStorage == {[n \in {} |-> 0], 1 :> 10 @@ 2 :> 15, 1 :> 10 @@ 2 :> 15 @@ 4 :> 20}
MCOverrides == {NoOverrides, "reserve" :> 30 @@ "lookahead" :> 2}
Model(largest, cap, setting) ==
    [largest |-> largest, windowMax |-> cap, weights |-> 6 * largest, kv |-> "auto",
     speculative |-> setting, draft |-> TRUE]
MCModels == {Model(4, None, "auto"), Model(30, 2, "on")}
Symmetry == Permutations(Procs)
===============================================================================
