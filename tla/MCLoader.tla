------------------------------ MODULE MCLoader ------------------------------
(***************************************************************************)
(* Instances of Loader for TLC: programs, by what their goroutines call.    *)
(***************************************************************************)
EXTENDS Loader, TLC

CONSTANTS p1, p2

Attaches == {"Attach", "AttachTCXInNs", "AttachPerfEventAllCPUs"}

Main(main, other) == (p1 :> main) @@ (p2 :> other)

(* One goroutine, every operation of the Manager. *)
Sequential == Main({"Load", "Detach", "Close"} \cup Attaches, {})

(* One goroutine, a probe closed on its own and then with its manager. *)
Probe == Main({"Load", "Attach", "HelloClose", "Close"}, {})

(* Two goroutines that load and attach, as before a shutdown. *)
Attaching == Main({"Load"} \cup Attaches, {"Load", "AttachTCXInNs"})

(* flows_run.go: the main goroutine loads and on its way out closes, while  *)
(* the netns goroutine attaches.                                            *)
Flows == Main({"Load", "Close"}, {"AttachTCXInNs"})

(* One goroutine that attaches and detaches. *)
Detacher == Main({"Load", "Attach", "Detach"}, {})

(* Two goroutines that detach the same handle. *)
Detachers == Main({"Load", "Attach", "Detach"}, {"Detach"})

(* One goroutine that samples on every CPU. *)
Sampler == Main({"Load", "AttachPerfEventAllCPUs", "Close"}, {})

AllPrograms == {Sequential, Probe, Attaching, Flows}
FlowsOnly     == {Flows}
ProbeOnly     == {Probe}
DetacherOnly  == {Detacher}
DetachersOnly == {Detachers}
SamplerOnly   == {Sampler}

FirstTwo == {0, 1}
WithGap  == {0, 2}
=============================================================================
