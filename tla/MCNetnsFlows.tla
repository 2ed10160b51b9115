---------------------------- MODULE MCNetnsFlows ----------------------------
(***************************************************************************)
(* Instances of NetnsFlows for TLC: what the environment does in each.      *)
(***************************************************************************)
EXTENDS NetnsFlows

(* Processes hand namespaces on, numbers are used again.                   *)
Moving == {"exit", "join", "reuse_inode", "late_iface", "attach_fails"}

(* Nothing takes from an observed namespace its number or its process, but *)
(* what is read or attached may fail.                                      *)
Failing == {"exit", "proc_fails", "names_fail", "stat_fails", "attach_fails"}

(* A signal, while processes only come, or while something fails.          *)
OnlyGrowing == {"join", "cancel"}
Stopping == {"proc_fails", "attach_fails", "cancel"}

AllEnvironments == {Moving, Failing, OnlyGrowing, Stopping}

(* One thing that may happen, for what is promised regardless of it. *)
NamesFail   == {{"names_fail"}}
HandOver    == {{"join", "exit"}}
PathReused  == {{"exit", "reuse_path"}}
AttachFailing == {{"attach_fails"}}
InodeReused == {{"exit", "reuse_inode"}}
NoRootIface == {{"late_iface", "no_root_iface"}}
=============================================================================
