----------------------------- MODULE NetnsFlows -----------------------------
(***************************************************************************)
(* `ebpfview flows --all-netns`: the watcher of internal/netns, which polls *)
(* /proc for network namespaces and reports the differences on a channel,   *)
(* and the goroutine of startNetnsWatcher (cmd/ebpfview/flows_run.go),      *)
(* which attaches the flow programs to the interface in each namespace that *)
(* is reported, while processes come and go in the namespaces.              *)
(*                                                                          *)
(* The environment is the kernel's: a path (/proc/<pid>/ns/net, or a name   *)
(* under /var/run/netns) refers to a namespace while its process runs; a    *)
(* namespace exists while a path refers to it or something else pins it;    *)
(* its inode number is unique among the namespaces that exist.  Each        *)
(* behaviour has an environment, which says what else may happen in it.     *)
(* The handle's side of AttachTCXInNs is in Loader.                         *)
(*                                                                          *)
(* Bound: MaxChanges on the changes of the environment and the reads that   *)
(* fail within a walk.                                                      *)
(***************************************************************************)
EXTENDS Naturals, Sequences, SequencesExt

CONSTANTS Ns, Root,        \* the namespaces, and the process's own
          Paths, RootPath, \* paths; a process of Root stays at RootPath
          Names,           \* the paths under /var/run/netns
          Inodes, RootInode, NoNs, NoInode,
          Cap,             \* capacity of the event channel
          Environments, MaxChanges

Changes == {"exit", "join", "reuse_path", "reuse_inode", "pin", "late_iface",
            "no_root_iface", "proc_fails", "names_fail", "stat_fails",
            "attach_fails", "cancel"}

ASSUME RootAssumption ==
  Root \in Ns /\ RootPath \in Paths \ Names /\ RootInode \in Inodes
ASSUME NoneAssumption == NoNs \notin Ns /\ NoInode \notin Inodes
ASSUME EnvAssumption  == Environments \subseteq SUBSET Changes
ASSUME NamesAssumption == Names \subseteq Paths
ASSUME BoundAssumption == MaxChanges \in Nat /\ Cap \in Nat \ {0}

VARIABLES
  may,        \* the environment of this behaviour: a member of Environments
  at,         \* [Paths -> Ns \cup {NoNs}]: where each path leads
  ino,        \* [Ns -> Inodes \cup {NoInode}]: NoInode before birth
  pinned,     \* namespaces kept by a mount or a descriptor elsewhere
  iface,      \* namespaces that have the interface
  tcx,        \* the programs on the interfaces: [Ns \X Directions]
  used,       \* history: paths that have led somewhere
  changes,    \* changes of the environment so far (bound)
  steady,     \* history: paths that have led to one namespace since the
              \* walk began, and that it has not failed to read
  wpc,        \* watcher: "start", "enum" (of the pids), "names", "diff",
              \* "send", "wait", "returned"
  todo, seen, \* its Enumerate: paths ahead, map of inode to path
  known,      \* its map of inode to path
  ev,         \* the event it is about to send
  ch,         \* the channel events
  cpc, cev,   \* consumer: "wait", "enter", "ingress", "egress" or
              \* "returned", and its event
  inside,     \* the namespace its thread has entered, or NoNs
  attached,   \* its set of inodes
  told,       \* history: the inodes the consumer has been told exist
  cancelled

kernel   == <<may, at, ino, pinned, iface, used>>
env      == <<kernel, steady, changes>>
watcher  == <<todo, seen, known, ev>>
consumer == <<cpc, cev, inside, attached, told>>
vars == <<env, tcx, wpc, watcher, ch, consumer, cancelled>>

NoEvent == [type |-> "none", ino |-> NoInode, path |-> RootPath]

Directions == {"ingress", "egress"}
HasPrograms(n) == {n} \X Directions \subseteq tcx

(* Whether something else than the consumer's thread holds n, and whether n *)
(* exists, when the paths lead to f and P is pinned.                        *)
HeldIn(f, P, n) == n = Root \/ n \in P \/ \E p \in Paths : f[p] = n
Held(n)   == HeldIn(at, pinned, n)
Exists(n) == Held(n) \/ n = inside

Init ==
  /\ may \in Environments
  /\ at = [p \in Paths |-> IF p = RootPath THEN Root ELSE NoNs]
  /\ ino = [n \in Ns |-> IF n = Root THEN RootInode ELSE NoInode]
  /\ pinned = {} /\ used = {RootPath} /\ changes = 0 /\ steady = {}
  /\ iface \in {{Root}} \cup (IF "no_root_iface" \in may THEN {{}} ELSE {})
  /\ tcx = iface \X Directions   \* runFlows attaches in its own namespace
  /\ wpc = "start" /\ todo = {} /\ seen = <<>> /\ known = <<>> /\ ev = NoEvent
  /\ ch = <<>>
  /\ cpc = "wait" /\ cev = NoEvent /\ inside = NoNs
  /\ attached = {ino[Root]} /\ told = {}
  /\ cancelled = FALSE
-----------------------------------------------------------------------------
Change == changes < MaxChanges /\ changes' = changes + 1

Free(p) == at[p] = NoNs /\ (p \notin used \/ "reuse_path" \in may)
InodeFree(i) == \A n \in Ns : ino[n] = i => ~Exists(n) /\ "reuse_inode" \in may

(* A process unshares, or `ip netns add` makes, a namespace. *)
Create(n, p, i) ==
  /\ Change /\ ino[n] = NoInode /\ Free(p) /\ InodeFree(i)
  /\ at' = [at EXCEPT ![p] = n] /\ used' = used \cup {p}
  /\ ino' = [ino EXCEPT ![n] = i]
  /\ \/ iface' = iface \cup {n}
     \/ "late_iface" \in may /\ iface' = iface
  /\ UNCHANGED <<may, pinned, steady, tcx, wpc, watcher, ch, consumer,
                 cancelled>>

(* A process starts in an existing namespace. *)
Join(n, p) ==
  /\ "join" \in may /\ Change /\ Exists(n) /\ ino[n] # NoInode /\ Free(p)
  /\ at' = [at EXCEPT ![p] = n] /\ used' = used \cup {p}
  /\ UNCHANGED <<may, ino, pinned, iface, steady, tcx, wpc, watcher, ch,
                 consumer, cancelled>>

(* A process exits; the namespace may stay pinned.  With the last reference *)
(* the namespace goes, and the links in it.                                 *)
Exit(p) ==
  /\ "exit" \in may /\ Change /\ p # RootPath /\ at[p] # NoNs
  /\ at' = [at EXCEPT ![p] = NoNs] /\ steady' = steady \ {p}
  /\ pinned' \in {pinned} \cup (IF "pin" \in may THEN {pinned \cup {at[p]}}
                                                 ELSE {})
  /\ tcx' = {t \in tcx : HeldIn(at', pinned', t[1]) \/ t[1] = inside}
  /\ UNCHANGED <<may, ino, iface, used, wpc, watcher, ch, consumer, cancelled>>

(* The interface is created in, or moved into, a namespace. *)
AddIface(n) ==
  /\ "late_iface" \in may /\ Change /\ Exists(n) /\ n \notin iface
  /\ ino[n] # NoInode
  /\ iface' = iface \cup {n}
  /\ UNCHANGED <<may, at, ino, pinned, used, steady, tcx, wpc, watcher, ch,
                 consumer, cancelled>>

Cancel ==
  /\ "cancel" \in may /\ ~cancelled /\ cancelled' = TRUE
  /\ UNCHANGED <<env, tcx, wpc, watcher, ch, consumer>>
-----------------------------------------------------------------------------
(* Watcher.Run: Enumerate at the start and on every tick.  /proc is listed, *)
(* then each pid's path is looked at.                                       *)
Present == {p \in Paths : at[p] # NoNs}
EnumStart ==
  /\ wpc \in {"start", "wait"}
  /\ wpc' = "enum" /\ todo' = Present \ Names /\ seen' = <<>>
  /\ steady' = Present
  /\ UNCHANGED <<kernel, changes, tcx, known, ev, ch, consumer, cancelled>>

(* The first Enumerate failing ends Run, a later one is skipped. *)
EnumFails ==
  /\ "proc_fails" \in may /\ wpc \in {"start", "wait"}
  /\ wpc' = IF wpc = "start" THEN "returned" ELSE "wait"
  /\ UNCHANGED <<env, tcx, watcher, ch, consumer, cancelled>>

(* f with i mapped to v. *)
Put(f, i, v) == [j \in DOMAIN f \cup {i} |-> IF j = i THEN v ELSE f[j]]

(* One stat.  The first pid of an inode is kept; a name takes precedence.   *)
(* Nothing is seen where the process has exited meanwhile.                  *)
EnumPath(p) ==
  /\ wpc \in {"enum", "names"} /\ p \in todo
  /\ todo' = todo \ {p}
  /\ seen' = IF at[p] = NoNs \/ (p \notin Names /\ ino[at[p]] \in DOMAIN seen)
             THEN seen ELSE Put(seen, ino[at[p]], p)
  /\ UNCHANGED <<env, tcx, wpc, known, ev, ch, consumer, cancelled>>

(* A stat that fails otherwise is taken for the same.                       *)
EnumSkips(p) ==
  /\ "stat_fails" \in may /\ Change /\ wpc \in {"enum", "names"} /\ p \in todo
  /\ todo' = todo \ {p} /\ steady' = steady \ {p}
  /\ UNCHANGED <<kernel, tcx, wpc, seen, known, ev, ch, consumer, cancelled>>

(* /var/run/netns is listed when the pids are done ...                      *)
EnumNames ==
  /\ wpc = "enum" /\ todo = {} /\ wpc' = "names"
  /\ todo' = Present \cap Names
  /\ UNCHANGED <<env, tcx, seen, known, ev, ch, consumer, cancelled>>

(* ... and where it cannot be read every name is left out, silently.        *)
EnumNamesFails ==
  /\ "names_fail" \in may /\ Change
  /\ wpc = "enum" /\ todo = {} /\ wpc' = "diff"
  /\ steady' = steady \ Names
  /\ UNCHANGED <<kernel, tcx, watcher, ch, consumer, cancelled>>

EnumDoneEarly ==   \* mutant: what the walk has found so far is used
  /\ wpc = "names" /\ wpc' = "diff"
  /\ UNCHANGED <<env, tcx, watcher, ch, consumer, cancelled>>
EnumDone ==
  /\ wpc = "names" /\ todo = {} /\ wpc' = "diff"
  /\ UNCHANGED <<env, tcx, watcher, ch, consumer, cancelled>>

(* known is updated, then the event is sent. *)
Emit(type, i, path, k) ==
  /\ known' = k /\ ev' = [type |-> type, ino |-> i, path |-> path]
  /\ wpc' = "send"
  /\ UNCHANGED <<env, tcx, todo, seen, ch, consumer, cancelled>>

EmitAdded(i) ==
  /\ wpc = "diff" /\ i \in DOMAIN seen \ DOMAIN known
  /\ Emit("added", i, seen[i], Put(known, i, seen[i]))

WithoutKept(f, i) == f   \* mutant: no delete(known, ino)
Without(f, i) == [j \in DOMAIN f \ {i} |-> f[j]]
EmitRemoved(i) ==
  /\ wpc = "diff" /\ DOMAIN seen \subseteq DOMAIN known
  /\ i \in DOMAIN known \ DOMAIN seen
  /\ Emit("removed", i, known[i], Without(known, i))

DiffDone ==
  /\ wpc = "diff" /\ DOMAIN seen = DOMAIN known /\ wpc' = "wait"
  /\ UNCHANGED <<env, tcx, watcher, ch, consumer, cancelled>>

SendOrDrop ==   \* mutant: a full channel drops the event
  /\ wpc = "send"
  /\ wpc' = "diff" /\ ch' = IF Len(ch) < Cap THEN Append(ch, ev) ELSE ch
  /\ UNCHANGED <<env, tcx, watcher, consumer, cancelled>>
Send ==
  /\ wpc = "send" /\ Len(ch) < Cap
  /\ wpc' = "diff" /\ ch' = Append(ch, ev)
  /\ UNCHANGED <<env, tcx, watcher, consumer, cancelled>>

(* ctx.Done() in Run's select or in send's. *)
StoppableIdle == wpc = "wait"   \* mutant: send does not watch the context
Stoppable == wpc \in {"wait", "send"}
WatcherStops ==
  /\ cancelled /\ Stoppable /\ wpc' = "returned"
  /\ UNCHANGED <<env, tcx, watcher, ch, consumer, cancelled>>
-----------------------------------------------------------------------------
(* The goroutine of startNetnsWatcher. *)
Receive ==
  /\ cpc = "wait" /\ ch # <<>>
  /\ ch' = Tail(ch) /\ cev' = Head(ch)
  /\ \/ /\ Head(ch).type = "removed"
        /\ attached' = attached \ {Head(ch).ino}
        /\ told' = told \ {Head(ch).ino}
        /\ cpc' = "wait"
     \/ /\ Head(ch).type = "added"
        /\ cpc' = IF Head(ch).ino \in attached THEN "wait" ELSE "enter"
        /\ told' = told \cup {Head(ch).ino}
        /\ UNCHANGED attached
  /\ UNCHANGED <<env, tcx, wpc, watcher, inside, cancelled>>

(* AttachTCXInNs enters the namespace the path leads to now, and looks the  *)
(* interface up in it.                                                      *)
Target == at[cev.path]
CanEnter == Target # NoNs /\ Target \in iface
Enter ==
  /\ cpc = "enter" /\ cpc' = "ingress" /\ CanEnter /\ inside' = Target
  /\ UNCHANGED <<env, tcx, wpc, watcher, ch, cev, attached, told, cancelled>>

(* The thread leaves; a namespace it alone held goes, with what is in it.  *)
(* In fact it is gone just after it reported; the two are taken as one.    *)
Leave(T) ==
  /\ inside' = NoNs /\ tcx' = {t \in T : Held(t[1])} /\ cpc' = "wait"

(* attachTCX, once for each direction.  The kernel refuses a program that   *)
(* is attached there already.                                               *)
Refused == <<inside, cpc>> \in tcx
AttachIngressMarks ==   \* mutant: marked when one direction is attached
  /\ cpc = "ingress" /\ cpc' = "egress" /\ ~Refused
  /\ tcx' = tcx \cup {<<inside, cpc>>}
  /\ attached' = attached \cup {cev.ino}
  /\ UNCHANGED <<env, wpc, watcher, ch, cev, inside, told, cancelled>>
AttachIngress ==
  /\ cpc = "ingress" /\ cpc' = "egress" /\ ~Refused
  /\ tcx' = tcx \cup {<<inside, cpc>>}
  /\ UNCHANGED <<env, wpc, watcher, ch, cev, inside, attached, told, cancelled>>

AttachEgress ==
  /\ cpc = "egress" /\ ~Refused
  /\ Leave(tcx \cup {<<inside, cpc>>})
  /\ attached' = attached \cup {cev.ino}
  /\ UNCHANGED <<env, wpc, watcher, ch, cev, told, cancelled>>

(* A failure is logged and the event forgotten.  A namespace that has one   *)
(* direction attached stays so.                                             *)
AttachFails ==
  /\ \/ cpc = "enter" /\ ~CanEnter
     \/ cpc \in Directions /\ Refused
     \/ cpc \in Directions \cup {"enter"} /\ "attach_fails" \in may
  /\ Leave(tcx)
  /\ UNCHANGED <<env, wpc, watcher, ch, cev, attached, told, cancelled>>

ConsumerStops ==
  /\ cancelled /\ cpc = "wait" /\ cpc' = "returned"
  /\ UNCHANGED <<env, tcx, wpc, watcher, ch, cev, inside, attached, told,
                 cancelled>>
-----------------------------------------------------------------------------
Watches == \/ EnumStart \/ EnumNames \/ EnumDone \/ DiffDone \/ Send
           \/ \E p \in Paths : EnumPath(p)
           \/ \E i \in Inodes : EmitAdded(i) \/ EmitRemoved(i)

Attaches == Enter \/ AttachIngress \/ AttachEgress \/ AttachFails

Next ==
  \/ \E n \in Ns, p \in Paths : Join(n, p) \/ \E i \in Inodes : Create(n, p, i)
  \/ \E p \in Paths : Exit(p)
  \/ \E n \in Ns : AddIface(n)
  \/ Cancel
  \/ Watches \/ EnumFails \/ EnumNamesFails \/ WatcherStops
  \/ \E p \in Paths : EnumSkips(p)
  \/ Receive \/ Attaches \/ ConsumerStops

Spec == Init /\ [][Next]_vars

(* The ticker ticks and both goroutines are scheduled; a select with the    *)
(* context done takes that case sooner or later.                            *)
FairSpec ==
  /\ Spec /\ WF_vars(Watches) /\ SF_vars(WatcherStops)
  /\ WF_vars(Receive) /\ WF_vars(Attaches)
  /\ SF_vars(ConsumerStops)
-----------------------------------------------------------------------------
Events == [type : {"added", "removed"}, ino : Inodes, path : Paths]
InodePaths(f) == DOMAIN f \subseteq Inodes /\ \A i \in DOMAIN f : f[i] \in Paths
TypeOK ==
  /\ may \in Environments
  /\ at \in [Paths -> Ns \cup {NoNs}] /\ ino \in [Ns -> Inodes \cup {NoInode}]
  /\ pinned \subseteq Ns /\ iface \subseteq Ns
  /\ tcx \subseteq iface \X Directions
  /\ wpc \in {"start", "enum", "names", "diff", "send", "wait", "returned"}
  /\ steady \subseteq Present
  /\ todo \subseteq Paths /\ InodePaths(seen) /\ InodePaths(known)
  /\ ev \in Events \cup {NoEvent} /\ cev \in Events \cup {NoEvent}
  /\ Len(ch) <= Cap /\ \A k \in DOMAIN ch : ch[k] \in Events
  /\ cpc \in Directions \cup {"wait", "enter", "returned"}
  /\ inside \in Ns \cup {NoNs} /\ (cpc \in Directions <=> inside # NoNs)
  /\ attached \subseteq Inodes /\ told \subseteq Inodes

(* netns.go: EventAdded and EventRemoved.  What the consumer has been told, *)
(* with the events on their way, is what the watcher knows: no namespace is *)
(* added twice or removed unseen, however long a send blocks.               *)
Replay(S, e) == IF e.type = "added" THEN S \cup {e.ino} ELSE S \ {e.ino}
InFlight == IF wpc = "send" THEN Append(ch, ev) ELSE ch
EventsReplay ==
  wpc # "returned" => FoldLeft(Replay, told, InFlight) = DOMAIN known

(* flows_run.go: the programs are attached to the interface inside each     *)
(* namespace, and newly created ones are attached to on the fly.  So it is  *)
(* while namespaces are born with their interface and processes only come:  *)
(* an attachment that fails is not tried again, and an inode number or a    *)
(* process id that is used again stands for what it stood for before.       *)
Growing == may \subseteq {"join", "cancel"}
EveryNsAttached ==
  \A n \in Ns \ {Root} :
    Growing /\ n \in iface /\ Exists(n)
      ~> HasPrograms(n) \/ ~Exists(n) \/ cancelled

(* flows_run.go: with no root-level interface the attachment in the root    *)
(* namespace is deferred to the watcher.                                    *)
RootAttached == Root \in iface ~> HasPrograms(Root) \/ cancelled

(* netns.go: Path "is a stable path that can be opened with setns".  While  *)
(* no process id is used again, a namespace marked attached is one that has *)
(* both programs, if the interface was there when it was born, whichever    *)
(* step of whose attachment failed.                                         *)
MarkedIsAttached ==
  may \cap {"reuse_path", "reuse_inode", "pin", "late_iface",
            "no_root_iface"} = {} =>
    \A n \in Ns : Exists(n) /\ ino[n] \in attached => HasPrograms(n)

(* netns.go: EventRemoved "means a previously observed netns no longer      *)
(* exists".  The walk of /proc is not atomic, what it cannot read it leaves *)
(* out, and numbers are used again; still, no namespace is reported removed *)
(* that a path led to all along and was not refused to be read.             *)
SteadyNotRemoved ==
  wpc = "send" /\ ev.type = "removed" =>
    \A p \in steady : ino[at[p]] # ev.ino

(* Once the context is cancelled both goroutines return. *)
GoroutinesStop == cancelled ~> wpc = "returned" /\ cpc = "returned"
-----------------------------------------------------------------------------
(* What the comments promise, without the premises above; the code keeps    *)
(* none of these.                                                           *)

(* netns.go: EventRemoved "means a previously observed netns no longer      *)
(* exists".                                                                 *)
RemovedIsGone ==
  wpc = "send" /\ ev.type = "removed" =>
    \A n \in Ns : ino[n] = ev.ino => ~Held(n)

(* netns.go: Path "is a stable path that can be opened with setns": who     *)
(* opens it is in the namespace it was reported with.                       *)
PathIsStable == inside # NoNs => ino[inside] = cev.ino

(* flows_run.go: the programs are attached inside each namespace, and       *)
(* "newly-created namespaces" are attached to "on the fly".                 *)
AttachesToEach ==
  \A n \in Ns \ {Root} :
    n \in iface /\ Exists(n) ~> HasPrograms(n) \/ ~Exists(n) \/ cancelled
=============================================================================
