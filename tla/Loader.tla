------------------------------- MODULE Loader -------------------------------
(***************************************************************************)
(* internal/loader: the Manager, its handles, and the kernel objects (BPF   *)
(* collections, links, perf event descriptors) they own.  Goroutines call   *)
(* the operations concurrently: flows_run.go attaches from the netns        *)
(* goroutine while the main one attaches and, on the way out, closes.       *)
(*                                                                          *)
(* m.mu protects m.handles, m.nextID and the appends to a handle's slices;  *)
(* the source reads and writes other handle fields without it, and those    *)
(* accesses are steps of their own here.  A panic (a nil h.Collection is    *)
(* dereferenced) stops the whole program.                                   *)
(*                                                                          *)
(* Every Attach* method is Attach: they differ in the link call only.       *)
(* Calls that fail before they change anything (RemoveMemlock, a missing    *)
(* program, feature or namespace, a collection that does not load) are the  *)
(* Returns action.                                                          *)
(*                                                                          *)
(* Bounds: MaxHandles on loads, MaxOps on operations started, MaxLeaks on   *)
(* the objects left over.                                                   *)
(***************************************************************************)
EXTENDS Integers, FiniteSets

CONSTANTS Procs,             \* the goroutines
          Programs,          \* what the goroutines may call, in each program
          Online,            \* the numbers of the online CPUs
          Nobody,            \* holder of an unlocked mutex
          NoObject,          \* a nil Collection
          MaxHandles, MaxOps, MaxLeaks

Operations == {"Load", "Attach", "AttachTCXInNs", "AttachPerfEventAllCPUs",
               "Detach", "Close", "HelloClose"}

ASSUME ProgramsAssumption == Programs \subseteq [Procs -> SUBSET Operations]
ASSUME OnlineAssumption == IsFiniteSet(Online) /\ Online # {} /\ Online \subseteq Nat
ASSUME NobodyAssumption == Nobody \notin Procs
ASSUME LoaderBoundsAssumption ==
  MaxHandles \in Nat /\ MaxOps \in Nat /\ MaxLeaks \in Nat

HandleIDs == 1..MaxHandles
Kinds == {"coll", "link", "fd"}
Objects == [n : Nat, kind : Kinds, of : HandleIDs \cup {0}]

ASSUME NoObjectAssumption == NoObject \notin Objects

Statuses == {"loaded", "attached", "detached", "error"}

VARIABLES
  may,       \* the program of this behaviour: a member of Programs
  handles,   \* m.handles: the registered IDs
  nextID,    \* m.nextID
  hd,        \* the Handle structs, which callers keep after Close
  mu,        \* holder of m.mu
  live,      \* kernel objects that nobody has closed
  leaked,    \* kernel objects left over from a Close that failed
  made,      \* kernel objects made so far
  pc, cur,   \* per goroutine: location and handle it works on
  obj,       \* objects it has made and not handed over (links, opened)
  num, old,  \* what it has read under the mutex: nextID, a slice
  left,      \* attachments left of its call (AttachTCXInNs makes two)
  ops,       \* operations started (bound)
  panicked,
  twice      \* history: an object was closed that no longer existed

vars == <<may, handles, nextID, hd, mu, live, leaked, made, pc, cur, obj, num,
          old, left, ops, panicked, twice>>

kernel   == <<live, leaked, made>>
registry == <<may, handles, nextID>>
locals   == <<cur, obj, num, old, left>>

NoHandle == [links |-> {}, closers |-> {}, coll |-> NoObject,
             status |-> "loaded"]

Init ==
  /\ may \in Programs
  /\ handles = {} /\ nextID = 1
  /\ hd = [h \in HandleIDs |-> NoHandle]
  /\ mu = Nobody /\ live = {} /\ leaked = {} /\ made = 0
  /\ pc = [p \in Procs |-> "idle"]
  /\ cur = [p \in Procs |-> 0] /\ obj = [p \in Procs |-> {}]
  /\ num = [p \in Procs |-> 0] /\ old = [p \in Procs |-> {}]
  /\ left = [p \in Procs |-> 0]
  /\ ops = 0 /\ panicked = FALSE /\ twice = FALSE

Goto(p, from, to) ==
  ~panicked /\ pc[p] = from /\ pc' = [pc EXCEPT ![p] = to]

Starts(p, op, to) ==
  /\ op \in may[p] /\ ops < MaxOps /\ ops' = ops + 1
  /\ Goto(p, "idle", to)

(* m.mu.Lock(), m.mu.Unlock() *)
Lock(p)   == mu = Nobody /\ mu' = p
Unlock(p) == mu' = Nobody

(* The kernel makes an object for p, of the handle h. *)
Make(p, kind, h) ==
  LET o == [n |-> made + 1, kind |-> kind, of |-> h] IN
  /\ made' = made + 1
  /\ live' = live \cup {o} /\ leaked' = leaked
  /\ obj' = [obj EXCEPT ![p] = @ \cup {o}]

(* Close() of each object in S.  A Close that fails stops nothing: the      *)
(* others are closed too, and every caller forgets the whole of S.          *)
CloseAll(S) ==
  /\ live' = live \ S
  /\ leaked' \in {leaked \cup failed : failed \in SUBSET S}
  /\ Cardinality(leaked') <= MaxLeaks
  /\ twice' = (twice \/ ~(S \subseteq live))

Returned == {h \in HandleIDs : h < nextID}   \* the handles callers have
-----------------------------------------------------------------------------
(* A call that returns an error before it changes anything. *)
Returns(p) ==
  /\ may[p] # {} /\ ops < MaxOps /\ ops' = ops + 1
  /\ Goto(p, "idle", "idle")
  /\ UNCHANGED <<registry, hd, mu, kernel, locals, panicked, twice>>

(* Load: ebpf.NewCollection, then registration under the mutex. *)
Loading == {p \in Procs : pc[p] \in {"register", "registering"}}
Load(p) ==
  /\ nextID + Cardinality(Loading) <= MaxHandles
  /\ Starts(p, "Load", "register")
  /\ Make(p, "coll", 0)
  /\ UNCHANGED <<registry, hd, mu, cur, num, old, left, panicked, twice>>

LoadLock(p) ==
  /\ Goto(p, "register", "registering")
  /\ Lock(p)
  /\ num' = [num EXCEPT ![p] = nextID]
  /\ UNCHANGED <<registry, hd, kernel, cur, obj, old, left, ops, panicked,
                 twice>>

LoadRegister(p) ==
  /\ Goto(p, "registering", "idle")
  /\ nextID' = num[p] + 1
  /\ handles' = handles \cup {num[p]}
  /\ \E c \in obj[p] : hd' = [hd EXCEPT ![num[p]].coll = c]
  /\ obj' = [obj EXCEPT ![p] = {}]
  /\ Unlock(p)
  /\ UNCHANGED <<may, kernel, cur, num, old, left, ops, panicked, twice>>
-----------------------------------------------------------------------------
(* Attach*: the program is looked up in h.Collection, the link is made, and *)
(* it is appended to h.Links under the mutex.                               *)
Attachments(op) == IF op = "AttachTCXInNs" THEN 2 ELSE 1
Attach(p, h) ==
  /\ \E op \in {"Attach", "AttachTCXInNs", "AttachPerfEventAllCPUs"} :
       /\ Starts(p, op, IF op = "AttachPerfEventAllCPUs" THEN "perf_lookup"
                                                          ELSE "lookup")
       /\ left' = [left EXCEPT ![p] = Attachments(op)]
  /\ cur' = [cur EXCEPT ![p] = h]
  /\ num' = [num EXCEPT ![p] = 0]
  /\ UNCHANGED <<registry, hd, mu, kernel, obj, old, panicked, twice>>

Loaded(p) == hd[cur[p]].coll # NoObject

AttachLookup(p) ==
  /\ \/ Goto(p, "lookup", "attach")
     \/ Goto(p, "perf_lookup", "perf_open")
  /\ panicked' = ~Loaded(p)
  /\ UNCHANGED <<registry, hd, mu, kernel, locals, ops, twice>>

AttachLink(p) ==
  /\ Goto(p, "attach", "append")
  /\ Loaded(p)
  /\ Make(p, "link", cur[p])
  /\ UNCHANGED <<registry, hd, mu, cur, num, old, left, ops, panicked, twice>>

(* The link call fails, as it must when the program has been closed; the    *)
(* status is set without the mutex.                                         *)
AttachLinkFails(p) ==
  /\ Goto(p, "attach", "idle")
  /\ hd' = [hd EXCEPT ![cur[p]].status = "error"]
  /\ UNCHANGED <<registry, mu, kernel, locals, ops, panicked, twice>>

(* AttachPerfEventAllCPUs counts the online CPUs and opens an event on CPU  *)
(* 0, 1, ...; the kernel refuses a CPU that is not online.                  *)
PerfOpen(p) ==
  /\ Goto(p, "perf_open",
          IF num[p] + 1 = Cardinality(Online) THEN "append" ELSE "perf_open")
  /\ Loaded(p) /\ num[p] \in Online
  /\ num' = [num EXCEPT ![p] = @ + 1]
  /\ Make(p, "fd", cur[p])
  /\ UNCHANGED <<registry, hd, mu, cur, old, left, ops, panicked, twice>>

(* A failure closes the descriptors opened so far; the status stays.        *)
PerfOpenFails(p) ==
  /\ Goto(p, "perf_open", "idle")
  /\ CloseAll(obj[p])
  /\ obj' = [obj EXCEPT ![p] = {}]
  /\ UNCHANGED <<registry, hd, mu, made, cur, num, old, left, ops, panicked>>

(* h.Links = append(h.Links, l), or h.Closers, under the mutex. *)
IsFd(p) == \E o \in obj[p] : o.kind = "fd"

AppendUnlocked(p) ==   \* mutant: m.mu is not taken
  /\ Goto(p, "append", "appending")
  /\ mu' = mu
  /\ old' = [old EXCEPT ![p] = IF IsFd(p) THEN hd[cur[p]].closers
                                          ELSE hd[cur[p]].links]
  /\ UNCHANGED <<registry, hd, kernel, cur, obj, num, left, ops, panicked,
                 twice>>
AppendLock(p) ==
  /\ Goto(p, "append", "appending")
  /\ Lock(p)
  /\ old' = [old EXCEPT ![p] = IF IsFd(p) THEN hd[cur[p]].closers
                                          ELSE hd[cur[p]].links]
  /\ UNCHANGED <<registry, hd, kernel, cur, obj, num, left, ops, panicked,
                 twice>>

UnlockForgotten(p) == mu' = mu   \* mutant: no m.mu.Unlock()
AppendUnlock(p) == Unlock(p)
Append(p) ==
  /\ Goto(p, "appending", IF left[p] > 1 THEN "lookup" ELSE "idle")
  /\ AppendUnlock(p)
  /\ left' = [left EXCEPT ![p] = @ - 1]
  /\ hd' = [hd EXCEPT ![cur[p]] =
              IF IsFd(p)
              THEN [@ EXCEPT !.closers = old[p] \cup obj[p], !.status = "attached"]
              ELSE [@ EXCEPT !.links = old[p] \cup obj[p], !.status = "attached"]]
  /\ obj' = [obj EXCEPT ![p] = {}]
  /\ UNCHANGED <<registry, kernel, cur, num, old, ops, panicked, twice>>
-----------------------------------------------------------------------------
(* Detach: the handle is looked up under the mutex; its status is read and  *)
(* its slices walked without it; they are emptied under it.                 *)
Detach(p, h) ==
  /\ mu = Nobody /\ h \in handles
  /\ Starts(p, "Detach", "detach_check")
  /\ cur' = [cur EXCEPT ![p] = h]
  /\ UNCHANGED <<registry, hd, mu, kernel, obj, num, old, left, panicked,
                 twice>>

DetachCheck(p) ==
  /\ Goto(p, "detach_check",
          IF hd[cur[p]].status = "detached" THEN "idle" ELSE "detach_links")
  /\ UNCHANGED <<registry, hd, mu, kernel, locals, ops, panicked, twice>>

DetachLinks(p) ==
  /\ Goto(p, "detach_links", "detach_closers")
  /\ CloseAll(hd[cur[p]].links)
  /\ UNCHANGED <<registry, hd, mu, made, locals, ops, panicked>>

DetachClosers(p) ==
  /\ Goto(p, "detach_closers", "detach_clear")
  /\ CloseAll(hd[cur[p]].closers)
  /\ UNCHANGED <<registry, hd, mu, made, locals, ops, panicked>>

DetachClear(p) ==
  /\ mu = Nobody
  /\ Goto(p, "detach_clear", "idle")
  /\ hd' = [hd EXCEPT ![cur[p]].links = {}, ![cur[p]].closers = {},
                      ![cur[p]].status = "detached"]
  /\ UNCHANGED <<registry, mu, kernel, locals, ops, panicked, twice>>
-----------------------------------------------------------------------------
(* Handle.Close: called by Manager.Close, which holds the mutex, and by     *)
(* HelloProbe.Close, which does not.                                        *)
HelloClose(p, h) ==
  /\ Starts(p, "HelloClose", "close_links")
  /\ cur' = [cur EXCEPT ![p] = h]
  /\ UNCHANGED <<registry, hd, mu, kernel, obj, num, old, left, panicked,
                 twice>>

CloseLinks(p) ==
  /\ Goto(p, "close_links", "clear_links")
  /\ CloseAll(hd[cur[p]].links)
  /\ UNCHANGED <<registry, hd, mu, made, locals, ops, panicked>>

ClearLinksSkipped(p) ==   \* mutant: h.Links is not set to nil
  /\ Goto(p, "clear_links", "close_closers")
  /\ UNCHANGED <<registry, hd, mu, kernel, locals, ops, panicked, twice>>
ClearLinks(p) ==
  /\ Goto(p, "clear_links", "close_closers")
  /\ hd' = [hd EXCEPT ![cur[p]].links = {}]
  /\ UNCHANGED <<registry, mu, kernel, locals, ops, panicked, twice>>

ClosersSkipped(p) ==   \* mutant: the closers are dropped, not closed
  /\ Goto(p, "close_closers", "clear_closers")
  /\ UNCHANGED <<registry, hd, mu, kernel, locals, ops, panicked, twice>>
CloseClosers(p) ==
  /\ Goto(p, "close_closers", "clear_closers")
  /\ CloseAll(hd[cur[p]].closers)
  /\ UNCHANGED <<registry, hd, mu, made, locals, ops, panicked>>

ClearClosers(p) ==
  /\ Goto(p, "clear_closers", "close_coll")
  /\ hd' = [hd EXCEPT ![cur[p]].closers = {}]
  /\ UNCHANGED <<registry, mu, kernel, locals, ops, panicked, twice>>

CloseCollDangling(p) ==   \* mutant: h.Collection is not set to nil
  /\ Goto(p, "close_coll", IF mu = p THEN "close_next" ELSE "idle")
  /\ live' = live \ {hd[cur[p]].coll} /\ leaked' = leaked
  /\ hd' = [hd EXCEPT ![cur[p]].status = "detached"]
  /\ handles' = IF mu = p THEN handles \ {cur[p]} ELSE handles
  /\ UNCHANGED <<may, nextID, mu, made, locals, ops, panicked, twice>>
CloseColl(p) ==
  /\ Goto(p, "close_coll", IF mu = p THEN "close_next" ELSE "idle")
  /\ live' = live \ {hd[cur[p]].coll} /\ leaked' = leaked
  /\ hd' = [hd EXCEPT ![cur[p]].coll = NoObject, ![cur[p]].status = "detached"]
  /\ handles' = IF mu = p THEN handles \ {cur[p]} ELSE handles
  /\ UNCHANGED <<may, nextID, mu, made, locals, ops, panicked, twice>>

(* Manager.Close, holding the mutex throughout: the IDs come in the random  *)
(* order of a map, and reversing that order leaves it random.               *)
Close(p) ==
  /\ Starts(p, "Close", "close_next")
  /\ Lock(p)
  /\ UNCHANGED <<registry, hd, kernel, locals, panicked, twice>>

CloseNext(p) ==
  /\ \E h \in handles :
       Goto(p, "close_next", "close_links") /\ cur' = [cur EXCEPT ![p] = h]
  /\ UNCHANGED <<registry, hd, mu, kernel, obj, num, old, left, ops, panicked,
                 twice>>

CloseDone(p) ==
  /\ handles = {}
  /\ Goto(p, "close_next", "idle")
  /\ Unlock(p)
  /\ UNCHANGED <<registry, hd, kernel, locals, ops, panicked, twice>>
-----------------------------------------------------------------------------
AllIdle == \A p \in Procs : pc[p] = "idle"

(* The program has made its calls, or has died. *)
Quiet == ((ops = MaxOps /\ AllIdle) \/ panicked) /\ UNCHANGED vars

Begin(p) ==
  \/ Load(p) \/ Close(p) \/ Returns(p)
  \/ \E h \in Returned : Attach(p, h) \/ Detach(p, h) \/ HelloClose(p, h)

Step(p) ==
  \/ LoadLock(p) \/ LoadRegister(p)
  \/ AttachLookup(p) \/ AttachLink(p) \/ AttachLinkFails(p)
  \/ PerfOpen(p) \/ PerfOpenFails(p) \/ AppendLock(p) \/ Append(p)
  \/ DetachCheck(p) \/ DetachLinks(p) \/ DetachClosers(p) \/ DetachClear(p)
  \/ CloseLinks(p) \/ ClearLinks(p) \/ CloseClosers(p) \/ ClearClosers(p)
  \/ CloseColl(p) \/ CloseNext(p) \/ CloseDone(p)

Next == (\E p \in Procs : Begin(p) \/ Step(p)) \/ Quiet

(* Goroutines that can run are scheduled, and sync.Mutex does not starve a  *)
(* waiter: strong fairness of a goroutine's steps.                          *)
Spec == Init /\ [][Next]_vars
FairSpec == Spec /\ \A p \in Procs : SF_vars(Step(p))
-----------------------------------------------------------------------------
TypeOK ==
  /\ may \in Programs
  /\ handles \subseteq HandleIDs /\ nextID \in 1..MaxHandles + 1
  /\ hd \in [HandleIDs -> [links : SUBSET Objects, closers : SUBSET Objects,
                           coll : Objects \cup {NoObject}, status : Statuses]]
  /\ mu \in Procs \cup {Nobody}
  /\ live \subseteq Objects /\ leaked \subseteq Objects /\ made \in Nat
  /\ cur \in [Procs -> HandleIDs \cup {0}]
  /\ obj \in [Procs -> SUBSET Objects] /\ old \in [Procs -> SUBSET Objects]
  /\ num \in [Procs -> Nat] /\ left \in [Procs -> 0..2]
  /\ ops \in 0..MaxOps /\ panicked \in BOOLEAN /\ twice \in BOOLEAN

(* A handle's fields are read without the mutex, so the loader keeps its    *)
(* promises only where one goroutine makes every call, or none detaches or  *)
(* closes.                                                                  *)
Alone == \E p \in Procs : \A q \in Procs \ {p} : may[q] = {}
Attachers ==
  \A p \in Procs : may[p] \cap {"Detach", "Close", "HelloClose"} = {}
Orderly == Alone \/ Attachers

(* manager.go: the Manager "tracks all loaded BPF programs".  Every object  *)
(* that the loader made in the kernel and did not try to close is reachable *)
(* from a registered handle, or in the hands of a call that has yet to hand *)
(* it over or to close it.                                                  *)
Owned(h) == hd[h].links \cup hd[h].closers \cup {hd[h].coll}
Tracked ==
  live \subseteq (UNION {Owned(h) : h \in handles})
                   \cup (UNION {obj[p] : p \in Procs})
NoOrphans == Orderly => Tracked

(* handle.go: attached "means at least one program is attached to a hook    *)
(* point", detached "means all programs have been detached".  Of a detached *)
(* handle no more is left than what refused to be closed.                   *)
HookedUp(h) == {o \in live \cup leaked : o.of = h}
StatusTruthful ==
  AllIdle /\ Orderly =>
    \A h \in HandleIDs :
      /\ hd[h].status = "attached" => HookedUp(h) \cap live # {}
      /\ hd[h].status = "detached" => HookedUp(h) \subseteq leaked

(* Between calls the registered handles are those that hold a collection,   *)
(* unless a probe closed its handle: HelloProbe.Close, which frees the      *)
(* resources "via the manager" by its comment, leaves the handle registered.*)
RegisteredOpen ==
  AllIdle /\ (\A p \in Procs : "HelloClose" \notin may[p]) =>
    \A h \in HandleIDs : h \in handles <=> hd[h].coll # NoObject

(* errors.go: ErrAlreadyDetached "is returned when detaching a handle that  *)
(* is already detached": no object is closed a second time, by when its     *)
(* number may be another's.                                                 *)
ClosedOnce == Orderly => ~twice

(* manager.go: the handle Load returned "can be used to attach programs".   *)
NoPanic == ~panicked

(* Every call returns, although each may wait for the mutex. *)
CallsReturn == \A p \in Procs : pc[p] # "idle" ~> pc[p] = "idle" \/ panicked
-----------------------------------------------------------------------------
(* What the comments promise, without regard to the order of calls or to    *)
(* errors; the code keeps none of these.                                    *)

(* handle.go: detached "means all programs have been detached", and error   *)
(* "means the handle encountered an error during attach/detach".            *)
DetachedMeansAll ==
  AllIdle => \A h \in HandleIDs : hd[h].status = "detached" => HookedUp(h) = {}

(* errors.go: ErrAlreadyDetached "is returned when detaching a handle that  *)
(* is already detached", so that a second Detach closes nothing.            *)
DetachedOnce == ~twice

(* manager.go: Close "releases all handles": no call leaves an object that  *)
(* no registered handle and no call holds.                                  *)
AllTracked == Tracked

(* hello.go: HelloProbe.Close "frees all BPF resources via the manager": a  *)
(* handle that is closed is not registered any more.                        *)
UnregisteredOnceClosed ==
  AllIdle => \A h \in handles : hd[h].coll # NoObject

(* perf_event.go: the program is attached "on every online CPU": whatever   *)
(* their numbers, those are the ones that are opened.                       *)
PerfOnOnlineCPUs ==
  \A p \in Procs : pc[p] = "perf_open" => num[p] \in Online
=============================================================================
