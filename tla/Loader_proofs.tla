---------------------------- MODULE Loader_proofs ----------------------------
(***************************************************************************)
(* Proofs about Loader.  Three invariants build on one another: types and  *)
(* the discipline of the mutex (Safe), which hold of every program; and,   *)
(* for programs that are Orderly, who owns each kernel object (Tidy).      *)
(***************************************************************************)
EXTENDS Loader, FiniteSetTheorems, TLAPS

Detaching == {"detach_check", "detach_links", "detach_closers", "detach_clear"}
Closing == {"close_links", "clear_links", "close_closers", "clear_closers",
            "close_coll"}
Attaching == {"lookup", "attach", "perf_lookup", "perf_open", "append",
              "appending"}
Locations == {"idle", "register", "registering", "close_next"}
               \cup Attaching \cup Detaching \cup Closing

Handles == [links : SUBSET Objects, closers : SUBSET Objects,
            coll : Objects \cup {NoObject}, status : Statuses]

Types ==
  /\ may \in [Procs -> SUBSET Operations]
  /\ handles \subseteq HandleIDs /\ nextID \in Nat /\ nextID >= 1
  /\ hd \in [HandleIDs -> Handles]
  /\ mu \in Procs \cup {Nobody}
  /\ live \subseteq Objects /\ made \in Nat
  /\ pc \in [Procs -> Locations]
  /\ cur \in [Procs -> HandleIDs \cup {0}]
  /\ obj \in [Procs -> SUBSET Objects]
  /\ old \in [Procs -> SUBSET Objects]
  /\ num \in [Procs -> Nat]
  /\ left \in [Procs -> 0..2]
  /\ ops \in 0..MaxOps

(* A goroutine works on a handle that was returned to it. *)
Working ==
  \A p \in Procs :
    /\ pc[p] \in Attaching \cup Detaching \cup Closing => cur[p] \in HandleIDs
    /\ pc[p] \in Attaching => left[p] \in 1..2

(* Who holds the mutex, and what it protects: the next number. *)
Locked ==
  \A p \in Procs :
    /\ pc[p] \in {"registering", "appending", "close_next"} => mu = p
    /\ pc[p] = "registering" => num[p] = nextID

(* There is a number for every load under way. *)
Room ==
  /\ IsFiniteSet(Loading)
  /\ nextID + Cardinality(Loading) <= MaxHandles + 1
  /\ \A h \in handles : h < nextID

(* A collection is that of a registered handle. *)
Registered ==
  /\ \A p \in Procs : pc[p] \in {"register", "registering"} => obj[p] # {}
  /\ \A h \in HandleIDs : hd[h].coll # NoObject => h \in handles

Safe == Types /\ panicked \in BOOLEAN /\ twice \in BOOLEAN
          /\ Working /\ Locked /\ Room /\ Registered

(* Where no probe closes its handle on its own, only Manager.Close closes. *)
NoProbe == \A p \in Procs : "HelloClose" \notin may[p]
ClosesLocked ==
  NoProbe =>
    /\ \A p \in Procs : pc[p] \in Closing => mu = p
    /\ \A h \in handles : hd[h].coll # NoObject
-----------------------------------------------------------------------------
Held(h) == hd[h].links \cup hd[h].closers
Of(S, kind, h) == \A o \in S : o.kind = kind /\ o.of = h

Ending == Detaching \cup Closing \cup {"close_next"}

(* Who detaches or closes does so alone. *)
Sole ==
  /\ \A p \in Procs : pc[p] # "idle" => may[p] # {}
  /\ Orderly => \A p \in Procs : pc[p] \in Ending =>
                  \A q \in Procs \ {p} : may[q] = {}

(* Every object has a number of its own. *)
Below ==
  /\ \A o \in live : o.n <= made
  /\ \A p \in Procs : \A o \in obj[p] : o.n <= made
  /\ \A h \in HandleIDs : \A o \in Held(h) : o.n <= made

(* What a goroutine has made and not handed over. *)
InHand ==
  \A p \in Procs :
    /\ pc[p] \in {"register", "registering"} =>
         \E o \in obj[p] : obj[p] = {o} /\ o.kind = "coll" /\ o.of = 0
    /\ pc[p] = "perf_open" => Of(obj[p], "fd", cur[p])
    /\ pc[p] \in {"append", "appending"} =>
         /\ obj[p] # {}
         /\ Of(obj[p], "fd", cur[p]) \/ Of(obj[p], "link", cur[p])
    /\ pc[p] \notin {"register", "registering", "perf_open", "append",
                     "appending"} => obj[p] = {}
    /\ obj[p] \subseteq live
    /\ \A q \in Procs \ {p} : obj[p] \cap obj[q] = {}
    /\ \A h \in HandleIDs : obj[p] \cap Held(h) = {}

(* What the handles hold. *)
OnHandle ==
  \A h \in HandleIDs :
    /\ Of(hd[h].links, "link", h) /\ Of(hd[h].closers, "fd", h)
    /\ hd[h].coll # NoObject => hd[h].coll.kind = "coll" /\ hd[h].coll.of = 0
    /\ Held(h) # {} => hd[h].coll # NoObject
    /\ hd[h].status = "detached" => Held(h) = {}
    /\ hd[h].status = "attached" =>
         \/ Held(h) # {}
         \/ \E p \in Procs : cur[p] = h /\ pc[p] \in {"close_closers",
                               "clear_closers", "close_coll"}

(* A handle that is attached to is loaded, and the slice read is current. *)
Current ==
  \A p \in Procs :
    /\ pc[p] \in {"append", "appending"} => hd[cur[p]].coll # NoObject
    /\ pc[p] = "appending" =>
         old[p] = IF IsFd(p) THEN hd[cur[p]].closers ELSE hd[cur[p]].links

LinksClosed   == {"detach_closers", "detach_clear", "clear_links"}
ClosersClosed == {"detach_clear", "clear_closers"}

(* What is held exists, except between the call that closes it and the one *)
(* that forgets it.                                                        *)
Existing ==
  /\ \A h \in HandleIDs :
       /\ \/ hd[h].links \subseteq live
          \/ \E p \in Procs : cur[p] = h /\ pc[p] \in LinksClosed
       /\ \/ hd[h].closers \subseteq live
          \/ \E p \in Procs : cur[p] = h /\ pc[p] \in ClosersClosed
  /\ \A p \in Procs :
       /\ pc[p] \in LinksClosed => hd[cur[p]].links \cap live = {}
       /\ pc[p] \in ClosersClosed => hd[cur[p]].closers \cap live = {}
       /\ pc[p] \in {"close_closers", "clear_closers", "close_coll"} =>
            hd[cur[p]].links = {}
       /\ pc[p] = "close_coll" => hd[cur[p]].closers = {}

Reachable ==
  \A o \in live :
    \/ \E h \in HandleIDs : o \in Held(h)
    \/ \E h \in HandleIDs : o = hd[h].coll
    \/ \E p \in Procs : o \in obj[p]

Tidy ==
  /\ Sole
  /\ Orderly => /\ Below /\ InHand /\ OnHandle /\ Current /\ Existing
                /\ Reachable /\ ~twice

(* Initially everything is typed and nothing is under way. *)
LEMMA InitSafe == Init => Safe
<1>. SUFFICES ASSUME Init PROVE Safe
  OBVIOUS
<1>1. Types
  BY ProgramsAssumption, LoaderBoundsAssumption
  DEF Init, Types, NoHandle, Handles, Statuses, Locations
<1>2. Loading = {}
  BY DEF Init, Loading
<1>3. Room
  BY <1>2, FS_EmptySet, LoaderBoundsAssumption DEF Init, Room
<1>. QED
  BY <1>1, <1>3 DEF Init, Safe, Working, Locked, Registered, NoHandle,
     Attaching, Detaching, Closing

(* The number a load is about to take is one that there is room for. *)
LEMMA RoomLeft ==
  ASSUME Types, Locked, Room, NEW p \in Procs, pc[p] = "registering"
  PROVE  num[p] = nextID /\ nextID \in HandleIDs
<1>1. p \in Loading
  BY DEF Loading
<1>2. Cardinality(Loading) \in Nat /\ Cardinality(Loading) # 0
  BY <1>1, FS_CardinalityType, FS_EmptySet DEF Room
<1>. QED
  BY <1>2, LoaderBoundsAssumption DEF Types, Locked, Room, HandleIDs

(* Every step preserves the types. *)
LEMMA NextTypes ==
  ASSUME Types, Working, Locked, Room, Registered, Next
  PROVE  Types'
<1>. USE DEF Types, Locations, Attaching, Detaching, Closing
<1>0. /\ HandleIDs \subseteq Nat /\ MaxOps \in Nat
      /\ NoHandle \in Handles
  BY LoaderBoundsAssumption DEF HandleIDs, NoHandle, Handles, Statuses
<1>1. ASSUME NEW p \in Procs, Begin(p) \/ Step(p) PROVE Types'
  <2>1. CASE Load(p)
    BY <1>0, <2>1 DEF Load, Starts, Make, registry, Goto, Objects, Kinds
  <2>2. CASE Close(p)
    BY <1>0, <2>2 DEF Close, Starts, Lock, registry, kernel, locals, Goto
  <2>3. CASE Returns(p)
    BY <1>0, <2>3 DEF Returns, Goto, registry, kernel, locals
  <2>4. ASSUME NEW h \in Returned, Attach(p, h) PROVE Types'
    BY <1>0, <2>4 DEF Returned, Attach, Starts, Attachments, registry, kernel,
       Goto
  <2>5. ASSUME NEW h \in Returned, Detach(p, h) PROVE Types'
    BY <1>0, <2>5 DEF Detach, Starts, registry, kernel, Goto
  <2>6. ASSUME NEW h \in Returned, HelloClose(p, h) PROVE Types'
    BY <1>0, <2>6 DEF Returned, HelloClose, Starts, registry, kernel, Goto
  <2>7. CASE LoadLock(p)
    BY <1>0, <2>7 DEF LoadLock, Goto, Lock, registry, kernel
  <2>8. CASE LoadRegister(p)
    <3>1. num[p] = nextID /\ nextID \in HandleIDs
      BY <2>8, RoomLeft DEF LoadRegister, Goto
    <3>2. PICK c \in obj[p] : hd' = [hd EXCEPT ![num[p]].coll = c]
      BY <2>8 DEF LoadRegister
    <3>3. hd' \in [HandleIDs -> Handles]
      BY <1>0, <3>1, <3>2 DEF Handles
    <3>. QED
      BY <1>0, <2>8, <3>1, <3>3 DEF LoadRegister, Goto, Unlock, kernel
  <2>9. CASE AttachLookup(p)
    BY <1>0, <2>9 DEF AttachLookup, Goto, Loaded, registry, kernel, locals
  <2>10. CASE AttachLink(p)
    BY <1>0, <2>10 DEF AttachLink, Goto, Make, Loaded, registry, Objects,
    Kinds
  <2>11. CASE AttachLinkFails(p)
    BY <1>0, <2>11 DEF AttachLinkFails, Goto, registry, kernel, locals,
    Working, Handles, Statuses
  <2>12. CASE PerfOpen(p)
    <3>1. pc' \in [Procs -> Locations]
      BY <2>12 DEF PerfOpen, Goto
    <3>2. num' \in [Procs -> Nat]
      BY <2>12 DEF PerfOpen
    <3>3. cur[p] \in HandleIDs
      BY <2>12 DEF PerfOpen, Goto, Working
    <3>4. live' \subseteq Objects /\ made' \in Nat /\ obj' \in [Procs -> SUBSET Objects]
      BY <2>12, <3>3 DEF PerfOpen, Make, Objects, Kinds
    <3>5. UNCHANGED <<may, handles, nextID, hd, mu, cur, old, left, ops>>
      BY <2>12 DEF PerfOpen, registry
    <3>. QED
      BY <3>1, <3>2, <3>4, <3>5
  <2>13. CASE PerfOpenFails(p)
    BY <1>0, <2>13 DEF PerfOpenFails, Goto, CloseAll, registry
  <2>14. CASE AppendLock(p)
    <3>1. cur[p] \in HandleIDs
      BY <2>14 DEF AppendLock, Goto, Working
    <3>2. hd[cur[p]].closers \in SUBSET Objects /\ hd[cur[p]].links \in SUBSET Objects
      BY <3>1 DEF Handles
    <3>. QED
      BY <2>14, <3>2 DEF AppendLock, Goto, Lock, registry, kernel
  <2>15. CASE Append(p)
    <3>1. pc[p] = "appending" /\ cur[p] \in HandleIDs /\ left[p] \in 1..2
      BY <2>15 DEF Append, Goto, Working
    <3>2. pc' \in [Procs -> Locations] /\ left' \in [Procs -> 0..2]
      BY <2>15, <3>1 DEF Append, Goto
    <3>3. hd' \in [HandleIDs -> Handles]
      <4>. DEFINE all == old[p] \cup obj[p]
                  h == hd[cur[p]]
                  r == IF IsFd(p)
                       THEN [h EXCEPT !.closers = all, !.status = "attached"]
                       ELSE [h EXCEPT !.links = all, !.status = "attached"]
      <4>1. all \in SUBSET Objects /\ h \in Handles
        BY <3>1
      <4>2. hd' = [hd EXCEPT ![cur[p]] = r]
        BY <2>15 DEF Append
      <4>. HIDE DEF all, h
      <4>3. r \in Handles
        BY <4>1 DEF Handles, Statuses
      <4>. HIDE DEF r
      <4>. QED
        BY <4>2, <4>3
    <3>4. obj' \in [Procs -> SUBSET Objects]
      BY <2>15 DEF Append
    <3>. QED
      BY <2>15, <3>2, <3>3, <3>4
      DEF Append, AppendUnlock, Unlock, registry, kernel
  <2>16. CASE DetachCheck(p)
    BY <1>0, <2>16 DEF DetachCheck, Goto, registry, kernel, locals
  <2>17. CASE DetachLinks(p)
    BY <1>0, <2>17 DEF DetachLinks, Goto, CloseAll, registry, locals
  <2>18. CASE DetachClosers(p)
    BY <1>0, <2>18 DEF DetachClosers, Goto, CloseAll, registry, locals
  <2>19. CASE DetachClear(p)
    <3>1. /\ cur[p] \in HandleIDs /\ hd \in [HandleIDs -> Handles]
          /\ hd' = [hd EXCEPT ![cur[p]].links = {}, ![cur[p]].closers = {},
                              ![cur[p]].status = "detached"]
      BY <2>19 DEF DetachClear, Goto, Working, Types, Detaching
    <3>. DEFINE cleared == [hd[cur[p]] EXCEPT !.links = {}, !.closers = {},
                                              !.status = "detached"]
    <3>2. hd' = [hd EXCEPT ![cur[p]] = cleared]
      BY <3>1
    <3>3. cleared \in Handles
      <4>1. hd[cur[p]] \in Handles
        BY <3>1
      <4>. QED
        BY <4>1 DEF Handles, Statuses
    <3>4. hd' \in [HandleIDs -> Handles]
      <4>. HIDE DEF cleared
      <4>. QED
        BY <3>1, <3>2, <3>3
    <3>. QED
      BY <1>0, <2>19, <3>4 DEF DetachClear, Goto, registry, kernel, locals
  <2>20. CASE CloseLinks(p)
    BY <1>0, <2>20 DEF CloseLinks, Goto, CloseAll, registry, locals
  <2>21. CASE ClearLinks(p)
    BY <1>0, <2>21 DEF ClearLinks, Goto, registry, kernel, locals, Working,
    Handles, Statuses
  <2>22. CASE CloseClosers(p)
    BY <1>0, <2>22 DEF CloseClosers, Goto, CloseAll, registry, locals
  <2>23. CASE ClearClosers(p)
    BY <1>0, <2>23 DEF ClearClosers, Goto, registry, kernel, locals, Working,
    Handles, Statuses
  <2>24. CASE CloseColl(p)
    BY <1>0, <2>24 DEF CloseColl, Goto, locals, Working, Handles, Statuses
  <2>25. CASE CloseNext(p)
    BY <1>0, <2>25 DEF CloseNext, Goto, registry, kernel
  <2>26. CASE CloseDone(p)
    BY <1>0, <2>26 DEF CloseDone, Goto, Unlock, registry, kernel, locals
  <2>. QED
    BY <1>1, <2>1, <2>2, <2>3, <2>4, <2>5, <2>6, <2>7, <2>8, <2>9, <2>10,
       <2>11, <2>12, <2>13, <2>14, <2>15, <2>16, <2>17, <2>18, <2>19, <2>20,
       <2>21, <2>22, <2>23, <2>24, <2>25, <2>26
    DEF Begin, Step
<1>. QED
  BY <1>1 DEF Next, Quiet, vars

(* A step of p is p's: what the other goroutines do and hold stays.        *)
LEMMA Frame ==
  ASSUME Types, NEW p \in Procs, Begin(p) \/ Step(p)
  PROVE  /\ ~panicked /\ may' = may
         /\ \A q \in Procs \ {p} :
              /\ pc'[q] = pc[q] /\ cur'[q] = cur[q] /\ obj'[q] = obj[q]
              /\ num'[q] = num[q] /\ old'[q] = old[q] /\ left'[q] = left[q]
<1>. USE DEF Types, registry, locals, kernel, Goto, Starts
<1>1. ~panicked
  BY DEF Begin, Step, Load, Close, Returns, Attach, Detach, HelloClose,
         LoadLock, LoadRegister, AttachLookup, AttachLink, AttachLinkFails,
         PerfOpen, PerfOpenFails, AppendLock, Append, DetachCheck, DetachLinks,
         DetachClosers, DetachClear, CloseLinks, ClearLinks, CloseClosers,
         ClearClosers, CloseColl, CloseNext, CloseDone
<1>2. may' = may
  BY DEF Begin, Step, Load, Close, Returns, Attach, Detach, HelloClose,
         LoadLock, LoadRegister, AttachLookup, AttachLink, AttachLinkFails,
         PerfOpen, PerfOpenFails, AppendLock, Append, DetachCheck, DetachLinks,
         DetachClosers, DetachClear, CloseLinks, ClearLinks, CloseClosers,
         ClearClosers, CloseColl, CloseNext, CloseDone
<1>3. ASSUME NEW q \in Procs \ {p}
      PROVE  /\ pc'[q] = pc[q] /\ cur'[q] = cur[q] /\ obj'[q] = obj[q]
             /\ num'[q] = num[q] /\ old'[q] = old[q] /\ left'[q] = left[q]
  <2>1. ASSUME Begin(p)
        PROVE  /\ pc'[q] = pc[q] /\ cur'[q] = cur[q] /\ obj'[q] = obj[q]
               /\ num'[q] = num[q] /\ old'[q] = old[q] /\ left'[q] = left[q]
    BY <2>1 DEF Begin, Load, Close, Returns, Attach, Detach, HelloClose, Make
  <2>2. ASSUME Step(p)
        PROVE  pc'[q] = pc[q] /\ cur'[q] = cur[q] /\ obj'[q] = obj[q]
    BY <2>2 DEF Step, Make,
         LoadLock, LoadRegister, AttachLookup, AttachLink, AttachLinkFails,
         PerfOpen, PerfOpenFails, AppendLock, Append, DetachCheck, DetachLinks,
         DetachClosers, DetachClear, CloseLinks, ClearLinks, CloseClosers,
         ClearClosers, CloseColl, CloseNext, CloseDone
  <2>3. ASSUME Step(p)
        PROVE  num'[q] = num[q] /\ old'[q] = old[q] /\ left'[q] = left[q]
    BY <2>3 DEF Step,
         LoadLock, LoadRegister, AttachLookup, AttachLink, AttachLinkFails,
         PerfOpen, PerfOpenFails, AppendLock, Append, DetachCheck, DetachLinks,
         DetachClosers, DetachClear, CloseLinks, ClearLinks, CloseClosers,
         ClearClosers, CloseColl, CloseNext, CloseDone
  <2>. QED
    BY <2>1, <2>2, <2>3
<1>. QED
  BY <1>1, <1>2, <1>3

(* The mutex has one holder, and a handle worked on was returned.          *)
LEMMA NextGuarded ==
  ASSUME Safe, NEW p \in Procs, Begin(p) \/ Step(p)
  PROVE  Working' /\ Locked'
<1>. USE DEF Safe
<1>1. Working'
  <2>1. ASSUME NEW q \in Procs \ {p}
        PROVE  /\ pc'[q] \in Attaching \cup Detaching \cup Closing => cur'[q] \in HandleIDs
               /\ pc'[q] \in Attaching => left'[q] \in 1..2
    BY Frame DEF Working
  <2>2. /\ pc'[p] \in Attaching \cup Detaching \cup Closing => cur'[p] \in HandleIDs
        /\ pc'[p] \in Attaching => left'[p] \in 1..2
    <3>1. CASE Begin(p)
      BY <3>1 DEF Begin, Load, Close, Returns, Attach, Detach, HelloClose,
         Starts, Goto, Attachments, Returned, Types, Attaching, Detaching,
         Closing, registry, kernel, locals
    <3>2. CASE \/ LoadLock(p) \/ LoadRegister(p) \/ CloseNext(p)
               \/ CloseDone(p)
      BY <3>2 DEF LoadLock, LoadRegister, CloseNext, CloseDone, Goto, Types,
         Attaching, Detaching, Closing, locals
    <3>3. CASE \/ AttachLookup(p) \/ AttachLink(p) \/ AttachLinkFails(p)
               \/ PerfOpen(p) \/ PerfOpenFails(p) \/ AppendLock(p)
      BY <3>3 DEF AttachLookup, AttachLink, AttachLinkFails, PerfOpen,
         PerfOpenFails, AppendLock, Goto, Working, Types, Attaching, Detaching,
         Closing, locals
    <3>4. CASE Append(p)
      BY <3>4 DEF Append, Goto, Working, Types, Attaching, Detaching, Closing
    <3>5. CASE \/ DetachCheck(p) \/ DetachLinks(p) \/ DetachClosers(p)
               \/ DetachClear(p)
      BY <3>5 DEF DetachCheck, DetachLinks, DetachClosers, DetachClear, Goto,
         Working, Types, Attaching, Detaching, Closing, locals
    <3>6. CASE \/ CloseLinks(p) \/ ClearLinks(p) \/ CloseClosers(p)
               \/ ClearClosers(p) \/ CloseColl(p)
      BY <3>6 DEF CloseLinks, ClearLinks, CloseClosers, ClearClosers,
         CloseColl, Goto, Working, Types, Attaching, Detaching, Closing, locals
    <3>. QED
      BY <3>1, <3>2, <3>3, <3>4, <3>5, <3>6 DEF Step
  <2>. QED
    BY <2>1, <2>2 DEF Working
<1>2. Locked'
  <2>. DEFINE Holds == {"registering", "appending", "close_next"}
  <2>1. mu \notin {Nobody, p} => mu' = mu /\ nextID' = nextID
    <3>1. CASE Begin(p)
      BY <3>1 DEF Begin, Load, Close, Returns, Attach, Detach, HelloClose,
         Starts, Goto, Lock, registry
    <3>2. CASE Step(p)
      BY <3>2 DEF Locked, Step, LoadLock, LoadRegister, AttachLookup,
         AttachLink, AttachLinkFails, PerfOpen, PerfOpenFails, AppendLock,
         Append, DetachCheck, DetachLinks, DetachClosers, DetachClear,
         CloseLinks, ClearLinks, CloseClosers, ClearClosers, CloseColl,
         CloseNext, CloseDone, Goto, Lock, Unlock, AppendUnlock, registry
    <3>. QED
      BY <3>1, <3>2
  <2>2. /\ pc'[p] \in {"registering", "appending", "close_next"} => mu' = p
        /\ pc'[p] = "registering" => num'[p] = nextID'
    <3>1. CASE Begin(p)
      BY <3>1 DEF Begin, Load, Close, Returns, Attach, Detach, HelloClose,
         Starts, Goto, Types, Lock, registry
    <3>2. CASE Step(p)
      BY <3>2 DEF Types, Locked, Step, LoadLock, LoadRegister, AttachLookup,
         AttachLink, AttachLinkFails, PerfOpen, PerfOpenFails, AppendLock,
         Append, DetachCheck, DetachLinks, DetachClosers, DetachClear,
         CloseLinks, ClearLinks, CloseClosers, ClearClosers, CloseColl,
         CloseNext, CloseDone, Goto, Lock, Unlock, AppendUnlock, registry
    <3>. QED
      BY <3>1, <3>2
  <2>3. ASSUME NEW q \in Procs \ {p}
        PROVE  /\ pc'[q] \in {"registering", "appending", "close_next"} => mu' = q
               /\ pc'[q] = "registering" => num'[q] = nextID'
    BY <2>1, Frame, NobodyAssumption DEF Locked
  <2>. QED
    BY <2>2, <2>3 DEF Locked
<1>. QED
  BY <1>1, <1>2

(* A load that starts leaves room for those under way, and one that ends   *)
(* makes it.                                                               *)
LEMMA NextRoom ==
  ASSUME Safe, NEW p \in Procs, Begin(p) \/ Step(p)
  PROVE  Room'
<1>. USE DEF Safe
<1>0. /\ IsFiniteSet(Loading) /\ Cardinality(Loading) \in Nat
      /\ nextID \in Nat /\ MaxHandles \in Nat /\ HandleIDs \subseteq Nat
  BY FS_CardinalityType, LoaderBoundsAssumption DEF Room, Types, HandleIDs
<1>1. CASE Load(p)
  <2>1. Loading' = Loading \cup {p} /\ p \notin Loading
    BY <1>1, Frame DEF Begin, Load, Starts, Goto, Loading, Types
  <2>2. IsFiniteSet(Loading') /\ Cardinality(Loading') = Cardinality(Loading) + 1
    BY <1>0, <2>1, FS_AddElement
  <2>3. nextID + Cardinality(Loading) <= MaxHandles /\ nextID' = nextID /\ handles' = handles
    BY <1>1 DEF Load, registry
  <2>. HIDE DEF Safe
  <2>. QED
    BY <1>0, <2>2, <2>3 DEF Safe, Room
<1>2. CASE LoadRegister(p)
  <2>1. Loading' = Loading \ {p} /\ p \in Loading
    BY <1>2, Frame DEF Step, LoadRegister, Goto, Loading, Types
  <2>2. IsFiniteSet(Loading') /\ Cardinality(Loading') = Cardinality(Loading) - 1
    BY <1>0, <2>1, FS_RemoveElement
  <2>3. nextID' = nextID + 1 /\ handles' = handles \cup {nextID}
    BY <1>2 DEF Locked, LoadRegister, Goto
  <2>4. \A h \in handles : h \in Nat /\ h < nextID
    BY <1>0 DEF Room, Types
  <2>5. nextID' + Cardinality(Loading') <= MaxHandles + 1
    BY <1>0, <2>2, <2>3 DEF Room
  <2>. QED
    BY <1>0, <2>2, <2>3, <2>4, <2>5 DEF Room
<1>3. CASE ~Load(p) /\ ~LoadRegister(p)
  <2>1. handles' \subseteq handles /\ nextID' = nextID
    BY <1>3 DEF Begin, Step, Close, Returns, Attach, Detach, HelloClose,
         LoadLock, AttachLookup, AttachLink, AttachLinkFails,
         PerfOpen, PerfOpenFails, AppendLock, Append, DetachCheck, DetachLinks,
         DetachClosers, DetachClear, CloseLinks, ClearLinks, CloseClosers,
         ClearClosers, CloseColl, CloseNext, CloseDone, registry
  <2>2. pc'[p] \in {"register", "registering"} <=> pc[p] \in {"register", "registering"}
    BY <1>3 DEF Begin, Step, Close, Returns, Attach, Detach, HelloClose,
       Starts, Goto, Types, LoadLock, AttachLookup, AttachLink,
       AttachLinkFails, PerfOpen, PerfOpenFails, AppendLock, Append,
       DetachCheck, DetachLinks, DetachClosers, DetachClear, CloseLinks,
       ClearLinks, CloseClosers, ClearClosers, CloseColl, CloseNext, CloseDone
  <2>3. Loading' = Loading
    BY <2>2, Frame DEF Loading
  <2>. QED
    BY <2>1, <2>3 DEF Room
<1>. QED
  BY <1>1, <1>2, <1>3

(* Only LoadRegister and CloseColl change the map or a collection.         *)
LEMMA CollStays ==
  ASSUME Safe, NEW p \in Procs, Step(p) /\ ~LoadRegister(p) /\ ~CloseColl(p)
  PROVE  /\ handles' = handles
         /\ \A h \in HandleIDs : hd'[h].coll = hd[h].coll
<1>. USE DEF Safe
<1>1. handles' = handles
  BY DEF Step, LoadLock, AttachLookup, AttachLink, AttachLinkFails, PerfOpen,
     PerfOpenFails, AppendLock, Append, DetachCheck, DetachLinks,
     DetachClosers, DetachClear, CloseLinks, ClearLinks, CloseClosers,
     ClearClosers, CloseNext, CloseDone, registry
<1>2. ASSUME NEW h \in HandleIDs PROVE hd'[h].coll = hd[h].coll
  <2>1. CASE Append(p)
    BY <2>1 DEF Append, Types, Handles
  <2>2. CASE AttachLinkFails(p)
    BY <2>2 DEF AttachLinkFails, Types, Handles
  <2>. QED
    BY <2>1, <2>2 DEF Step, Types, Handles, LoadLock, AttachLookup,
       AttachLink, PerfOpen, PerfOpenFails, AppendLock, DetachCheck,
       DetachLinks, DetachClosers, DetachClear, CloseLinks, ClearLinks,
       CloseClosers, ClearClosers, CloseNext, CloseDone
<1>. QED
  BY <1>1, <1>2

(* A handle is in the map before it has a collection, and Manager.Close    *)
(* takes both away at once.                                                *)
LEMMA NextRegistered ==
  ASSUME Safe, NEW p \in Procs, Begin(p) \/ Step(p)
  PROVE  Registered'
<1>. USE DEF Safe
<1>1. \A q \in Procs : pc'[q] \in {"register", "registering"} => obj'[q] # {}
  <2>1. pc'[p] \in {"register", "registering"} => obj'[p] # {}
    <3>. USE DEF Goto, Starts
    <3>0. pc \in [Procs -> Locations] /\ obj \in [Procs -> SUBSET Objects]
      BY DEF Types
    <3>1. CASE Load(p) \/ LoadLock(p)
      <4>1. CASE Load(p)
        BY <3>0, <4>1 DEF Load, Make
      <4>2. CASE LoadLock(p)
        BY <3>0, <4>2 DEF LoadLock, Registered
      <4>. QED
        BY <3>1, <4>1, <4>2
    <3>2. CASE Begin(p) /\ ~Load(p)
      <4>1. pc'[p] \notin {"register", "registering"}
        <5>1. CASE Close(p) \/ Returns(p)
          BY <3>0, <5>1 DEF Close, Returns
        <5>2. ASSUME NEW h \in HandleIDs, Attach(p, h)
             PROVE  pc'[p] \notin {"register", "registering"}
          BY <3>0, <5>2 DEF Attach
        <5>3. ASSUME NEW h \in HandleIDs, Detach(p, h) \/ HelloClose(p, h)
             PROVE  pc'[p] \notin {"register", "registering"}
          BY <3>0, <5>3 DEF Detach, HelloClose
        <5>. QED
          BY <3>2, <5>1, <5>2, <5>3 DEF Begin, Returned
      <4>. QED
        BY <4>1
    <3>3. CASE LoadRegister(p) \/ AttachLookup(p) \/ AttachLink(p)
               \/ AttachLinkFails(p) \/ PerfOpen(p) \/ PerfOpenFails(p)
               \/ AppendLock(p) \/ Append(p)
      BY <3>0, <3>3 DEF LoadRegister, AttachLookup, AttachLink, AttachLinkFails,
         PerfOpen, PerfOpenFails, AppendLock, Append
    <3>4. CASE DetachCheck(p) \/ DetachLinks(p) \/ DetachClosers(p)
               \/ DetachClear(p) \/ CloseLinks(p) \/ ClearLinks(p)
               \/ CloseClosers(p) \/ ClearClosers(p) \/ CloseColl(p)
               \/ CloseNext(p) \/ CloseDone(p)
      BY <3>0, <3>4 DEF DetachCheck, DetachLinks, DetachClosers, DetachClear,
         CloseLinks, ClearLinks, CloseClosers, ClearClosers, CloseColl,
         CloseNext, CloseDone
    <3>. QED
      BY <3>1, <3>2, <3>3, <3>4 DEF Step
  <2>. QED
    BY <2>1, Frame DEF Registered
<1>2. ASSUME NEW h \in HandleIDs, hd'[h].coll # NoObject
      PROVE  h \in handles'
  <2>1. CASE Begin(p)
    BY <1>2, <2>1 DEF Registered, Begin, Load, Close, Returns, Attach, Detach,
       HelloClose, registry
  <2>2. CASE LoadRegister(p)
    BY <1>2, <2>2 DEF LoadRegister, Goto, Registered, Types
  <2>3. CASE CloseColl(p)
    BY <1>2, <2>3 DEF CloseColl, Goto, Registered, Types, Handles
  <2>4. CASE Step(p) /\ ~LoadRegister(p) /\ ~CloseColl(p)
    BY <1>2, <2>4, CollStays DEF Registered
  <2>. QED
    BY <2>1, <2>2, <2>3, <2>4
<1>. QED
  BY <1>1, <1>2 DEF Registered

(* Every step preserves the types and the discipline of the mutex. *)
LEMMA NextSafe == Safe /\ [Next]_vars => Safe'
<1>1. ASSUME Safe, Next PROVE Safe'
  <2>1. Types'
    BY <1>1, NextTypes DEF Safe
  <2>2. ASSUME NEW p \in Procs, Begin(p) \/ Step(p)
        PROVE  panicked' \in BOOLEAN /\ twice' \in BOOLEAN
    <3>1. CASE Begin(p)
      BY <1>1, <3>1 DEF Safe, Begin, Load, Close, Returns, Attach, Detach,
         HelloClose
    <3>2. CASE Step(p)
      BY <1>1, <3>2 DEF Safe, Step, CloseAll, LoadLock, LoadRegister,
         AttachLookup, AttachLink, AttachLinkFails, PerfOpen, PerfOpenFails,
         AppendLock, Append, DetachCheck, DetachLinks, DetachClosers,
         DetachClear, CloseLinks, ClearLinks, CloseClosers, ClearClosers,
         CloseColl, CloseNext, CloseDone
    <3>. QED
      BY <2>2, <3>1, <3>2
  <2>3. ASSUME NEW p \in Procs, Begin(p) \/ Step(p)
        PROVE  Working' /\ Locked' /\ Room' /\ Registered'
    BY <1>1, <2>3, NextGuarded, NextRoom, NextRegistered
  <2>4. CASE \E p \in Procs : Begin(p) \/ Step(p)
    BY <2>1, <2>2, <2>3, <2>4 DEF Safe
  <2>5. CASE Quiet
    BY <1>1, <2>1, <2>5 DEF Quiet, Safe, vars, Working, Locked, Room,
       Registered, Loading
  <2>. QED
    BY <1>1, <2>4, <2>5 DEF Next
<1>2. ASSUME Safe, UNCHANGED vars PROVE Safe'
  BY <1>2 DEF Safe, Types, vars, Working, Locked, Room, Registered, Loading
<1>. QED
  BY <1>1, <1>2

(* Types and the discipline of the mutex, for every program: whoever        *)
(* registers, appends or closes the next handle holds the mutex, and loads  *)
(* under way have numbers left.                                             *)
THEOREM HoldsSafe == Spec => []Safe
  BY InitSafe, NextSafe, PTL DEF Spec
-----------------------------------------------------------------------------
(* Manager.Close holds the mutex while it closes a handle, and takes the   *)
(* handle out of the map with its collection.                              *)
LEMMA NextClosesLocked ==
  ASSUME Safe, ClosesLocked, [Next]_vars
  PROVE  ClosesLocked'
<1>. USE DEF Safe
<1>1. ASSUME NEW p \in Procs, Begin(p) \/ Step(p), NoProbe
      PROVE  /\ \A q \in Procs : pc'[q] \in Closing => mu' = q
             /\ \A h \in handles' : hd'[h].coll # NoObject
  <2>1. \A q \in Procs : pc[q] \in Closing => mu = q
    BY <1>1 DEF ClosesLocked
  <2>2. mu \notin {Nobody, p} => mu' = mu
    <3>1. CASE Begin(p)
      BY <3>1 DEF Begin, Load, Close, Returns, Attach, Detach, HelloClose, Lock
    <3>2. CASE Step(p)
      BY <3>2 DEF Locked, Step, LoadLock, LoadRegister, AttachLookup,
         AttachLink, AttachLinkFails, PerfOpen, PerfOpenFails, AppendLock,
         Append, DetachCheck, DetachLinks, DetachClosers, DetachClear,
         CloseLinks, ClearLinks, CloseClosers, ClearClosers, CloseColl,
         CloseNext, CloseDone, Goto, Lock, Unlock, AppendUnlock
    <3>. QED
      BY <1>1, <3>1, <3>2
  <2>3. pc'[p] \in Closing => mu' = p
    <3>1. CASE Begin(p)
      BY <1>1, <3>1 DEF NoProbe, Closing, Types, Begin, Load, Close, Returns,
         Attach, Detach, HelloClose, Starts, Goto
    <3>2. CASE Step(p)
      BY <2>1, <3>2 DEF Closing, Types, Locked, Step, LoadLock, LoadRegister,
         AttachLookup, AttachLink, AttachLinkFails, PerfOpen, PerfOpenFails,
         AppendLock, Append, DetachCheck, DetachLinks, DetachClosers,
         DetachClear, CloseLinks, ClearLinks, CloseClosers, ClearClosers,
         CloseColl, CloseNext, CloseDone, Goto
    <3>. QED
      BY <1>1, <3>1, <3>2
  <2>4. ASSUME NEW q \in Procs \ {p} PROVE pc'[q] \in Closing => mu' = q
    BY <1>1, <2>1, <2>2, Frame, NobodyAssumption
  <2>5. ASSUME NEW h \in handles' PROVE hd'[h].coll # NoObject
    <3>. h \in HandleIDs
      BY <1>1, NextTypes DEF Next, Types
    <3>1. CASE Begin(p)
      BY <1>1, <3>1 DEF ClosesLocked, Begin, Load, Close, Returns, Attach,
         Detach, HelloClose, registry
    <3>2. CASE LoadRegister(p)
      <4>1. PICK c \in obj[p] : hd' = [hd EXCEPT ![num[p]].coll = c]
        BY <3>2 DEF LoadRegister
      <4>2. c # NoObject
        BY NoObjectAssumption DEF Types
      <4>. QED
        BY <1>1, <3>2, <4>1, <4>2 DEF LoadRegister, ClosesLocked, Types,
           Handles
    <3>3. CASE CloseColl(p)
      BY <1>1, <2>1, <3>3 DEF CloseColl, Goto, Closing, ClosesLocked, Types,
         Handles
    <3>4. CASE Step(p) /\ ~LoadRegister(p) /\ ~CloseColl(p)
      BY <1>1, <3>4, CollStays DEF ClosesLocked
    <3>. QED
      BY <1>1, <3>1, <3>2, <3>3, <3>4
  <2>. QED
    BY <2>3, <2>4, <2>5
<1>2. CASE Next
  BY <1>1, <1>2, Frame DEF Next, Quiet, vars, ClosesLocked, NoProbe
<1>3. CASE UNCHANGED vars
  BY <1>3 DEF vars, ClosesLocked, NoProbe
<1>. QED
  BY <1>2, <1>3

(* RegisteredOpen: between calls, and where no probe closes its handle on  *)
(* its own, the Manager's map holds exactly the handles with a collection, *)
(* however loads, attachments, detachments and closes interleave.          *)
THEOREM RegisteredAreOpen == Spec => []RegisteredOpen
<1>1. Init => ClosesLocked
  BY DEF Init, ClosesLocked, Closing
<1>2. Safe /\ ClosesLocked /\ [Next]_vars => ClosesLocked'
  BY NextClosesLocked
<1>3. Safe /\ ClosesLocked => RegisteredOpen
  BY DEF Safe, Registered, ClosesLocked, NoProbe, RegisteredOpen, Types
<1>. QED
  BY <1>1, <1>2, <1>3, HoldsSafe, PTL DEF Spec
-----------------------------------------------------------------------------
(* Who detaches or closes does so alone: there is one goroutine that calls *)
(* anything, or none detaches or closes.                                   *)
LEMMA NextSole ==
  ASSUME Safe, Sole, NEW p \in Procs, Begin(p) \/ Step(p)
  PROVE  Sole' /\ may[p] # {} /\ (Orderly' <=> Orderly)
<1>. USE DEF Safe
<1>0. /\ Orderly' <=> Orderly
      /\ may' = may
  BY Frame DEF Orderly, Alone, Attachers
<1>1. may[p] # {}
  <2>1. CASE Begin(p)
    BY <2>1 DEF Begin, Load, Close, Returns, Attach, Detach, HelloClose,
       Starts, Goto
  <2>2. CASE Step(p)
    BY <2>2 DEF Sole, Step, LoadLock, LoadRegister, AttachLookup,
       AttachLink, AttachLinkFails, PerfOpen, PerfOpenFails, AppendLock,
       Append, DetachCheck, DetachLinks, DetachClosers, DetachClear,
       CloseLinks, ClearLinks, CloseClosers, ClearClosers, CloseColl,
       CloseNext, CloseDone, Goto
  <2>. QED
    BY <2>1, <2>2
<1>2. ASSUME NEW q \in Procs, pc'[q] # "idle" PROVE may'[q] # {}
  BY <1>0, <1>1, <1>2, Frame DEF Sole
<1>3. ASSUME Orderly, NEW q \in Procs, pc'[q] \in Ending
      PROVE  \A r \in Procs \ {q} : may'[r] = {}
  <2>1. CASE q # p
    BY <1>0, <1>3, <2>1, Frame DEF Sole
  <2>2. CASE q = p /\ pc[p] \in Ending
    BY <1>0, <1>3, <2>2 DEF Sole
  <2>3. CASE q = p /\ pc[p] \notin Ending
    <3>1. may[p] \cap {"Detach", "Close", "HelloClose"} # {}
      <4>1. CASE Begin(p)
        BY <1>3, <2>3, <4>1 DEF Ending, Detaching, Closing, Types, Begin,
           Load, Close, Returns, Attach, Detach, HelloClose, Starts, Goto
      <4>2. CASE Step(p)
        <5>1. pc'[p] \in Ending /\ pc[p] \notin Ending
          BY <1>3, <2>3
        <5>2. ~ (\/ DetachCheck(p) \/ DetachLinks(p) \/ DetachClosers(p)
                 \/ DetachClear(p) \/ CloseLinks(p) \/ ClearLinks(p)
                 \/ CloseClosers(p) \/ ClearClosers(p) \/ CloseColl(p)
                 \/ CloseNext(p) \/ CloseDone(p))
          BY <5>1 DEF Ending, Detaching, Closing, DetachCheck, DetachLinks,
             DetachClosers, DetachClear, CloseLinks, ClearLinks, CloseClosers,
             ClearClosers, CloseColl, CloseNext, CloseDone, Goto
        <5>3. ~ (\/ LoadLock(p) \/ LoadRegister(p) \/ AttachLookup(p)
                 \/ AttachLink(p) \/ AttachLinkFails(p) \/ PerfOpen(p)
                 \/ PerfOpenFails(p) \/ AppendLock(p) \/ Append(p))
          BY <5>1 DEF Ending, Detaching, Closing, Types, LoadLock,
             LoadRegister, AttachLookup, AttachLink, AttachLinkFails, PerfOpen,
             PerfOpenFails, AppendLock, Append, Goto
        <5>. QED
          BY <4>2, <5>2, <5>3 DEF Step
      <4>. QED
        BY <4>1, <4>2
    <3>2. Alone
      BY <1>3, <3>1 DEF Orderly, Attachers
    <3>. QED
      BY <1>0, <1>1, <2>3, <3>2 DEF Alone
  <2>. QED
    BY <2>1, <2>2, <2>3
<1>. QED
  BY <1>0, <1>1, <1>2, <1>3 DEF Sole

(* While p takes a step no other goroutine detaches or closes, and while p *)
(* does, none is inside a call.                                            *)
LEMMA Undisturbed ==
  ASSUME Safe, Sole, Orderly, NEW p \in Procs, Begin(p) \/ Step(p)
  PROVE  \A q \in Procs \ {p} : /\ pc[q] \notin Ending
                                /\ pc[p] \in Ending => pc[q] = "idle"
  BY NextSole DEF Sole

Orders == Below /\ InHand /\ OnHandle /\ Current /\ Existing /\ Reachable
            /\ ~twice

(* Steps that neither make nor close nor hand over anything.               *)
Moves(p) ==
  \/ Returns(p) \/ LoadLock(p) \/ AttachLookup(p) \/ AppendLock(p)
  \/ DetachCheck(p) \/ Close(p) \/ CloseNext(p) \/ CloseDone(p)
  \/ \E h \in Returned : Attach(p, h) \/ Detach(p, h) \/ HelloClose(p, h)

(* They preserve who owns what. *)
LEMMA MovesOrders ==
  ASSUME Safe, Sole, Orderly, Orders, NEW p \in Procs, Moves(p)
  PROVE  Orders'
<1>. USE DEF Safe, Orders
<1>1. /\ UNCHANGED <<hd, obj, live, made, twice>>
      /\ pc[p] \in {"idle", "register", "lookup", "perf_lookup", "append",
                    "detach_check", "close_next"}
      /\ pc'[p] \in {"idle", "registering", "attach", "perf_open",
                     "appending", "detach_links", "close_next",
                     "close_links", "lookup", "perf_lookup", "detach_check"}
  BY DEF Moves, Returns, LoadLock, AttachLookup, AppendLock, DetachCheck,
         Close, CloseNext, CloseDone, Attach, Detach, HelloClose, Starts, Goto,
         Types, kernel, locals
<1>2. \A q \in Procs \ {p} : pc[q] \notin Ending
  BY Undisturbed DEF Begin, Step, Moves
<1>3. \A q \in Procs \ {p} : /\ pc'[q] = pc[q] /\ cur'[q] = cur[q]
                             /\ old'[q] = old[q]
  BY Frame DEF Begin, Step, Moves
<1>4. Below' /\ Reachable'
  BY <1>1 DEF Below, Reachable, Held
<1>5. InHand'
  <2>1. /\ pc'[p] = "registering" => pc[p] = "register"
        /\ pc'[p] = "appending" => pc[p] = "append" /\ cur'[p] = cur[p]
        /\ pc'[p] # "register" /\ pc'[p] # "append"
        /\ pc[p] = "register" => pc'[p] = "registering"
        /\ pc[p] = "append" => pc'[p] = "appending"
    BY DEF Moves, Returns, LoadLock, AttachLookup, AppendLock, DetachCheck,
         Close, CloseNext, CloseDone, Attach, Detach, HelloClose, Starts, Goto,
         Types, kernel, locals
  <2>. QED
    BY <1>1, <1>3, <2>1 DEF InHand, Of, Held
<1>6. OnHandle'
  BY <1>1, <1>2, <1>3 DEF OnHandle, Of, Held, Ending, Closing
<1>7. Current'
  <2>1. pc'[p] # "append" /\ (pc'[p] = "appending" => AppendLock(p))
    BY DEF Moves, Returns, LoadLock, AttachLookup, AppendLock, DetachCheck,
         Close, CloseNext, CloseDone, Attach, Detach, HelloClose, Starts, Goto,
         Types, kernel, locals
  <2>. QED
    BY <1>1, <1>3, <2>1 DEF Current, AppendLock, Goto, IsFd, Types
<1>8. Existing'
  BY <1>1, <1>2, <1>3 DEF Existing, LinksClosed, ClosersClosed, Ending,
     Detaching, Closing
<1>. QED
  BY <1>1, <1>4, <1>5, <1>6, <1>7, <1>8

(* An object that is made is new, and in the hands of its maker.           *)
Makes(p) == Load(p) \/ AttachLink(p) \/ PerfOpen(p)

(* They preserve who owns what. *)
LEMMA MakesOrders ==
  ASSUME Safe, Sole, Orderly, Orders, NEW p \in Procs, Makes(p)
  PROVE  Orders'
<1>. USE DEF Safe, Orders
<1>1. PICK kind \in Kinds, h \in HandleIDs \cup {0} :
        /\ Make(p, kind, h)
        /\ \/ Load(p) /\ kind = "coll" /\ h = 0
           \/ AttachLink(p) /\ kind = "link" /\ h = cur[p]
           \/ PerfOpen(p) /\ kind = "fd" /\ h = cur[p]
  BY DEF Makes, Load, AttachLink, PerfOpen, Kinds, Goto, Working, Attaching
<1>. DEFINE o == [n |-> made + 1, kind |-> kind, of |-> h]
<1>2. /\ UNCHANGED <<hd, twice>> /\ cur' = cur /\ old' = old
      /\ pc[p] \in {"idle", "attach", "perf_open"}
      /\ pc'[p] \in {"register", "append", "perf_open"}
  BY DEF Makes, Load, AttachLink, PerfOpen, Starts, Goto, Types
<1>3. /\ live' = live \cup {o} /\ made' = made + 1 /\ made \in Nat
      /\ obj'[p] = obj[p] \cup {o}
      /\ \A q \in Procs \ {p} : obj'[q] = obj[q]
      /\ \A q \in Procs \ {p} : pc[q] \notin Ending
      /\ \A q \in Procs \ {p} : pc'[q] = pc[q]
  BY <1>1, Frame, Undisturbed DEF Begin, Step, Makes, Make, Types
<1>4. o \notin live /\ (\A q \in Procs : o \notin obj[q])
      /\ (\A g \in HandleIDs : o \notin Held(g))
  BY <1>3 DEF Below
<1>5. o.kind = kind /\ o.of = h /\ o.n = made + 1
  OBVIOUS
<1>. HIDE DEF o
<1>6. Below'
  <2>1. /\ \A x \in live : x.n \in Nat
        /\ \A q \in Procs : \A x \in obj[q] : x.n \in Nat
        /\ \A g \in HandleIDs : \A x \in Held(g) : x.n \in Nat
    BY DEF Types, Objects, Handles, Held
  <2>. QED
    BY <1>2, <1>3, <1>5, <2>1 DEF Below, Held
<1>7. Reachable'
  BY <1>2, <1>3 DEF Reachable, Held
<1>8. InHand'
  <2>1. ASSUME NEW q \in Procs \ {p}, NEW r \in Procs \ {q}
        PROVE  /\ obj'[q] \subseteq live' /\ obj'[q] \cap obj'[r] = {}
               /\ obj'[p] \subseteq live'
    BY <1>3, <1>4 DEF InHand
  <2>2. ASSUME NEW g \in HandleIDs, NEW q \in Procs
        PROVE  obj'[q] \cap Held(g)' = {}
    BY <1>2, <1>3, <1>4 DEF InHand, Held
  <2>3. CASE Load(p)
    <3>1. kind = "coll" /\ h = 0 /\ pc[p] = "idle" /\ pc'[p] = "register"
      BY <1>1, <2>3 DEF Load, AttachLink, PerfOpen, Starts, Goto, Types
    <3>2. obj'[p] = {o}
      BY <1>3, <3>1 DEF InHand
    <3>. QED
      BY <1>2, <1>3, <1>5, <2>1, <2>2, <3>1, <3>2 DEF InHand, Of
  <2>4. CASE AttachLink(p)
    <3>1. kind = "link" /\ h = cur[p] /\ pc[p] = "attach" /\ pc'[p] = "append"
      BY <1>1, <2>4 DEF Load, AttachLink, PerfOpen, Starts, Goto, Types
    <3>2. obj'[p] = {o}
      BY <1>3, <3>1 DEF InHand
    <3>. QED
      BY <1>2, <1>3, <1>5, <2>1, <2>2, <3>1, <3>2 DEF InHand, Of
  <2>5. CASE PerfOpen(p)
    <3>1. /\ kind = "fd" /\ h = cur[p] /\ pc[p] = "perf_open"
          /\ pc'[p] \in {"append", "perf_open"}
      BY <1>1, <2>5 DEF Load, AttachLink, PerfOpen, Starts, Goto, Types
    <3>2. Of(obj[p], "fd", cur[p])
      BY <3>1 DEF InHand
    <3>3. obj'[p] # {} /\ Of(obj'[p], "fd", cur[p])
      BY <1>3, <1>5, <3>1, <3>2 DEF Of
    <3>. QED
      BY <1>2, <1>3, <2>1, <2>2, <3>1, <3>3 DEF InHand, Of
  <2>. QED
    BY <2>3, <2>4, <2>5 DEF Makes
<1>9. OnHandle'
  BY <1>2, <1>3 DEF OnHandle, Of, Held, Ending, Closing
<1>10. Current'
  <2>1. pc'[p] = "append" => hd[cur[p]].coll # NoObject
    BY <1>1 DEF AttachLink, PerfOpen, Load, Loaded, Starts, Goto, Types
  <2>. QED
    BY <1>2, <1>3, <2>1 DEF Current, IsFd
<1>11. Existing'
  BY <1>2, <1>3, <1>4 DEF Existing, LinksClosed, ClosersClosed, Ending,
     Detaching, Closing, Held
<1>. QED
  BY <1>2, <1>6, <1>7, <1>8, <1>9, <1>10, <1>11

(* LoadRegister hands the collection over to a handle that is new.         *)
LEMMA RegisterOrders ==
  ASSUME Safe, Sole, Orderly, Orders, NEW p \in Procs, LoadRegister(p)
  PROVE  Orders'
<1>. USE DEF Safe, Orders
<1>1. PICK c \in obj[p] : hd' = [hd EXCEPT ![num[p]].coll = c]
  BY DEF LoadRegister
<1>2. /\ pc[p] = "registering" /\ pc'[p] = "idle"
      /\ UNCHANGED <<live, made, cur, old, twice>>
      /\ obj'[p] = {}
  BY DEF LoadRegister, Goto, Types, kernel
<1>3. /\ num[p] = nextID /\ nextID \in HandleIDs /\ hd[nextID].coll = NoObject
  <2>1. num[p] = nextID /\ nextID \in HandleIDs
    BY <1>2, RoomLeft
  <2>2. nextID \notin handles
    BY DEF Room, Types
  <2>. QED
    BY <2>1, <2>2 DEF Registered
<1>4. /\ obj[p] = {c} /\ c.kind = "coll" /\ c.of = 0 /\ c # NoObject
      /\ NoObject \notin live
  BY <1>2, NoObjectAssumption DEF InHand, Types
<1>5. /\ \A h \in HandleIDs : /\ hd'[h].links = hd[h].links
                              /\ hd'[h].closers = hd[h].closers
                              /\ hd'[h].status = hd[h].status
                              /\ h # nextID => hd'[h].coll = hd[h].coll
      /\ hd'[nextID].coll = c
  BY <1>1, <1>3 DEF Types, Handles
<1>6. \A q \in Procs \ {p} : /\ pc[q] \notin Ending /\ pc'[q] = pc[q]
                             /\ obj'[q] = obj[q]
  BY Frame, Undisturbed DEF Begin, Step
<1>7. Below'
  BY <1>2, <1>5, <1>6 DEF Below, Held
<1>8. InHand'
  BY <1>2, <1>5, <1>6 DEF InHand, Of, Held
<1>9. OnHandle'
  BY <1>2, <1>3, <1>4, <1>5, <1>6 DEF OnHandle, Of, Held, Ending, Closing
<1>10. Current'
  <2>1. ASSUME NEW q \in Procs \ {p}, pc[q] \in {"append", "appending"}
        PROVE  /\ hd'[cur[q]].coll # NoObject
               /\ hd'[cur[q]].links = hd[cur[q]].links
               /\ hd'[cur[q]].closers = hd[cur[q]].closers
    <3>1. cur[q] \in HandleIDs /\ hd[cur[q]].coll # NoObject
      BY <2>1 DEF Working, Attaching, Current
    <3>. QED
      BY <1>4, <1>5, <3>1
  <2>. QED
    BY <1>2, <1>6, <2>1 DEF Current, IsFd
<1>11. Existing'
  <2>1. \A h \in HandleIDs : hd[h].links \subseteq live /\ hd[h].closers \subseteq live
    BY <1>2, <1>6 DEF Existing, LinksClosed, ClosersClosed, Ending, Detaching,
       Closing
  <2>. QED
    BY <1>2, <1>5, <1>6, <2>1 DEF Existing, LinksClosed, ClosersClosed, Ending,
     Detaching, Closing
<1>12. Reachable'
  <2>1. ASSUME NEW o \in live
        PROVE  \/ \E h \in HandleIDs : o \in Held(h)'
               \/ \E h \in HandleIDs : o = hd'[h].coll
               \/ \E q \in Procs : o \in obj'[q]
    <3>1. CASE \E h \in HandleIDs : o \in Held(h)
      BY <1>5, <3>1 DEF Held
    <3>2. CASE \E h \in HandleIDs : o = hd[h].coll
      BY <1>3, <1>4, <1>5, <3>2
    <3>3. CASE \E q \in Procs : o \in obj[q]
      BY <1>3, <1>4, <1>5, <1>6, <3>3
    <3>. QED
      BY <3>1, <3>2, <3>3 DEF Reachable
  <2>. QED
    BY <1>2, <2>1 DEF Reachable
<1>. QED
  BY <1>2, <1>7, <1>8, <1>9, <1>10, <1>11, <1>12

(* Append hands what was attached over to the handle, next to what the     *)
(* handle held when the mutex was taken: it holds no more now.             *)
LEMMA AppendOrders ==
  ASSUME Safe, Sole, Orderly, Orders, NEW p \in Procs, Append(p)
  PROVE  Orders'
<1>. USE DEF Safe, Orders
<1>. DEFINE h == cur[p]
<1>1. /\ pc[p] = "appending" /\ pc'[p] \in {"idle", "lookup"}
      /\ UNCHANGED <<live, made, cur, old, twice>>
      /\ obj'[p] = {} /\ h \in HandleIDs /\ mu = p
  BY DEF Append, Goto, Types, kernel, Working, Locked, Attaching
<1>2. \A q \in Procs \ {p} : /\ pc[q] \notin Ending /\ pc'[q] = pc[q]
                             /\ obj'[q] = obj[q] /\ pc[q] # "appending"
  BY <1>1, Frame, Undisturbed DEF Begin, Step, Locked
<1>3. /\ obj[p] # {} /\ hd[h].coll # NoObject
      /\ \/ IsFd(p) /\ Of(obj[p], "fd", h)
         \/ ~IsFd(p) /\ Of(obj[p], "link", h)
      /\ old[p] = IF IsFd(p) THEN hd[h].closers ELSE hd[h].links
  BY <1>1 DEF InHand, Current, IsFd, Of
<1>4. /\ \A g \in HandleIDs : /\ g # h => hd'[g] = hd[g]
                              /\ hd'[g].coll = hd[g].coll
      /\ hd'[h].status = "attached"
      /\ hd'[h].links = hd[h].links \cup (IF IsFd(p) THEN {} ELSE obj[p])
      /\ hd'[h].closers = hd[h].closers \cup (IF IsFd(p) THEN obj[p] ELSE {})
  <2>1. CASE IsFd(p)
    BY <1>1, <1>3, <2>1 DEF Append, Types, Handles
  <2>2. CASE ~IsFd(p)
    BY <1>1, <1>3, <2>2 DEF Append, Types, Handles
  <2>. QED
    BY <2>1, <2>2
<1>5. /\ hd'[h].links \cup hd'[h].closers = Held(h) \cup obj[p]
      /\ \A g \in HandleIDs \ {h} : hd'[g].links \cup hd'[g].closers = Held(g)
  BY <1>1, <1>4 DEF Held
<1>. HIDE DEF h
<1>6. Below'
  BY <1>1, <1>2, <1>5 DEF Below, Held
<1>7. InHand'
  <2>1. ASSUME NEW q \in Procs \ {p}, NEW g \in HandleIDs
        PROVE  obj'[q] \cap (hd'[g].links \cup hd'[g].closers) = {}
    BY <1>1, <1>2, <1>5 DEF InHand
  <2>. QED
    BY <1>1, <1>2, <2>1 DEF InHand, Of, Held
<1>8. OnHandle'
  BY <1>1, <1>2, <1>3, <1>4, <1>5 DEF OnHandle, Of, Held, Ending, Closing
<1>9. Current'
  BY <1>1, <1>2, <1>4 DEF Current, IsFd, Working, Attaching
<1>10. Existing'
  <2>1. \A g \in HandleIDs : hd[g].links \subseteq live /\ hd[g].closers \subseteq live
    BY <1>1, <1>2 DEF Existing, LinksClosed, ClosersClosed, Ending, Detaching,
       Closing
  <2>2. obj[p] \subseteq live
    BY DEF InHand
  <2>. QED
    BY <1>1, <1>2, <1>4, <2>1, <2>2 DEF Existing, LinksClosed, ClosersClosed,
       Ending, Detaching, Closing
<1>11. Reachable'
  <2>1. ASSUME NEW o \in live
        PROVE  \/ \E g \in HandleIDs : o \in hd'[g].links \cup hd'[g].closers
               \/ \E g \in HandleIDs : o = hd'[g].coll
               \/ \E q \in Procs : o \in obj'[q]
    BY <1>1, <1>2, <1>4, <1>5 DEF Reachable
  <2>. QED
    BY <1>1, <2>1 DEF Reachable, Held
<1>. QED
  BY <1>1, <1>6, <1>7, <1>8, <1>9, <1>10, <1>11

(* A link call that fails leaves nothing but a status.                     *)
LEMMA FailsOrders ==
  ASSUME Safe, Sole, Orderly, Orders, NEW p \in Procs, AttachLinkFails(p)
  PROVE  Orders'
<1>. USE DEF Safe, Orders
<1>1. /\ pc[p] = "attach" /\ pc'[p] = "idle" /\ cur[p] \in HandleIDs
      /\ UNCHANGED <<live, made, cur, obj, old, twice>>
  BY DEF AttachLinkFails, Goto, Types, kernel, locals, Working, Attaching
<1>2. \A q \in Procs \ {p} : pc[q] \notin Ending /\ pc'[q] = pc[q]
  BY Frame, Undisturbed DEF Begin, Step
<1>3. \A g \in HandleIDs : /\ hd'[g].links = hd[g].links
                           /\ hd'[g].closers = hd[g].closers
                           /\ hd'[g].coll = hd[g].coll
                           /\ hd'[g].status \in {hd[g].status, "error"}
  BY <1>1 DEF AttachLinkFails, Types, Handles
<1>4. Below' /\ Reachable'
  BY <1>1, <1>3 DEF Below, Reachable, Held
<1>5. InHand'
  BY <1>1, <1>2, <1>3 DEF InHand, Of, Held
<1>6. OnHandle'
  BY <1>1, <1>2, <1>3 DEF OnHandle, Of, Held, Ending, Closing
<1>7. Current'
  BY <1>1, <1>2, <1>3 DEF Current, IsFd, Working, Attaching
<1>8. Existing'
  BY <1>1, <1>2, <1>3 DEF Existing, LinksClosed, ClosersClosed, Ending,
     Detaching, Closing, Working
<1>. QED
  BY <1>1, <1>4, <1>5, <1>6, <1>7, <1>8

(* AttachPerfEventAllCPUs closes what it has opened, which is its own.     *)
LEMMA GivesUpOrders ==
  ASSUME Safe, Sole, Orderly, Orders, NEW p \in Procs, PerfOpenFails(p)
  PROVE  Orders'
<1>. USE DEF Safe, Orders
<1>1. /\ pc[p] = "perf_open" /\ pc'[p] = "idle"
      /\ UNCHANGED <<hd, made, cur, old>>
      /\ obj[p] \subseteq live /\ obj'[p] = {}
      /\ live' = live \ obj[p] /\ ~twice'
  BY DEF PerfOpenFails, CloseAll, Goto, Types, InHand
<1>2. \A q \in Procs \ {p} : /\ pc[q] \notin Ending /\ pc'[q] = pc[q]
                             /\ obj'[q] = obj[q]
  BY Frame, Undisturbed DEF Begin, Step
<1>3. Below'
  BY <1>1, <1>2 DEF Below, Held
<1>4. InHand'
  BY <1>1, <1>2 DEF InHand, Of, Held
<1>5. OnHandle'
  BY <1>1, <1>2 DEF OnHandle, Of, Held, Ending, Closing
<1>6. Current'
  BY <1>1, <1>2 DEF Current, IsFd
<1>7. Existing'
  <2>1. \A g \in HandleIDs : Held(g) \subseteq live /\ Held(g) \cap obj[p] = {}
    BY <1>1, <1>2 DEF InHand, Existing, LinksClosed, ClosersClosed, Ending,
       Detaching, Closing, Held
  <2>. QED
    BY <1>1, <1>2, <2>1 DEF Held, Existing, LinksClosed, ClosersClosed,
       Ending, Detaching, Closing
<1>8. Reachable'
  BY <1>1, <1>2 DEF Reachable, Held
<1>. QED
  BY <1>1, <1>3, <1>4, <1>5, <1>6, <1>7, <1>8

(* Detach and Handle.Close close what the handle holds.                    *)
LEMMA ClosesOrders ==
  ASSUME Safe, Sole, Orderly, Orders, NEW p \in Procs,
         \/ DetachLinks(p) \/ CloseLinks(p)
         \/ DetachClosers(p) \/ CloseClosers(p)
  PROVE  Orders'
<1>. USE DEF Safe, Orders
<1>. DEFINE h == cur[p]
<1>1. /\ pc[p] \in Ending /\ pc'[p] \in Ending /\ h \in HandleIDs
      /\ UNCHANGED <<hd, made, cur, obj, old>>
  BY DEF DetachLinks, CloseLinks, DetachClosers, CloseClosers, Goto, Types,
         Ending, Detaching, Closing, Working, locals
<1>2. \A q \in Procs \ {p} : pc[q] = "idle" /\ pc'[q] = "idle"
  BY <1>1, Frame, Undisturbed DEF Begin, Step
<1>3. \A q \in Procs : obj[q] = {}
  BY <1>1, <1>2 DEF InHand, Ending, Detaching, Closing
<1>4. \/ /\ pc[p] \in {"detach_links", "close_links"}
         /\ pc'[p] \in {"detach_closers", "clear_links"}
         /\ live' = live \ hd[h].links
         /\ twice' = (twice \/ ~(hd[h].links \subseteq live))
      \/ /\ \/ pc[p] = "detach_closers" /\ pc'[p] = "detach_clear"
            \/ pc[p] = "close_closers" /\ pc'[p] = "clear_closers"
         /\ live' = live \ hd[h].closers
         /\ twice' = (twice \/ ~(hd[h].closers \subseteq live))
  BY DEF DetachLinks, CloseLinks, DetachClosers, CloseClosers, CloseAll, Goto,
         Types
<1>5. /\ pc[p] \in {"detach_links", "close_links"} => hd[h].links \subseteq live
      /\ pc[p] \in {"detach_closers", "close_closers"} => hd[h].closers \subseteq live
  BY <1>1, <1>2 DEF Existing, LinksClosed, ClosersClosed
<1>6. \A g \in HandleIDs : /\ g # h => Held(g) \cap Held(h) = {}
                           /\ hd[g].links \cap hd[g].closers = {}
  BY <1>1 DEF OnHandle, Of, Held
<1>7. live' \subseteq live /\ ~twice'
  BY <1>4, <1>5
<1>8. Below'
  BY <1>1, <1>7 DEF Below, Held
<1>9. InHand'
  BY <1>1, <1>2, <1>3 DEF InHand, Of, Held, Ending, Detaching, Closing
<1>10. OnHandle'
  BY <1>1, <1>2, <1>4 DEF OnHandle, Of, Held
<1>11. Current'
  BY <1>1, <1>2 DEF Current, IsFd, Ending, Detaching, Closing
<1>12. Existing'
  <2>1. ASSUME NEW g \in HandleIDs \ {h} PROVE Held(g) \subseteq live'
    <3>1. Held(g) \subseteq live
      BY <1>2 DEF Existing, LinksClosed, ClosersClosed, Held
    <3>. QED
      BY <1>4, <1>6, <3>1 DEF Held
  <2>. HIDE DEF h
  <2>2. CASE pc[p] \in {"detach_links", "close_links"}
    <3>1. hd[h].closers \subseteq live' /\ hd[h].links \cap live' = {}
      BY <1>1, <1>2, <1>4, <1>6, <2>2 DEF Existing, ClosersClosed, h
    <3>. QED
      BY <1>1, <1>2, <1>4, <2>1, <2>2, <3>1 DEF Existing, LinksClosed,
         ClosersClosed, Held, h
  <2>3. CASE pc[p] \in {"detach_closers", "close_closers"}
    BY <1>1, <1>2, <1>4, <1>6, <2>1, <2>3 DEF Existing, LinksClosed,
       ClosersClosed, Held, h
  <2>. QED
    BY <1>4, <2>2, <2>3
<1>13. Reachable'
  BY <1>1, <1>7 DEF Reachable, Held
<1>. QED
  BY <1>7, <1>8, <1>9, <1>10, <1>11, <1>12, <1>13

(* They then forget what they closed.                                      *)
LEMMA ForgetsOrders ==
  ASSUME Safe, Sole, Orderly, Orders, NEW p \in Procs,
         \/ DetachClear(p) \/ ClearLinks(p) \/ ClearClosers(p) \/ CloseColl(p)
  PROVE  Orders'
<1>. USE DEF Safe, Orders
<1>. DEFINE h == cur[p]
<1>1. /\ pc[p] \in Ending /\ h \in HandleIDs
      /\ pc'[p] \in {"idle", "close_next", "close_closers", "close_coll"}
      /\ UNCHANGED <<made, cur, obj, old, twice>>
      /\ live' \subseteq live /\ NoObject \notin live
  BY NoObjectAssumption DEF DetachClear, ClearLinks, ClearClosers, CloseColl,
     Goto, Types, Ending, Detaching, Closing, Working, locals, kernel
<1>2. \A q \in Procs \ {p} : pc[q] = "idle" /\ pc'[q] = "idle"
  BY <1>1, Frame, Undisturbed DEF Begin, Step
<1>3. \A q \in Procs : obj[q] = {}
  BY <1>1, <1>2 DEF InHand, Ending, Detaching, Closing
<1>4. \A g \in HandleIDs \ {h} : hd'[g] = hd[g]
  BY <1>1 DEF DetachClear, ClearLinks, ClearClosers, CloseColl, Types
<1>5. \/ /\ pc[p] = "detach_clear" /\ pc'[p] = "idle" /\ live' = live
         /\ hd'[h].links = {} /\ hd'[h].closers = {}
         /\ hd'[h].coll = hd[h].coll /\ hd'[h].status = "detached"
      \/ /\ pc[p] = "clear_links" /\ pc'[p] = "close_closers" /\ live' = live
         /\ hd'[h].links = {} /\ hd'[h].closers = hd[h].closers
         /\ hd'[h].coll = hd[h].coll /\ hd'[h].status = hd[h].status
      \/ /\ pc[p] = "clear_closers" /\ pc'[p] = "close_coll" /\ live' = live
         /\ hd'[h].links = hd[h].links /\ hd'[h].closers = {}
         /\ hd'[h].coll = hd[h].coll /\ hd'[h].status = hd[h].status
      \/ /\ pc[p] = "close_coll" /\ pc'[p] \in {"idle", "close_next"}
         /\ live' = live \ {hd[h].coll}
         /\ hd'[h].links = hd[h].links /\ hd'[h].closers = hd[h].closers
         /\ hd'[h].coll = NoObject /\ hd'[h].status = "detached"
  BY <1>1 DEF DetachClear, ClearLinks, ClearClosers, CloseColl, Goto, Types,
     Handles, kernel
<1>6. /\ pc[p] \in LinksClosed => hd[h].links \cap live = {}
      /\ pc[p] \in ClosersClosed => hd[h].closers \cap live = {}
      /\ pc[p] \in {"close_closers", "clear_closers", "close_coll"} => hd[h].links = {}
      /\ pc[p] = "close_coll" => hd[h].closers = {}
  BY DEF Existing
<1>. HIDE DEF h
<1>7. ASSUME NEW g \in HandleIDs
      PROVE  hd'[g].links \subseteq hd[g].links /\ hd'[g].closers \subseteq hd[g].closers
  BY <1>4, <1>5
<1>8. Below'
  BY <1>1, <1>7 DEF Below, Held
<1>9. InHand'
  BY <1>1, <1>2, <1>3 DEF InHand, Of, Held, Ending, Detaching, Closing
<1>10. OnHandle'
  <2>1. ASSUME NEW g \in HandleIDs \ {h}
        PROVE  /\ Of(hd'[g].links, "link", g) /\ Of(hd'[g].closers, "fd", g)
               /\ hd'[g].coll # NoObject => hd'[g].coll.kind = "coll" /\ hd'[g].coll.of = 0
               /\ hd'[g].links \cup hd'[g].closers # {} => hd'[g].coll # NoObject
               /\ hd'[g].status = "detached" => hd'[g].links \cup hd'[g].closers = {}
               /\ hd'[g].status = "attached" => hd'[g].links \cup hd'[g].closers # {}
    BY <1>1, <1>2, <1>4 DEF OnHandle, Held, h
  <2>2. /\ Of(hd[h].links, "link", h) /\ Of(hd[h].closers, "fd", h)
        /\ hd[h].coll # NoObject => hd[h].coll.kind = "coll" /\ hd[h].coll.of = 0
        /\ hd[h].links \cup hd[h].closers # {} => hd[h].coll # NoObject
        /\ hd[h].status = "detached" => hd[h].links \cup hd[h].closers = {}
    BY <1>1 DEF OnHandle, Held
  <2>3. /\ Of(hd'[h].links, "link", h) /\ Of(hd'[h].closers, "fd", h)
        /\ hd'[h].coll # NoObject => hd'[h].coll.kind = "coll" /\ hd'[h].coll.of = 0
        /\ hd'[h].links \cup hd'[h].closers # {} => hd'[h].coll # NoObject
        /\ hd'[h].status = "detached" => hd'[h].links \cup hd'[h].closers = {}
    BY <1>5, <1>6, <2>2 DEF Of
  <2>4. hd'[h].status = "attached" => pc'[p] \in {"close_closers", "clear_closers", "close_coll"}
    BY <1>5
  <2>. QED
    BY <1>1, <2>1, <2>3, <2>4 DEF OnHandle, Held, h
<1>11. Current'
  BY <1>1, <1>2 DEF Current, IsFd, Ending, Detaching, Closing
<1>12. Existing'
  <2>1. ASSUME NEW g \in HandleIDs \ {h}
        PROVE  hd'[g].links \subseteq live' /\ hd'[g].closers \subseteq live'
    <3>1. Held(g) \subseteq live
      BY <1>2 DEF Existing, LinksClosed, ClosersClosed, Held, h
    <3>2. live \ {hd[h].coll} \subseteq live'
      BY <1>5
    <3>3. hd[h].coll \notin Held(g)
      BY <1>1, <3>1 DEF OnHandle, Of, Held
    <3>. QED
      BY <1>4, <3>1, <3>2, <3>3 DEF Held
  <2>2. hd'[h].links \subseteq live' /\ hd'[h].closers \subseteq live'
    BY <1>1, <1>2, <1>5, <1>6 DEF Existing, LinksClosed, ClosersClosed, h
  <2>3. /\ pc'[p] \in {"close_closers", "clear_closers", "close_coll"} => hd'[h].links = {}
        /\ pc'[p] = "close_coll" => hd'[h].closers = {}
        /\ pc'[p] \notin LinksClosed \cup ClosersClosed
    BY <1>1, <1>5, <1>6 DEF LinksClosed, ClosersClosed
  <2>. QED
    BY <1>1, <1>2, <2>1, <2>2, <2>3 DEF Existing, LinksClosed, ClosersClosed, h
<1>13. Reachable'
  <2>1. ASSUME NEW o \in live'
        PROVE  \/ \E g \in HandleIDs : o \in hd'[g].links \cup hd'[g].closers
               \/ \E g \in HandleIDs : o = hd'[g].coll
    <3>1. PICK g \in HandleIDs : o \in Held(g) \/ o = hd[g].coll
      BY <1>1, <1>3 DEF Reachable
    <3>2. CASE g # h
      BY <1>4, <3>1, <3>2 DEF Held
    <3>3. CASE g = h
      BY <1>1, <1>5, <1>6, <3>1, <3>3 DEF Held, LinksClosed, ClosersClosed
    <3>. QED
      BY <3>2, <3>3
  <2>. QED
    BY <1>1, <2>1 DEF Reachable, Held
<1>. QED
  BY <1>1, <1>8, <1>9, <1>10, <1>11, <1>12, <1>13

(* Every step preserves the ownership of the objects. *)
LEMMA NextTidy == Safe /\ Tidy /\ [Next]_vars => Tidy'
<1>1. ASSUME Safe, Tidy, NEW p \in Procs, Begin(p) \/ Step(p)
      PROVE  Tidy'
  <2>1. Sole' /\ (Orderly' <=> Orderly)
    BY <1>1, NextSole DEF Tidy
  <2>2. ASSUME Orderly PROVE Orders'
    BY <1>1, <2>2, MovesOrders, MakesOrders, RegisterOrders, AppendOrders,
       FailsOrders, GivesUpOrders, ClosesOrders, ForgetsOrders
    DEF Begin, Step, Moves, Makes, Tidy, Orders
  <2>. QED
    BY <2>1, <2>2 DEF Tidy, Orders
<1>2. ASSUME Tidy, UNCHANGED vars PROVE Tidy'
  <2>1. Sole' /\ (Orderly' <=> Orderly)
    BY <1>2 DEF Tidy, Sole, vars, Orderly, Alone, Attachers
  <2>2. Below' = Below /\ InHand' = InHand /\ OnHandle' = OnHandle
    BY <1>2 DEF vars, Below, InHand, OnHandle, Of, Held
  <2>3. Current' = Current /\ Existing' = Existing /\ Reachable' = Reachable
    BY <1>2 DEF vars, Current, IsFd, Existing, Reachable, Held
  <2>. QED
    BY <1>2, <2>1, <2>2, <2>3 DEF vars, Tidy
<1>. QED
  BY <1>1, <1>2 DEF Next, Quiet

(* The initial states: there is no object. *)
LEMMA InitTidy == Init => Tidy
<1>. SUFFICES ASSUME Init PROVE Tidy
  OBVIOUS
<1>. USE DEF Init, NoHandle, Held
<1>1. Sole
  BY DEF Sole, Ending, Detaching, Closing
<1>2. Below /\ InHand /\ OnHandle
  BY DEF Below, InHand, OnHandle, Of
<1>3. Current /\ Existing /\ Reachable /\ ~twice
  BY DEF Current, Existing, LinksClosed, ClosersClosed, Reachable
<1>. QED
  BY <1>1, <1>2, <1>3 DEF Tidy

(* Ownership, for programs in which one goroutine calls, or nobody closes:  *)
(* every open object has one owner, a handle or the goroutine that made it. *)
THEOREM HoldsTidy == Spec => []Tidy
  BY InitTidy, NextTidy, HoldsSafe, PTL DEF Spec

(* ClosedOnce: a program whose goroutines do not detach or close behind    *)
(* one another's back closes no object twice.                              *)
THEOREM NothingClosedTwice == Spec => []ClosedOnce
<1>1. Tidy => ClosedOnce
  BY DEF Tidy, ClosedOnce
<1>. QED
  BY <1>1, HoldsTidy, PTL

(* NoOrphans: whatever such a program makes in the kernel and does not try *)
(* to close is held by a handle of the Manager's map or by the call that   *)
(* made it.                                                                *)
THEOREM NothingOrphaned == Spec => []NoOrphans
<1>1. Safe /\ Tidy => NoOrphans
  <2>. SUFFICES ASSUME Safe, Tidy, Orderly, NEW o \in live
                PROVE  o \in (UNION {Owned(h) : h \in handles})
                                \cup (UNION {obj[p] : p \in Procs})
    BY DEF NoOrphans, Tracked
  <2>1. CASE \E h \in HandleIDs : o \in Held(h) \/ o = hd[h].coll
    <3>1. PICK h \in HandleIDs : o \in Held(h) \/ o = hd[h].coll
      BY <2>1
    <3>2. o \in Owned(h)
      BY <3>1 DEF Owned, Held
    <3>3. hd[h].coll # NoObject
      BY <3>1, NoObjectAssumption DEF Safe, Types, Tidy, OnHandle
    <3>4. h \in handles
      BY <3>3 DEF Safe, Registered
    <3>. QED
      BY <3>2, <3>4
  <2>2. CASE \E p \in Procs : o \in obj[p]
    BY <2>2
  <2>. QED
    BY <2>1, <2>2 DEF Tidy, Reachable
<1>. QED
  BY <1>1, HoldsSafe, HoldsTidy, PTL

(* StatusTruthful: between the calls of such a program, a handle says that *)
(* it is attached only if something is, and when it says that it is        *)
(* detached no more is left of it than what failed to close.               *)
THEOREM StatusIsTrue == Spec => []StatusTruthful
<1>1. Safe /\ Tidy => StatusTruthful
  <2>. SUFFICES ASSUME Safe, Tidy, AllIdle, Orderly, NEW h \in HandleIDs
                PROVE  /\ hd[h].status = "attached" => HookedUp(h) \cap live # {}
                       /\ hd[h].status = "detached" => HookedUp(h) \subseteq leaked
    BY DEF StatusTruthful
  <2>1. /\ \A p \in Procs : obj[p] = {}
        /\ \A g \in HandleIDs : Held(g) \subseteq live
    BY DEF AllIdle, Tidy, InHand, Existing, LinksClosed, ClosersClosed, Held
  <2>2. ASSUME hd[h].status = "attached" PROVE HookedUp(h) \cap live # {}
    <3>1. PICK o \in Held(h) : TRUE
      BY <2>2 DEF AllIdle, Tidy, OnHandle
    <3>2. o.of = h /\ o \in live
      BY <2>1 DEF Tidy, OnHandle, Of, Held
    <3>. QED
      BY <3>2 DEF HookedUp
  <2>3. ASSUME hd[h].status = "detached", NEW o \in live, o.of = h
        PROVE  FALSE
    <3>1. PICK g \in HandleIDs : o \in Held(g) \/ o = hd[g].coll
      BY <2>1 DEF Tidy, Reachable
    <3>2. CASE o \in Held(g)
      <4>1. o.of = g
        BY <3>2 DEF Tidy, OnHandle, Of, Held
      <4>. QED
        BY <2>3, <3>2, <4>1 DEF Tidy, OnHandle
    <3>3. CASE o = hd[g].coll
      <4>1. o.of = 0
        BY <3>3, NoObjectAssumption DEF Safe, Types, Tidy, OnHandle
      <4>. QED
        BY <2>3, <4>1 DEF HandleIDs
    <3>. QED
      BY <3>1, <3>2, <3>3
  <2>. QED
    BY <2>2, <2>3 DEF HookedUp
<1>. QED
  BY <1>1, HoldsSafe, HoldsTidy, PTL
=============================================================================
