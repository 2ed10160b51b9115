-------------------------- MODULE NetnsFlows_proofs --------------------------
(***************************************************************************)
(* Proofs about NetnsFlows: that the events replay to what the watcher      *)
(* knows, that no namespace is reported removed that a path has led to all  *)
(* along, and that one marked attached has both programs.                   *)
(***************************************************************************)
EXTENDS NetnsFlows, FoldTheorems, SequenceTheorems

(* The inodes known to whoever has been told the events of a queue: what is *)
(* known after each of them follows from what was known before.             *)
Heard(f, S, q) ==
  /\ f[0] = S
  /\ \A k \in 1 .. Len(q) : f[k] = Replay(f[k - 1], q[k])

(* FoldLeft of Replay passes through what is known after each event. *)
LEMMA ReplaySteps ==
  ASSUME NEW S \in SUBSET Inodes, NEW q \in Seq(Events)
  PROVE  \E f : /\ Heard(f, S, q) /\ FoldLeft(Replay, S, q) = f[Len(q)]
                /\ \A k \in 0 .. Len(q) : f[k] \in SUBSET Inodes
<1> DEFINE n == Len(q)
           A == SUBSET Inodes
           G == [k \in 1 .. n |-> [x \in A |-> Replay(x, q[k])]]
           It(it) == it = [s \in SUBSET DOMAIN q |->
                             IF s = {} THEN S
                             ELSE Replay(it[s \ {Max(s)}], q[Max(s)])]
           iter == CHOOSE it : It(it)
<1>1. n \in Nat /\ DOMAIN q = 1 .. n
  OBVIOUS
<1>2. \A k \in 1 .. n : \A x \in A :
        G[k][x] = Replay(x, q[k]) /\ Replay(x, q[k]) \in A
  <2>1. ASSUME NEW k \in 1 .. n, NEW x \in A PROVE Replay(x, q[k]) \in A
    <3>1. q[k] \in Events
      OBVIOUS
    <3> QED BY <3>1 DEF Replay, Events
  <2> QED BY <2>1
<1>3. FoldLeft(Replay, S, q) = iter[DOMAIN q]
  BY DEF FoldLeft, MapThenFoldSet
<1>4. It(iter)
  <2>1. PICK it : /\ IsFoldLeft(it, G, S, n)
                  /\ \A s \in SUBSET (1 .. n) : it[s] \in A
    <3>1. S \in A /\ \A k \in 1 .. n : \A x \in A : G[k][x] \in A
      BY <1>2
    <3> HIDE DEF G, n, A
    <3> QED BY <1>1, <3>1, FoldLeftExists
  <2>2. \A s \in SUBSET (1 .. n) : s # {} =>
          /\ Max(s) \in 1 .. n
          /\ s \ {Max(s)} \in SUBSET (1 .. n)
    BY <1>1, GreatestIndex
  <2> HIDE DEF G, n, A
  <2>3. It(it)
    <3>1. \A s \in SUBSET (1 .. n) : s # {} =>
            G[Max(s)][it[s \ {Max(s)}]] = Replay(it[s \ {Max(s)}], q[Max(s)])
      BY <1>2, <2>1, <2>2
    <3> QED BY <1>1, <2>1, <3>1 DEF IsFoldLeft
  <2> HIDE DEF It
  <2> QED BY <2>3
<1> HIDE DEF iter, G
<1> DEFINE f == [k \in 0 .. n |-> iter[1 .. k]]
<1>5. Heard(f, S, q)
  <2>1. 1 .. 0 = {} /\ 1 .. 0 \in SUBSET DOMAIN q /\ 0 \in 0 .. n
    BY <1>1
  <2>2. f[0] = S
    BY <1>4, <2>1
  <2>3. ASSUME NEW k \in 1 .. n PROVE f[k] = Replay(f[k - 1], q[k])
    <3>1. k \in 0 .. n /\ k - 1 \in 0 .. n
      BY <1>1
    <3>2. 1 .. k \in SUBSET DOMAIN q /\ 1 .. k # {}
      <4> HIDE DEF n, f
      <4>1. 1 \in 1 .. k /\ \A j \in 1 .. k : j \in 1 .. n
        BY <1>1
      <4> QED BY <1>1, <4>1
    <3>3. Max(1 .. k) = k /\ (1 .. k) \ {k} = 1 .. (k - 1)
      BY <1>1, GreatestIndex
    <3>4. iter[1 .. k] = Replay(iter[1 .. (k - 1)], q[k])
      BY <1>4, <3>2, <3>3
    <3> QED BY <3>1, <3>4
  <2> QED BY <2>2, <2>3 DEF Heard
<1>6. FoldLeft(Replay, S, q) = f[n]
  BY <1>1, <1>3
<1>7. ASSUME NEW k \in 0 .. n PROVE f[k] \in A
  <2> DEFINE Bad == {j \in 0 .. n : f[j] \notin A}
  <2> SUFFICES ASSUME Bad # {} PROVE FALSE
    OBVIOUS
  <2> HIDE DEF f
  <2>1. PICK m \in Bad : \A j \in Nat : j < m => j \notin Bad
    <3>1. Bad \in SUBSET Nat /\ Bad # {}
      BY <1>1
    <3> HIDE DEF Bad
    <3> QED BY <3>1, SmallestNumber
  <2>2. m # 0 /\ m \in 0 .. n
    BY <1>5 DEF Heard
  <2>3. m \in 1 .. n /\ m - 1 \in Nat /\ m - 1 \in 0 .. n /\ m - 1 < m
    BY <1>1, <2>2
  <2>4. f[m - 1] \in A /\ f[m] = Replay(f[m - 1], q[m])
    BY <1>5, <2>1, <2>3 DEF Heard
  <2> HIDE DEF A
  <2> QED BY <1>2, <2>3, <2>4
<1> HIDE DEF f
<1> QED BY <1>5, <1>6, <1>7

(* Whatever passes through what is known after each event ends where        *)
(* FoldLeft ends.                                                           *)
LEMMA HeardIsReplay ==
  ASSUME NEW S \in SUBSET Inodes, NEW q \in Seq(Events), NEW f, Heard(f, S, q)
  PROVE  FoldLeft(Replay, S, q) = f[Len(q)]
<1> DEFINE n == Len(q)
<1>1. PICK g : Heard(g, S, q) /\ FoldLeft(Replay, S, q) = g[n]
  BY ReplaySteps
<1> DEFINE Bad == {k \in 0 .. n : f[k] # g[k]}
<1>2. n \in Nat
  OBVIOUS
<1>3. Bad = {}
  <2> SUFFICES ASSUME Bad # {} PROVE FALSE
    OBVIOUS
  <2>1. PICK m \in Bad : \A j \in Nat : j < m => j \notin Bad
    <3>1. Bad \in SUBSET Nat /\ Bad # {}
      BY <1>2
    <3> HIDE DEF Bad
    <3> QED BY <3>1, SmallestNumber
  <2>2. m # 0 /\ m \in 0 .. n
    BY <1>1 DEF Heard
  <2>3. m \in 1 .. n /\ m - 1 \in Nat /\ m - 1 \in 0 .. n /\ m - 1 < m
    BY <1>2, <2>2
  <2>4. f[m - 1] = g[m - 1]
    BY <2>1, <2>3
  <2> QED BY <1>1, <2>3, <2>4 DEF Heard
<1>4. f[n] = g[n]
  <2> HIDE DEF n
  <2> QED BY <1>2, <1>3
<1> QED BY <1>1, <1>4

(* An event more at the end ...                                             *)
LEMMA ReplayAppend ==
  ASSUME NEW S \in SUBSET Inodes, NEW q \in Seq(Events), NEW e \in Events
  PROVE  FoldLeft(Replay, S, Append(q, e)) = Replay(FoldLeft(Replay, S, q), e)
<1> DEFINE n == Len(q)  p == Append(q, e)
<1>1. PICK f : Heard(f, S, q) /\ FoldLeft(Replay, S, q) = f[n]
  BY ReplaySteps
<1> DEFINE g == [k \in 0 .. n + 1 |-> IF k = n + 1 THEN Replay(f[n], e) ELSE f[k]]
<1>2. /\ n \in Nat /\ p \in Seq(Events) /\ Len(p) = n + 1
      /\ p[n + 1] = e /\ \A k \in 1 .. n : p[k] = q[k]
  OBVIOUS
<1>3. Heard(g, S, p)
  <2> HIDE DEF p
  <2>1. 0 \in 0 .. n + 1 /\ 0 # n + 1
    BY <1>2
  <2>2. ASSUME NEW k \in 1 .. n + 1 PROVE g[k] = Replay(g[k - 1], p[k])
    <3>1. /\ k \in 0 .. n + 1 /\ k - 1 \in 0 .. n + 1 /\ k - 1 # n + 1
          /\ k = n + 1 \/ k \in 1 .. n
      BY <1>2
    <3>2. CASE k = n + 1
      <4>1. k - 1 = n
        BY <1>2, <3>2
      <4> HIDE DEF n
      <4> QED BY <1>2, <3>1, <3>2, <4>1
    <3>3. CASE k \in 1 .. n
      <4>1. k # n + 1 /\ f[k] = Replay(f[k - 1], q[k])
        BY <1>1, <1>2, <3>3 DEF Heard
      <4> HIDE DEF n
      <4> QED BY <1>2, <3>1, <3>3, <4>1
    <3> QED BY <3>1, <3>2, <3>3
  <2>3. g[0] = S
    BY <1>1, <2>1 DEF Heard
  <2> HIDE DEF g
  <2> QED BY <1>2, <2>2, <2>3 DEF Heard
<1>4. FoldLeft(Replay, S, p) = g[n + 1]
  <2> HIDE DEF p, g, n
  <2> QED BY <1>2, <1>3, HeardIsReplay
<1>5. g[n + 1] = Replay(f[n], e)
  BY <1>2
<1> QED BY <1>1, <1>4, <1>5

(* ... or the first one heard.                                              *)
LEMMA ReplayHead ==
  ASSUME NEW S \in SUBSET Inodes, NEW q \in Seq(Events), q # <<>>
  PROVE  /\ Replay(S, Head(q)) \in SUBSET Inodes
         /\ FoldLeft(Replay, S, q)
              = FoldLeft(Replay, Replay(S, Head(q)), Tail(q))
<1> DEFINE n == Len(q)  p == Tail(q)  e == Head(q)
<1>1. PICK f : Heard(f, S, q) /\ FoldLeft(Replay, S, q) = f[n]
  BY ReplaySteps
<1> DEFINE g == [k \in 0 .. n - 1 |-> f[k + 1]]
<1>2. /\ n \in Nat /\ n >= 1 /\ p \in Seq(Events) /\ Len(p) = n - 1
      /\ e \in Events /\ e = q[1] /\ \A k \in 1 .. n - 1 : p[k] = q[k + 1]
  OBVIOUS
<1>3. Replay(S, e) \in SUBSET Inodes
  BY <1>2 DEF Replay, Events
<1>4. Heard(g, Replay(S, e), p)
  <2> HIDE DEF p, e
  <2>1. 0 \in 0 .. n - 1 /\ 0 + 1 = 1 /\ 1 \in 1 .. n /\ 1 - 1 = 0
    BY <1>2
  <2>2. g[0] = f[1] /\ f[1] = Replay(S, e)
    BY <1>1, <1>2, <2>1 DEF Heard
  <2>3. ASSUME NEW k \in 1 .. n - 1 PROVE g[k] = Replay(g[k - 1], p[k])
    <3>1. /\ k \in 0 .. n - 1 /\ k - 1 \in 0 .. n - 1 /\ (k - 1) + 1 = k
          /\ k + 1 \in 1 .. n /\ (k + 1) - 1 = k
      BY <1>2
    <3>2. f[k + 1] = Replay(f[k], q[k + 1])
      BY <1>1, <3>1 DEF Heard
    <3>3. g[k] = f[k + 1] /\ g[k - 1] = f[k]
      BY <3>1
    <3> QED BY <1>2, <3>2, <3>3
  <2> HIDE DEF g
  <2> QED BY <1>2, <2>2, <2>3 DEF Heard
<1>5. FoldLeft(Replay, Replay(S, e), p) = g[n - 1]
  <2> DEFINE R == Replay(S, e)
  <2>1. R \in SUBSET Inodes /\ Heard(g, R, p) /\ p \in Seq(Events)
    BY <1>2, <1>3, <1>4
  <2> HIDE DEF p, g, n, e, R
  <2>2. FoldLeft(Replay, R, p) = g[Len(p)]
    BY <2>1, HeardIsReplay
  <2> QED BY <1>2, <2>2 DEF R
<1>6. g[n - 1] = f[n]
  <2>1. n - 1 \in 0 .. n - 1 /\ (n - 1) + 1 = n
    BY <1>2
  <2> HIDE DEF n
  <2> QED BY <2>1
<1> QED BY <1>1, <1>3, <1>5, <1>6

(* No events change nothing. *)
LEMMA ReplayEmpty ==
  ASSUME NEW S \in SUBSET Inodes PROVE FoldLeft(Replay, S, <<>>) = S
<1>1. <<>> \in Seq(Events) /\ Len(<<>>) = 0
  OBVIOUS
<1>2. PICK f : Heard(f, S, <<>>) /\ FoldLeft(Replay, S, <<>>) = f[Len(<<>>)]
  BY <1>1, ReplaySteps
<1> QED BY <1>1, <1>2 DEF Heard
-----------------------------------------------------------------------------
WatcherAt  == {"start", "enum", "names", "diff", "send", "wait", "returned"}
Attaching  == {"enter"} \cup Directions
ConsumerAt == Attaching \cup {"wait", "returned"}

(* What the variables are, and what is known of a path that leads somewhere.*)
Shape ==
  /\ at \in [Paths -> Ns \cup {NoNs}] /\ ino \in [Ns -> Inodes \cup {NoInode}]
  /\ wpc \in WatcherAt /\ cpc \in ConsumerAt
  /\ todo \subseteq Paths
  /\ InodePaths(seen) /\ InodePaths(known)
  /\ wpc = "send" => ev \in Events
  /\ ch \in Seq(Events)
  /\ cpc \in Attaching => cev \in Events
  /\ attached \subseteq Inodes /\ told \subseteq Inodes
Grounded ==
  /\ at[RootPath] = Root
  /\ \A p \in Paths : at[p] # NoNs => p \in used /\ ino[at[p]] # NoInode

(* The initial states, in which the watcher has seen nothing. *)
LEMMA InitShape == Init => Shape /\ Grounded
<1> SUFFICES ASSUME Init PROVE Shape /\ Grounded
  OBVIOUS
<1> USE RootAssumption, NoneAssumption
<1>1. <<>> \in Seq(Events) /\ DOMAIN <<>> = {}
  OBVIOUS
<1>2. ino[Root] = RootInode /\ at[RootPath] = Root
  BY DEF Init
<1>3. Shape
  BY <1>1, <1>2 DEF Init, Shape, InodePaths, WatcherAt, ConsumerAt, Attaching,
                    Directions
<1>4. Grounded
  BY <1>2 DEF Init, Grounded
<1> QED BY <1>3, <1>4

(* What a step of the environment does to the paths and the numbers.        *)
Comes(n, p) == /\ p \in Paths /\ n \in Ns /\ Free(p)
               /\ at' = [at EXCEPT ![p] = n] /\ used' = used \cup {p}
               /\ UNCHANGED <<may, pinned, tcx, cancelled>>

(* Processes and namespaces that come and go change nothing the watcher     *)
(* holds.                                                                   *)
LEMMA EnvironmentStep ==
  ASSUME Shape, Grounded,
         \/ \E n \in Ns, p \in Paths :
              Join(n, p) \/ \E i \in Inodes : Create(n, p, i)
         \/ \E p \in Paths : Exit(p)
         \/ \E n \in Ns : AddIface(n)
         \/ Cancel
  PROVE  /\ UNCHANGED <<may, wpc, watcher, ch, consumer>>
         /\ \/ \E n \in Ns, p \in Paths, i \in Inodes :
                 /\ Comes(n, p) /\ ino[n] = NoInode /\ InodeFree(i)
                 /\ ino' = [ino EXCEPT ![n] = i]
            \/ \E n \in Ns, p \in Paths :
                 /\ Comes(n, p) /\ "join" \in may /\ Exists(n)
                 /\ ino[n] # NoInode /\ ino' = ino
            \/ \E p \in Paths \ {RootPath} :
                 /\ at' = [at EXCEPT ![p] = NoNs] /\ UNCHANGED <<ino, used>>
                 /\ "pin" \notin may => pinned' = pinned
                 /\ tcx' = {t \in tcx : HeldIn(at', pinned', t[1])
                                        \/ t[1] = inside}
            \/ UNCHANGED <<at, ino, used, pinned, tcx>>
<1>1. ASSUME NEW n \in Ns, NEW p \in Paths, Join(n, p)
      PROVE  /\ UNCHANGED <<may, wpc, watcher, ch, consumer>>
             /\ Comes(n, p) /\ "join" \in may /\ Exists(n)
             /\ ino[n] # NoInode /\ ino' = ino
  BY <1>1 DEF Join, Comes
<1>2. ASSUME NEW n \in Ns, NEW p \in Paths, NEW i \in Inodes, Create(n, p, i)
      PROVE  /\ UNCHANGED <<may, wpc, watcher, ch, consumer>>
             /\ Comes(n, p) /\ ino[n] = NoInode /\ InodeFree(i)
             /\ ino' = [ino EXCEPT ![n] = i]
  BY <1>2 DEF Create, Comes
<1>3. ASSUME NEW p \in Paths, Exit(p)
      PROVE  /\ UNCHANGED <<may, wpc, watcher, ch, consumer>>
             /\ p \in Paths \ {RootPath}
             /\ at' = [at EXCEPT ![p] = NoNs] /\ UNCHANGED <<ino, used>>
             /\ "pin" \notin may => pinned' = pinned
             /\ tcx' = {t \in tcx : HeldIn(at', pinned', t[1])
                                    \/ t[1] = inside}
  BY <1>3 DEF Exit
<1>4. CASE Cancel \/ \E n \in Ns : AddIface(n)
  BY <1>4 DEF Cancel, AddIface, env, kernel
<1> QED BY <1>1, <1>2, <1>3, <1>4

(* Every step preserves the shape of what watcher and consumer hold. *)
LEMMA NextShape ==
  ASSUME Shape, Grounded, [Next]_vars PROVE Shape' /\ Grounded'
<1> USE RootAssumption, NoneAssumption
<1> DEFINE EnvKept == UNCHANGED <<at, ino, used>>
           WatcherKept == UNCHANGED <<wpc, todo, seen, known, ev>>
           ConsumerKept == UNCHANGED <<cpc, cev, attached, told>>
<1>1. ASSUME \/ \E n \in Ns, p \in Paths :
                  Join(n, p) \/ \E i \in Inodes : Create(n, p, i)
             \/ \E p \in Paths : Exit(p)
             \/ \E n \in Ns : AddIface(n)
             \/ Cancel
      PROVE  Shape' /\ Grounded'
  <2>1. WatcherKept /\ ConsumerKept /\ ch' = ch
    BY <1>1, EnvironmentStep DEF watcher, consumer
  <2> DEFINE Placed == /\ at' \in [Paths -> Ns \cup {NoNs}]
                       /\ ino' \in [Ns -> Inodes \cup {NoInode}]
                       /\ Grounded'
  <2>2. Placed
    <3>1. ASSUME NEW n \in Ns, NEW p \in Paths, NEW i \in Inodes,
                 Comes(n, p), ino[n] = NoInode, ino' = [ino EXCEPT ![n] = i]
          PROVE  Placed
      BY <3>1 DEF Shape, Grounded, Comes, Free
    <3>2. ASSUME NEW n \in Ns, NEW p \in Paths, Comes(n, p),
                 ino[n] # NoInode, ino' = ino
          PROVE  Placed
      BY <3>2 DEF Shape, Grounded, Comes, Free
    <3>3. ASSUME NEW p \in Paths \ {RootPath}, at' = [at EXCEPT ![p] = NoNs],
                 UNCHANGED <<ino, used>>
          PROVE  Placed
      BY <3>3 DEF Shape, Grounded
    <3>4. CASE UNCHANGED <<at, ino, used>>
      BY <3>4 DEF Shape, Grounded
    <3> QED BY <1>1, <3>1, <3>2, <3>3, <3>4, EnvironmentStep
  <2> QED BY <2>1, <2>2 DEF Shape, InodePaths
<1>2. ASSUME EnvKept, ConsumerKept,
             /\ wpc' \in WatcherAt /\ todo' \subseteq Paths
             /\ InodePaths(seen') /\ InodePaths(known')
             /\ wpc' = "send" => ev' \in Events
             /\ ch' \in Seq(Events)
      PROVE  Shape' /\ Grounded'
  BY <1>2 DEF Shape, Grounded, InodePaths
<1>3. CASE \/ EnumStart \/ EnumFails \/ EnumNames \/ EnumNamesFails \/ EnumDone
           \/ DiffDone \/ Send \/ WatcherStops
  <2>1. EnvKept /\ ConsumerKept /\ known' = known
    BY <1>3 DEF EnumStart, EnumFails, EnumNames, EnumNamesFails, EnumDone,
                DiffDone, Send, WatcherStops, env, kernel, consumer, watcher
  <2>2. /\ wpc' \in WatcherAt \ {"send"}
        /\ todo' = todo \/ todo' \subseteq Paths
        /\ seen' = seen \/ seen' = <<>>
    BY <1>3 DEF EnumStart, EnumFails, EnumNames, EnumNamesFails, EnumDone,
                DiffDone, Send, WatcherStops, watcher, WatcherAt, Present
  <2>3. ch' \in Seq(Events)
    <3>1. ch' = ch \/ (wpc = "send" /\ ch' = Append(ch, ev))
      BY <1>3 DEF EnumStart, EnumFails, EnumNames, EnumNamesFails, EnumDone,
                  DiffDone, Send, WatcherStops
    <3> QED BY <3>1 DEF Shape
  <2>4. InodePaths(<<>>)
    BY DEF InodePaths
  <2> QED BY <1>2, <2>1, <2>2, <2>3, <2>4 DEF Shape
<1>4. ASSUME NEW p \in Paths, EnumPath(p) PROVE Shape' /\ Grounded'
  <2>1. EnvKept /\ ConsumerKept /\ UNCHANGED <<wpc, known, ev, ch>>
        /\ todo' \subseteq Paths
    BY <1>4 DEF EnumPath, env, kernel, consumer, Shape
  <2>2. InodePaths(seen')
    <3>1. \/ seen' = seen
          \/ at[p] # NoNs /\ seen' = Put(seen, ino[at[p]], p)
      BY <1>4 DEF EnumPath
    <3>2. at[p] # NoNs => ino[at[p]] \in Inodes
      BY DEF Shape, Grounded
    <3> QED BY <3>1, <3>2 DEF Shape, InodePaths, Put
  <2> QED BY <1>2, <2>1, <2>2 DEF Shape
<1>10. ASSUME NEW p \in Paths, EnumSkips(p) PROVE Shape' /\ Grounded'
  <2>1. EnvKept /\ ConsumerKept /\ UNCHANGED <<wpc, seen, known, ev, ch>>
        /\ todo' \subseteq Paths
    BY <1>10 DEF EnumSkips, kernel, consumer, Shape
  <2> QED BY <1>2, <2>1 DEF Shape
<1>5. ASSUME NEW i \in Inodes, EmitAdded(i) \/ EmitRemoved(i)
      PROVE  Shape' /\ Grounded'
  <2>1. /\ EnvKept /\ ConsumerKept /\ UNCHANGED <<todo, seen, ch>>
        /\ wpc' = "send"
    BY <1>5 DEF EmitAdded, EmitRemoved, Emit, env, kernel, consumer
  <2>2. InodePaths(known') /\ ev' \in Events
    <3>1. CASE EmitAdded(i)
      BY <3>1 DEF EmitAdded, Emit, Put, Events, Shape, InodePaths
    <3>2. CASE EmitRemoved(i)
      BY <3>2 DEF EmitRemoved, Emit, Without, Events, Shape, InodePaths
    <3> QED BY <1>5, <3>1, <3>2
  <2> QED BY <1>2, <2>1, <2>2 DEF Shape, WatcherAt
<1>6. ASSUME EnvKept, WatcherKept, cpc' \in ConsumerAt, ch' \in Seq(Events),
             cpc' \in Attaching => cev' \in Events,
             attached' \subseteq Inodes, told' \subseteq Inodes
      PROVE  Shape' /\ Grounded'
  BY <1>6 DEF Shape, Grounded, InodePaths
<1>7. CASE Receive
  <2>1. Head(ch) \in Events /\ Tail(ch) \in Seq(Events)
    BY <1>7 DEF Receive, Shape
  <2>2. EnvKept /\ WatcherKept
    BY <1>7 DEF Receive, env, kernel, watcher
  <2>3. /\ ch' = Tail(ch) /\ cev' = Head(ch) /\ cpc' \in {"wait", "enter"}
        /\ attached' \subseteq Inodes /\ told' \subseteq Inodes
    BY <1>7, <2>1 DEF Receive, Shape, Events
  <2> QED BY <1>6, <2>1, <2>2, <2>3 DEF ConsumerAt, Attaching
<1>8. CASE Enter \/ AttachIngress \/ AttachEgress \/ AttachFails \/ ConsumerStops
  <2>1. EnvKept /\ WatcherKept /\ ch' = ch /\ cev' = cev /\ told' = told
    BY <1>8 DEF Enter, AttachIngress, AttachEgress, AttachFails, ConsumerStops,
                env, kernel, watcher, Leave
  <2>2. cpc' \in ConsumerAt /\ (cpc' \in Attaching => cpc \in Attaching)
    BY <1>8 DEF Enter, AttachIngress, AttachEgress, AttachFails, ConsumerStops,
                Leave, ConsumerAt, Attaching, Directions
  <2>3. attached' = attached
        \/ (cpc \in Attaching /\ attached' = attached \cup {cev.ino})
    BY <1>8 DEF Enter, AttachIngress, AttachEgress, AttachFails, ConsumerStops,
                Attaching, Directions
  <2> QED BY <1>6, <2>1, <2>2, <2>3 DEF Shape, Events
<1>9. CASE UNCHANGED vars
  BY <1>9 DEF vars, env, kernel, watcher, consumer, Shape, Grounded, InodePaths
<1> QED BY <1>1, <1>3, <1>4, <1>5, <1>7, <1>8, <1>9, <1>10
        DEF Next, Watches, Attaches
-----------------------------------------------------------------------------
(* The queue of events, the one about to be sent included, is consistent.   *)
LEMMA NextReplay ==
  ASSUME Shape, EventsReplay, [Next]_vars PROVE EventsReplay'
<1> DEFINE fold(S, q) == FoldLeft(Replay, S, q)
<1> USE DEF EventsReplay
<1>1. ASSUME UNCHANGED <<told, known, ch>>, wpc' # "returned" => wpc # "returned",
             wpc # "send", wpc' # "send"
      PROVE  EventsReplay'
  BY <1>1 DEF InFlight
<1>2. ASSUME UNCHANGED <<told, known, ch, wpc, ev>> PROVE EventsReplay'
  BY <1>2 DEF InFlight
<1>3. CASE \/ EnumStart \/ EnumFails \/ EnumNames \/ EnumNamesFails \/ EnumDone
           \/ DiffDone
  BY <1>1, <1>3 DEF EnumStart, EnumFails, EnumNames, EnumNamesFails, EnumDone,
                    DiffDone, watcher, consumer
<1>4. CASE \E p \in Paths : EnumPath(p) \/ EnumSkips(p)
  BY <1>2, <1>4 DEF EnumPath, EnumSkips, consumer
<1>5. ASSUME NEW i \in Inodes, EmitAdded(i) \/ EmitRemoved(i)
      PROVE  EventsReplay'
  <2>1. /\ wpc = "diff" /\ wpc' = "send" /\ UNCHANGED <<told, ch>>
        /\ \/ /\ ev' = [type |-> "added", ino |-> i, path |-> seen[i]]
              /\ i \in DOMAIN seen /\ DOMAIN known' = DOMAIN known \cup {i}
           \/ /\ ev' = [type |-> "removed", ino |-> i, path |-> known[i]]
              /\ i \in DOMAIN known /\ DOMAIN known' = DOMAIN known \ {i}
    BY <1>5 DEF EmitAdded, EmitRemoved, Emit, Put, Without, consumer
  <2> DEFINE e == ev'
  <2>2. e \in Events /\ Replay(DOMAIN known, e) = DOMAIN known'
    <3>1. CASE /\ e = [type |-> "added", ino |-> i, path |-> seen[i]]
               /\ i \in DOMAIN seen /\ DOMAIN known' = DOMAIN known \cup {i}
      <4>1. seen[i] \in Paths /\ e.type = "added" /\ e.ino = i
        BY <3>1 DEF Shape, InodePaths
      <4>2. e \in Events
        BY <3>1, <4>1 DEF Events
      <4> HIDE DEF e
      <4> QED BY <3>1, <4>1, <4>2 DEF Replay
    <3>2. CASE /\ e = [type |-> "removed", ino |-> i, path |-> known[i]]
               /\ i \in DOMAIN known /\ DOMAIN known' = DOMAIN known \ {i}
      <4>1. known[i] \in Paths /\ e.type = "removed" /\ e.ino = i
        BY <3>2 DEF Shape, InodePaths
      <4>2. e \in Events
        BY <3>2, <4>1 DEF Events
      <4> HIDE DEF e
      <4> QED BY <3>2, <4>1, <4>2 DEF Replay
    <3> QED BY <2>1, <3>1, <3>2
  <2> HIDE DEF e
  <2>3. fold(told, ch) = DOMAIN known
    BY <2>1 DEF InFlight
  <2>4. fold(told, Append(ch, e)) = Replay(fold(told, ch), e)
    <3>1. told \in SUBSET Inodes /\ ch \in Seq(Events)
      BY DEF Shape
    <3> QED BY <2>2, <3>1, ReplayAppend
  <2>5. InFlight' = Append(ch, e) /\ told' = told
    BY <2>1 DEF InFlight, e
  <2> QED BY <2>1, <2>2, <2>3, <2>4, <2>5
<1>6. CASE Send
  BY <1>6 DEF Send, InFlight, watcher, consumer
<1>7. CASE WatcherStops
  BY <1>7 DEF WatcherStops
<1>8. CASE Receive
  <2>1. /\ ch # <<>> /\ ch' = Tail(ch) /\ UNCHANGED <<wpc, ev, known>>
        /\ told' = Replay(told, Head(ch))
    BY <1>8 DEF Receive, watcher, Replay
  <2>2. /\ ch \in Seq(Events) /\ Tail(ch) \in Seq(Events)
        /\ told \in SUBSET Inodes
    BY <2>1 DEF Shape
  <2>3. fold(told, ch) = fold(told', Tail(ch)) /\ told' \in SUBSET Inodes
    BY <2>1, <2>2, ReplayHead
  <2>4. CASE wpc = "send"
    <3>1. ev \in Events
      BY <2>4 DEF Shape
    <3>2. /\ fold(told, Append(ch, ev)) = Replay(fold(told, ch), ev)
          /\ fold(told', Append(Tail(ch), ev)) = Replay(fold(told', Tail(ch)), ev)
      BY <2>2, <2>3, <3>1, ReplayAppend
    <3> QED BY <2>1, <2>3, <2>4, <3>2 DEF InFlight
  <2>5. CASE wpc # "send"
    BY <2>1, <2>3, <2>5 DEF InFlight
  <2> QED BY <2>4, <2>5
<1>9. CASE Attaches \/ ConsumerStops
  BY <1>2, <1>9 DEF Attaches, Enter, AttachIngress, AttachEgress, AttachFails,
                    ConsumerStops, watcher
<1>10. CASE UNCHANGED vars
  BY <1>2, <1>10 DEF vars, watcher, consumer
<1>11. ASSUME \/ \E n \in Ns, p \in Paths :
                   Join(n, p) \/ \E i \in Inodes : Create(n, p, i)
              \/ \E p \in Paths : Exit(p)
              \/ \E n \in Ns : AddIface(n)
              \/ Cancel
      PROVE  EventsReplay'
  <2>1. UNCHANGED <<wpc, watcher, ch, consumer>>
    BY <1>11 DEF Join, Create, Exit, AddIface, Cancel
  <2> QED BY <1>2, <2>1 DEF watcher, consumer
<1> QED BY <1>3, <1>4, <1>5, <1>6, <1>7, <1>8, <1>9, <1>10, <1>11
        DEF Next, Watches

(* What the consumer has been told, with the events on their way, is what   *)
(* the watcher knows, for any capacity of the channel and however long a    *)
(* send blocks.                                                             *)
THEOREM EventsReplayed == Spec => []EventsReplay
<1>1. Init => EventsReplay
  <2> SUFFICES ASSUME Init PROVE EventsReplay
    OBVIOUS
  <2>1. InFlight = <<>> /\ DOMAIN known = {} /\ told = {}
    BY DEF Init, InFlight
  <2> QED BY <2>1, ReplayEmpty DEF EventsReplay
<1> QED BY <1>1, InitShape, NextShape, NextReplay, PTL DEF Spec
-----------------------------------------------------------------------------
(* The numbers of the namespaces that were ever made.                       *)
Numbers == {i \in Inodes : \E n \in Ns : ino[n] = i}
Numeral == {e \in Events : e.ino \in Numbers}

(* While no number is used again, each is one namespace's, and what the     *)
(* watcher and the consumer have are such numbers.                          *)
Unique ==
  "reuse_inode" \notin may =>
    \A m, n \in Ns : ino[m] = ino[n] /\ ino[m] # NoInode => m = n
Numbered ==
  /\ DOMAIN seen \subseteq Numbers /\ DOMAIN known \subseteq Numbers
  /\ wpc = "send" => ev \in Numeral
  /\ ch \in Seq(Numeral)
  /\ cpc \in Attaching => cev \in Numeral
  /\ attached \subseteq Numbers

(* The initial states: there is the root namespace, and no event. *)
LEMMA InitNumbered == Init => Unique /\ Numbered
<1> SUFFICES ASSUME Init PROVE Unique /\ Numbered
  OBVIOUS
<1> USE RootAssumption, NoneAssumption
<1>1. ino[Root] = RootInode /\ \A n \in Ns \ {Root} : ino[n] = NoInode
  BY DEF Init
<1>2. Unique
  BY <1>1 DEF Unique
<1>3. Numbered
  <2>1. <<>> \in Seq(Numeral) /\ DOMAIN <<>> = {}
    OBVIOUS
  <2>2. ino[Root] \in Numbers
    BY <1>1 DEF Numbers
  <2> QED BY <2>1, <2>2 DEF Init, Numbered, Attaching, Directions
<1> QED BY <1>2, <1>3

(* A number once given stays one, whoever goes.                             *)
LEMMA NumbersStay ==
  ASSUME Shape, Grounded, [Next]_vars
  PROVE  /\ Numbers \subseteq Numbers' /\ Numeral \subseteq Numeral'
         /\ may' = may
         /\ Unique => Unique'
<1> USE RootAssumption, NoneAssumption
<1>1. CASE ino' = ino /\ may' = may
  BY <1>1 DEF Numbers, Numeral, Unique
<1>2. ASSUME NEW n \in Ns, NEW i \in Inodes, ino[n] = NoInode, InodeFree(i),
             ino' = [ino EXCEPT ![n] = i], may' = may
      PROVE  /\ Numbers \subseteq Numbers' /\ Numeral \subseteq Numeral'
             /\ Unique => Unique'
  <2>1. ino'[n] = i /\ \A m \in Ns \ {n} : ino'[m] = ino[m]
    BY <1>2 DEF Shape
  <2>2. Numbers \subseteq Numbers'
    BY <1>2, <2>1 DEF Numbers
  <2>3. "reuse_inode" \notin may => \A m \in Ns : ino[m] # i
    BY <1>2 DEF InodeFree
  <2>4. Unique => Unique'
    BY <1>2, <2>1, <2>3 DEF Unique
  <2> QED BY <2>2, <2>4 DEF Numeral
<1>3. CASE \/ \E n \in Ns, p \in Paths :
                Join(n, p) \/ \E i \in Inodes : Create(n, p, i)
           \/ \E p \in Paths : Exit(p)
           \/ \E n \in Ns : AddIface(n)
           \/ Cancel
  BY <1>1, <1>2, <1>3, EnvironmentStep
<1>4. CASE \/ Watches \/ EnumFails \/ EnumNamesFails \/ WatcherStops
           \/ \E p \in Paths : EnumSkips(p)
           \/ Receive \/ Attaches \/ ConsumerStops \/ UNCHANGED vars
  <2>1. ino' = ino /\ may' = may
    BY <1>4 DEF Watches, EnumFails, EnumNamesFails, EnumSkips, WatcherStops,
                Receive, Attaches, ConsumerStops, EnumStart, EnumNames,
                EnumDone, DiffDone, Send, EnumPath, EmitAdded, EmitRemoved,
                Emit, Enter, AttachIngress, AttachEgress, AttachFails, vars,
                env, kernel
  <2> QED BY <1>1, <2>1
<1> QED BY <1>3, <1>4 DEF Next

(* Every step preserves the numbering of namespaces that live. *)
LEMMA NextNumbered ==
  ASSUME Shape, Grounded, Numbered, [Next]_vars PROVE Numbered'
<1> USE RootAssumption, NoneAssumption
<1>1. Numbers \subseteq Numbers' /\ Numeral \subseteq Numeral'
  BY NumbersStay
<1>2. \A q : q \in Seq(Numeral) => q \in Seq(Numeral')
  BY <1>1, SeqMonotonic
<1>3. ASSUME UNCHANGED <<seen, known, ch, cev, attached>>,
             wpc' = "send" => wpc = "send" /\ ev' = ev,
             cpc' \in Attaching => cpc \in Attaching
      PROVE  Numbered'
  BY <1>1, <1>2, <1>3 DEF Numbered
<1>4. ASSUME \/ \E n \in Ns, p \in Paths :
                  Join(n, p) \/ \E i \in Inodes : Create(n, p, i)
             \/ \E p \in Paths : Exit(p)
             \/ \E n \in Ns : AddIface(n)
             \/ Cancel
      PROVE  Numbered'
  BY <1>3, <1>4, EnvironmentStep DEF watcher, consumer
<1>5. CASE \/ EnumFails \/ EnumNames \/ EnumNamesFails \/ EnumDone \/ DiffDone
           \/ WatcherStops \/ UNCHANGED vars \/ \E p \in Paths : EnumSkips(p)
  BY <1>3, <1>5 DEF EnumFails, EnumNames, EnumNamesFails, EnumSkips, EnumDone,
                    DiffDone, WatcherStops, vars, watcher, consumer
<1>6. CASE EnumStart
  <2>1. /\ seen' = <<>> /\ wpc' = "enum"
        /\ UNCHANGED <<known, ch, cpc, cev, attached>>
    BY <1>6 DEF EnumStart, consumer
  <2> QED BY <1>1, <1>2, <2>1 DEF Numbered
<1>7. ASSUME NEW p \in Paths, EnumPath(p) PROVE Numbered'
  <2>1. UNCHANGED <<wpc, known, ev, ch, cpc, cev, attached>>
    BY <1>7 DEF EnumPath, consumer
  <2>2. DOMAIN seen' \subseteq Numbers
    <3>1. \/ seen' = seen
          \/ at[p] # NoNs /\ seen' = Put(seen, ino[at[p]], p)
      BY <1>7 DEF EnumPath
    <3>2. at[p] # NoNs => ino[at[p]] \in Numbers
      BY DEF Shape, Grounded, Numbers
    <3> QED BY <3>1, <3>2 DEF Numbered, Put
  <2> QED BY <1>1, <1>2, <2>1, <2>2 DEF Numbered
<1>8. ASSUME NEW i \in Inodes, EmitAdded(i) \/ EmitRemoved(i)
      PROVE  Numbered'
  <2>1. /\ UNCHANGED <<seen, ch, cpc, cev, attached>> /\ ev'.ino = i
        /\ i \in Numbers /\ DOMAIN known' \subseteq Numbers
    BY <1>8 DEF EmitAdded, EmitRemoved, Emit, Put, Without, consumer, Numbered
  <2>2. ev' \in Events
    <3>1. Shape' /\ wpc' = "send"
      BY <1>8, NextShape DEF EmitAdded, EmitRemoved, Emit
    <3> QED BY <3>1 DEF Shape
  <2>3. ev' \in Numeral
    BY <2>1, <2>2 DEF Numeral
  <2> QED BY <1>1, <1>2, <2>1, <2>3 DEF Numbered
<1>9. CASE Send
  <2>1. /\ UNCHANGED <<seen, known, ev, cpc, cev, attached>>
        /\ wpc = "send" /\ wpc' = "diff" /\ ch' = Append(ch, ev)
    BY <1>9 DEF Send, watcher, consumer
  <2>2. ch' \in Seq(Numeral)
    BY <2>1 DEF Numbered
  <2> QED BY <1>1, <1>2, <2>1, <2>2 DEF Numbered
<1>10. CASE Receive
  <2>1. /\ UNCHANGED <<seen, known, ev, wpc>>
        /\ ch # <<>> /\ ch' = Tail(ch) /\ cev' = Head(ch)
        /\ attached' \subseteq attached
    BY <1>10 DEF Receive, watcher
  <2>2. ch' \in Seq(Numeral) /\ cev' \in Numeral
    BY <2>1 DEF Numbered
  <2> QED BY <1>1, <1>2, <2>1, <2>2 DEF Numbered
<1>11. CASE Attaches \/ ConsumerStops
  <2>1. UNCHANGED <<seen, known, ev, wpc, ch, cev>>
    BY <1>11 DEF Attaches, Enter, AttachIngress, AttachEgress, AttachFails,
                 ConsumerStops, watcher
  <2>2. /\ cpc' \in Attaching => cpc \in Attaching
        /\ \/ attached' = attached
           \/ cpc \in Attaching /\ attached' = attached \cup {cev.ino}
    BY <1>11 DEF Attaches, Enter, AttachIngress, AttachEgress, AttachFails,
                 ConsumerStops, Leave, Attaching, Directions
  <2>3. attached' \subseteq Numbers
    BY <2>2 DEF Numbered, Numeral
  <2> QED BY <1>1, <1>2, <2>1, <2>2, <2>3 DEF Numbered
<1> QED BY <1>4, <1>5, <1>6, <1>7, <1>8, <1>9, <1>10, <1>11
        DEF Next, Watches

-----------------------------------------------------------------------------
(* The paths the walk has still to look at, the names that it will list     *)
(* included.                                                                *)
Ahead == todo \cup (IF wpc = "enum" THEN Names ELSE {})

(* Of the paths that have led to one namespace all along, the walk has seen *)
(* the number of each that is not ahead; what is reported removed it has    *)
(* not seen.                                                                *)
Walked ==
  /\ steady \subseteq Present
  /\ wpc \in {"diff", "send"} => todo = {}
  /\ wpc \in {"enum", "names", "diff", "send"} =>
       \A p \in steady : p \in Ahead \/ ino[at[p]] \in DOMAIN seen
  /\ wpc = "send" /\ ev.type = "removed" => ev.ino \notin DOMAIN seen

(* No step but the start of a walk makes a path steady, and where a steady  *)
(* path leads does not change.                                              *)
LEMMA SteadyStay ==
  ASSUME Shape, Grounded, steady \subseteq Present, [Next]_vars, ~EnumStart
  PROVE  /\ steady' \subseteq steady
         /\ \A p \in steady' : at'[p] = at[p] /\ ino'[at'[p]] = ino[at[p]]
<1> USE RootAssumption, NoneAssumption
<1> DEFINE Same(p) == at'[p] = at[p] /\ ino'[at'[p]] = ino[at[p]]
<1>0. \A p \in steady : p \in Paths /\ at[p] \in Ns /\ ino[at[p]] # NoInode
  BY DEF Present, Shape, Grounded
<1>1. ASSUME NEW n \in Ns, NEW p \in Paths, NEW i \in Inodes, Create(n, p, i)
      PROVE  steady' = steady /\ \A r \in steady : Same(r)
  <2>1. /\ steady' = steady /\ at[p] = NoNs /\ ino[n] = NoInode
        /\ at' = [at EXCEPT ![p] = n] /\ ino' = [ino EXCEPT ![n] = i]
    BY <1>1 DEF Create, Free
  <2>2. ASSUME NEW r \in steady PROVE Same(r)
    <3>1. r # p /\ at[r] # n
      BY <1>0, <2>1
    <3> QED BY <1>0, <2>1, <3>1 DEF Shape
  <2> QED BY <2>1, <2>2
<1>2. ASSUME NEW n \in Ns, NEW p \in Paths, Join(n, p)
      PROVE  steady' = steady /\ \A r \in steady : Same(r)
  <2>1. /\ steady' = steady /\ at[p] = NoNs /\ ino' = ino
        /\ at' = [at EXCEPT ![p] = n]
    BY <1>2 DEF Join, Free
  <2>2. ASSUME NEW r \in steady PROVE Same(r)
    <3>1. r # p
      BY <1>0, <2>1
    <3> QED BY <1>0, <2>1, <3>1 DEF Shape
  <2> QED BY <2>1, <2>2
<1>3. ASSUME NEW p \in Paths, Exit(p)
      PROVE  steady' \subseteq steady /\ \A r \in steady' : Same(r)
  <2>1. /\ steady' = steady \ {p} /\ ino' = ino
        /\ at' = [at EXCEPT ![p] = NoNs]
    BY <1>3 DEF Exit
  <2> QED BY <1>0, <2>1 DEF Shape
<1>4. CASE \/ \E n \in Ns : AddIface(n)
           \/ Cancel \/ EnumFails \/ EnumNames \/ EnumNamesFails \/ EnumDone
           \/ DiffDone \/ Send \/ WatcherStops \/ UNCHANGED vars
           \/ \E p \in Paths : EnumPath(p) \/ EnumSkips(p)
           \/ \E i \in Inodes : EmitAdded(i) \/ EmitRemoved(i)
           \/ Receive \/ Attaches \/ ConsumerStops
  <2>1. UNCHANGED <<at, ino>> /\ steady' \subseteq steady
    BY <1>4 DEF AddIface, Cancel, EnumFails, EnumNames, EnumNamesFails,
                EnumDone, DiffDone, Send, WatcherStops, vars, EnumPath,
                EnumSkips, EmitAdded, EmitRemoved, Emit, Receive, Attaches,
                Enter, AttachIngress, AttachEgress, AttachFails, ConsumerStops,
                env, kernel
  <2> QED BY <2>1
<1> QED BY <1>1, <1>2, <1>3, <1>4 DEF Next, Watches

(* The walk passes no steady path without having seen its number. *)
LEMMA NextWalked ==
  ASSUME Shape, Grounded, Walked, [Next]_vars PROVE Walked'
<1> USE RootAssumption, NoneAssumption
<1> DEFINE Walking == {"enum", "names", "diff", "send"}
<1>0. CASE EnumStart
  BY <1>0 DEF EnumStart, Walked, Ahead, Present, kernel
<1> SUFFICES ASSUME ~EnumStart PROVE Walked'
  BY <1>0
<1>1. /\ steady' \subseteq steady /\ steady' \subseteq Present'
      /\ \A p \in steady' : at'[p] = at[p] /\ ino'[at'[p]] = ino[at[p]]
  <2>1. /\ steady' \subseteq steady
        /\ \A p \in steady' : at'[p] = at[p] /\ ino'[at'[p]] = ino[at[p]]
    BY SteadyStay DEF Walked
  <2> QED BY <2>1 DEF Walked, Present
<1>2. ASSUME wpc' \in {"diff", "send"} => todo' = {},
             wpc' \in Walking =>
               /\ wpc \in Walking /\ DOMAIN seen \subseteq DOMAIN seen'
               /\ \A p \in steady' : p \in Ahead =>
                     p \in Ahead' \/ ino[at[p]] \in DOMAIN seen',
             wpc' = "send" /\ ev'.type = "removed" => ev'.ino \notin DOMAIN seen'
      PROVE  Walked'
  BY <1>1, <1>2 DEF Walked
<1>3. ASSUME UNCHANGED <<wpc, todo, seen, ev>> PROVE Walked'
  BY <1>2, <1>3 DEF Walked, Ahead
<1>4. CASE \/ \E n \in Ns, p \in Paths :
                Join(n, p) \/ \E i \in Inodes : Create(n, p, i)
           \/ \E p \in Paths : Exit(p)
           \/ \E n \in Ns : AddIface(n)
           \/ Cancel
  BY <1>3, <1>4, EnvironmentStep DEF watcher
<1>5. CASE Receive \/ Attaches \/ ConsumerStops \/ UNCHANGED vars
  <2>1. UNCHANGED <<wpc, todo, seen, ev>>
    BY <1>5 DEF Receive, Attaches, Enter, AttachIngress, AttachEgress,
                AttachFails, ConsumerStops, vars, watcher
  <2> QED BY <1>3, <2>1
<1>6. CASE EnumFails \/ DiffDone \/ WatcherStops
  BY <1>2, <1>6 DEF EnumFails, DiffDone, WatcherStops
<1>7. CASE EnumNames
  <2>1. /\ wpc = "enum" /\ todo = {} /\ wpc' = "names" /\ UNCHANGED <<seen, ev>>
        /\ todo' = Present \cap Names
    BY <1>7 DEF EnumNames
  <2> QED BY <1>1, <1>2, <2>1 DEF Walked, Ahead
<1>8. CASE EnumNamesFails
  <2>1. /\ wpc = "enum" /\ todo = {} /\ wpc' = "diff"
        /\ UNCHANGED <<todo, seen, ev>> /\ steady' = steady \ Names
    BY <1>8 DEF EnumNamesFails, watcher
  <2> QED BY <1>2, <2>1 DEF Ahead
<1>9. CASE EnumDone
  <2>1. /\ wpc = "names" /\ todo = {} /\ wpc' = "diff"
        /\ UNCHANGED <<todo, seen, ev>>
    BY <1>9 DEF EnumDone, watcher
  <2> QED BY <1>2, <2>1 DEF Ahead
<1>10. CASE Send
  <2>1. /\ wpc = "send" /\ wpc' = "diff" /\ UNCHANGED <<todo, seen, ev>>
    BY <1>10 DEF Send, watcher
  <2> QED BY <1>2, <2>1 DEF Walked, Ahead
<1>11. ASSUME NEW p \in Paths, EnumPath(p) PROVE Walked'
  <2>1. /\ wpc \in {"enum", "names"} /\ UNCHANGED <<wpc, ev, steady>>
        /\ todo' = todo \ {p}
    BY <1>11 DEF EnumPath, env
  <2>2. /\ DOMAIN seen \subseteq DOMAIN seen'
        /\ at[p] # NoNs => ino[at[p]] \in DOMAIN seen'
    BY <1>11 DEF EnumPath, Put
  <2>3. p \in steady => at[p] # NoNs
    BY DEF Walked, Present
  <2> QED BY <1>2, <2>1, <2>2, <2>3 DEF Ahead
<1>12. ASSUME NEW p \in Paths, EnumSkips(p) PROVE Walked'
  <2>1. /\ wpc \in {"enum", "names"} /\ UNCHANGED <<wpc, seen, ev>>
        /\ todo' = todo \ {p} /\ steady' = steady \ {p}
    BY <1>12 DEF EnumSkips
  <2> QED BY <1>2, <2>1 DEF Ahead
<1>13. ASSUME NEW i \in Inodes, EmitAdded(i) \/ EmitRemoved(i) PROVE Walked'
  <2>1. /\ wpc = "diff" /\ wpc' = "send" /\ UNCHANGED <<todo, seen>>
        /\ ev'.type = "removed" => ev'.ino \notin DOMAIN seen
    BY <1>13 DEF EmitAdded, EmitRemoved, Emit
  <2> QED BY <1>2, <2>1 DEF Walked, Ahead
<1> QED BY <1>4, <1>5, <1>6, <1>7, <1>8, <1>9, <1>10, <1>11, <1>12, <1>13
        DEF Next, Watches

(* No namespace is reported removed, nor waits to be, that a path has led   *)
(* to all through the walk and until now and that was not refused to be     *)
(* read, whatever else comes, goes and fails and whichever paths and        *)
(* numbers are used again.                                                  *)
THEOREM SteadyAreNotRemoved == Spec => []SteadyNotRemoved
<1>1. Init => Walked
  BY DEF Init, Walked, Present
<1>2. Shape /\ Walked => SteadyNotRemoved
  BY DEF Walked, SteadyNotRemoved, Ahead
<1> QED BY <1>1, <1>2, InitShape, NextShape, NextWalked, PTL DEF Spec
-----------------------------------------------------------------------------
(* A path leads, if anywhere, to the namespace with the number it was seen  *)
(* with, as long as no process id is used again.                            *)
Leads(p, i) == p \in used /\ (at[p] # NoNs => ino[at[p]] = i)
AllLead(f) == \A i \in DOMAIN f : Leads(f[i], i)
Leading == {e \in Events : Leads(e.path, e.ino)}
Led ==
  "reuse_path" \notin may =>
    /\ AllLead(seen) /\ AllLead(known)
    /\ wpc = "send" => ev \in Leading
    /\ ch \in Seq(Leading)
    /\ cpc \in Attaching => cev \in Leading

(* The consumer's thread is in the namespace of its event, with the first   *)
(* program attached when it goes about the second.                          *)
Inside ==
  /\ inside \in Ns \cup {NoNs} /\ (cpc \in Directions <=> inside # NoNs)
  /\ inside # NoNs => ino[inside] # NoInode
  /\ cpc = "egress" => <<inside, "ingress">> \in tcx
  /\ "reuse_path" \notin may /\ inside # NoNs => ino[inside] = cev.ino

(* The initial states: nothing was seen, and no thread is in a namespace. *)
LEMMA InitLed == Init => Led /\ Inside /\ MarkedIsAttached
<1> SUFFICES ASSUME Init PROVE Led /\ Inside /\ MarkedIsAttached
  OBVIOUS
<1> USE RootAssumption, NoneAssumption
<1>1. Led
  <2>1. <<>> \in Seq(Leading) /\ DOMAIN <<>> = {}
    OBVIOUS
  <2> QED BY <2>1 DEF Init, Led, AllLead, Attaching, Directions
<1>2. Inside
  BY DEF Init, Inside, Directions
<1>3. MarkedIsAttached
  <2> SUFFICES ASSUME "no_root_iface" \notin may,
                      NEW n \in Ns, Exists(n), ino[n] \in attached
               PROVE  HasPrograms(n)
    BY DEF MarkedIsAttached
  <2>1. iface = {Root} /\ n = Root
    BY DEF Init
  <2> QED BY <2>1 DEF Init, HasPrograms
<1> QED BY <1>1, <1>2, <1>3

(* What leads somewhere goes on doing so.                                   *)
LEMMA LeadsStays ==
  ASSUME Shape, Grounded, "reuse_path" \notin may, [Next]_vars
  PROVE  /\ \A p \in Paths : \A i : Leads(p, i) => Leads(p, i)'
         /\ Leading \subseteq Leading'
<1> USE RootAssumption, NoneAssumption
<1>1. ASSUME NEW p \in Paths, NEW i, Leads(p, i) PROVE Leads(p, i)'
  <2>1. CASE UNCHANGED <<at, ino, used>>
    BY <1>1, <2>1 DEF Leads
  <2>2. ASSUME NEW n \in Ns, NEW r \in Paths, Comes(n, r),
               \/ ino' = ino
               \/ \E j \in Inodes : /\ ino[n] = NoInode
                                    /\ ino' = [ino EXCEPT ![n] = j]
        PROVE  Leads(p, i)'
    <3>1. p # r
      BY <1>1, <2>2 DEF Comes, Free, Leads
    <3>2. at'[p] = at[p] /\ p \in used'
      BY <1>1, <2>2, <3>1 DEF Comes, Leads, Shape
    <3>3. at[p] # NoNs => ino'[at[p]] = ino[at[p]]
      BY <2>2 DEF Shape, Grounded
    <3> QED BY <1>1, <3>2, <3>3 DEF Leads
  <2>3. ASSUME NEW r \in Paths, at' = [at EXCEPT ![r] = NoNs],
               UNCHANGED <<ino, used>>
        PROVE  Leads(p, i)'
    BY <1>1, <2>3 DEF Leads, Shape
  <2>4. CASE \/ \E n \in Ns, r \in Paths :
                  Join(n, r) \/ \E j \in Inodes : Create(n, r, j)
             \/ \E r \in Paths : Exit(r)
             \/ \E n \in Ns : AddIface(n)
             \/ Cancel
    BY <2>1, <2>2, <2>3, <2>4, EnvironmentStep
  <2>5. CASE \/ Watches \/ EnumFails \/ EnumNamesFails \/ WatcherStops
             \/ \E r \in Paths : EnumSkips(r)
             \/ Receive \/ Attaches \/ ConsumerStops \/ UNCHANGED vars
    <3>1. UNCHANGED <<at, ino, used>>
      BY <2>5 DEF Watches, EnumFails, EnumNamesFails, EnumSkips, WatcherStops,
                  Receive, Attaches, ConsumerStops, EnumStart, EnumNames,
                  EnumDone, DiffDone, Send, EnumPath, EmitAdded, EmitRemoved,
                  Emit, Enter, AttachIngress,
                  AttachEgress, AttachFails, vars, env, kernel
    <3> QED BY <2>1, <3>1
  <2> QED BY <2>4, <2>5 DEF Next
<1>2. ASSUME NEW e \in Leading PROVE e \in Leading'
  <2>1. e \in Events /\ e.path \in Paths /\ Leads(e.path, e.ino)
    BY DEF Leading, Events
  <2>2. Leads(e.path, e.ino)'
    BY <1>1, <2>1
  <2> QED BY <2>1, <2>2 DEF Leading
<1> QED BY <1>1, <1>2

(* Every step preserves that a path leads to the namespace it was seen      *)
(* with.                                                                    *)
LEMMA NextLed ==
  ASSUME Shape, Grounded, Led, [Next]_vars PROVE Led'
<1> USE RootAssumption, NoneAssumption
<1> SUFFICES ASSUME "reuse_path" \notin may PROVE Led'
  BY NumbersStay DEF Led
<1>0. /\ AllLead(seen) /\ AllLead(known)
      /\ wpc = "send" => ev \in Leading
      /\ ch \in Seq(Leading)
      /\ cpc \in Attaching => cev \in Leading
      /\ InodePaths(seen) /\ InodePaths(known)
  BY DEF Led, Shape
<1> DEFINE Later(p, i) == p \in used' /\ (at'[p] # NoNs => ino'[at'[p]] = i)
           AllLater(f) == \A i \in DOMAIN f : Later(f[i], i)
<1>1. /\ \A p \in Paths : \A i : Leads(p, i) => Later(p, i)
      /\ Leading \subseteq Leading'
  BY LeadsStays DEF Leads
<1>2. \A q : q \in Seq(Leading) => q \in Seq(Leading')
  BY <1>1, SeqMonotonic
<1>3. AllLater(seen) /\ AllLater(known)
  BY <1>0, <1>1 DEF AllLead, InodePaths
<1>4. ASSUME AllLater(seen'), AllLater(known'),
             wpc' = "send" => ev' \in Leading', ch' \in Seq(Leading'),
             cpc' \in Attaching => cev' \in Leading'
      PROVE  Led'
  BY <1>4 DEF Led, AllLead, Leads
<1> HIDE DEF Later, AllLater
<1>5. ASSUME UNCHANGED <<seen, known, ch, cev>>,
             wpc' = "send" => wpc = "send" /\ ev' = ev,
             cpc' \in Attaching => cpc \in Attaching
      PROVE  Led'
  BY <1>0, <1>1, <1>2, <1>3, <1>4, <1>5
<1>6. CASE \/ \E n \in Ns, p \in Paths :
                Join(n, p) \/ \E i \in Inodes : Create(n, p, i)
           \/ \E p \in Paths : Exit(p)
           \/ \E n \in Ns : AddIface(n)
           \/ Cancel
  BY <1>5, <1>6, EnvironmentStep DEF watcher, consumer
<1>7. CASE \/ EnumFails \/ EnumNames \/ EnumNamesFails \/ EnumDone \/ DiffDone
           \/ WatcherStops \/ UNCHANGED vars \/ \E p \in Paths : EnumSkips(p)
  BY <1>5, <1>7 DEF EnumFails, EnumNames, EnumNamesFails, EnumSkips, EnumDone,
                    DiffDone, WatcherStops, vars, watcher, consumer
<1>8. CASE EnumStart
  <2>1. /\ seen' = <<>> /\ wpc' = "enum" /\ UNCHANGED <<known, ch, cpc, cev>>
    BY <1>8 DEF EnumStart, consumer
  <2>2. AllLater(seen')
    BY <2>1 DEF AllLater
  <2> QED BY <1>0, <1>1, <1>2, <1>3, <1>4, <2>1, <2>2
<1>9. ASSUME NEW p \in Paths, EnumPath(p) PROVE Led'
  <2>1. UNCHANGED <<at, ino, used, wpc, known, ev, ch, cpc, cev>>
    BY <1>9 DEF EnumPath, consumer, env, kernel
  <2>2. AllLater(seen')
    <3>1. \/ seen' = seen
          \/ at[p] # NoNs /\ seen' = Put(seen, ino[at[p]], p)
      BY <1>9 DEF EnumPath
    <3>2. at[p] # NoNs => Later(p, ino[at[p]])
      BY <2>1 DEF Grounded, Later
    <3> QED BY <1>3, <3>1, <3>2 DEF Put, AllLater
  <2> QED BY <1>0, <1>1, <1>2, <1>3, <1>4, <2>1, <2>2
<1>10. ASSUME NEW i \in Inodes, EmitAdded(i) \/ EmitRemoved(i) PROVE Led'
  <2>1. UNCHANGED <<at, ino, used, seen, ch, cpc, cev>>
    BY <1>10 DEF EmitAdded, EmitRemoved, Emit, consumer, env, kernel
  <2>2. /\ AllLater(known') /\ ev'.ino = i
        /\ ev'.path \in Paths /\ Leads(ev'.path, i)
    <3>1. CASE EmitAdded(i)
      <4>1. /\ known' = Put(known, i, seen[i]) /\ i \in DOMAIN seen
            /\ ev' = [type |-> "added", ino |-> i, path |-> seen[i]]
        BY <3>1 DEF EmitAdded, Emit
      <4>2. AllLater(known')
        BY <1>3, <4>1 DEF Put, AllLater
      <4> QED BY <1>0, <4>1, <4>2 DEF AllLead, InodePaths
    <3>2. CASE EmitRemoved(i)
      <4>1. /\ known' = Without(known, i) /\ i \in DOMAIN known
            /\ ev' = [type |-> "removed", ino |-> i, path |-> known[i]]
        BY <3>2 DEF EmitRemoved, Emit
      <4>2. AllLater(known')
        BY <1>3, <4>1 DEF Without, AllLater
      <4> QED BY <1>0, <4>1, <4>2 DEF AllLead, InodePaths
    <3> QED BY <1>10, <3>1, <3>2
  <2>3. ev' \in Events
    <3>1. Shape' /\ wpc' = "send"
      BY <1>10, NextShape DEF EmitAdded, EmitRemoved, Emit
    <3> QED BY <3>1 DEF Shape
  <2>4. ev' \in Leading'
    <3>1. Later(ev'.path, i)
      BY <1>1, <2>2
    <3> QED BY <2>2, <2>3, <3>1 DEF Leading, Leads, Later
  <2> QED BY <1>0, <1>1, <1>2, <1>3, <1>4, <2>1, <2>2, <2>4
<1>11. CASE Send
  <2>1. /\ UNCHANGED <<seen, known, cpc, cev>>
        /\ wpc = "send" /\ wpc' = "diff" /\ ch' = Append(ch, ev)
    BY <1>11 DEF Send, watcher, consumer
  <2>2. ch' \in Seq(Leading)
    BY <1>0, <2>1
  <2> QED BY <1>0, <1>1, <1>2, <1>3, <1>4, <2>1, <2>2
<1>12. CASE Receive
  <2>1. /\ UNCHANGED <<seen, known, ev, wpc>>
        /\ ch # <<>> /\ ch' = Tail(ch) /\ cev' = Head(ch)
    BY <1>12 DEF Receive, watcher
  <2>2. ch' \in Seq(Leading) /\ cev' \in Leading
    BY <1>0, <2>1
  <2> QED BY <1>0, <1>1, <1>2, <1>3, <1>4, <2>1, <2>2
<1>13. CASE Attaches \/ ConsumerStops
  <2>1. UNCHANGED <<seen, known, ev, wpc, ch, cev>>
    BY <1>13 DEF Attaches, Enter, AttachIngress, AttachEgress, AttachFails,
                 ConsumerStops, watcher
  <2>2. cpc' \in Attaching => cpc \in Attaching
    BY <1>13 DEF Attaches, Enter, AttachIngress, AttachEgress, AttachFails,
                 ConsumerStops, Leave, Attaching, Directions
  <2> QED BY <1>5, <2>1, <2>2
<1>14. CASE \E p \in Paths : EnumPath(p)
  BY <1>9, <1>14
<1>15. CASE \E i \in Inodes : EmitAdded(i) \/ EmitRemoved(i)
  BY <1>10, <1>15
<1> QED BY <1>6, <1>7, <1>8, <1>11, <1>12, <1>13, <1>14, <1>15
        DEF Next, Watches

(* Every step preserves where the thread of the consumer is. *)
LEMMA NextInside ==
  ASSUME Shape, Grounded, Led, Inside, [Next]_vars PROVE Inside'
<1> USE RootAssumption, NoneAssumption
<1>1. ASSUME NEW n \in Ns, NEW i \in Inodes, ino[n] = NoInode,
             ino' = [ino EXCEPT ![n] = i], UNCHANGED <<cpc, cev, inside, tcx, may>>
      PROVE  Inside'
  <2>1. inside # NoNs => inside # n /\ ino'[inside] = ino[inside]
    BY <1>1 DEF Inside, Shape
  <2> QED BY <1>1, <2>1 DEF Inside
<1>2. CASE UNCHANGED <<ino, cpc, cev, inside, tcx, may>>
  BY <1>2 DEF Inside
<1>3. CASE \/ \E n \in Ns, p \in Paths :
                Join(n, p) \/ \E i \in Inodes : Create(n, p, i)
           \/ \E p \in Paths : Exit(p)
           \/ \E n \in Ns : AddIface(n)
           \/ Cancel
  <2>1. UNCHANGED <<cpc, cev, inside, may>>
    BY <1>3, EnvironmentStep DEF consumer
  <2>2. ASSUME ino' = ino,
               tcx' = {t \in tcx : HeldIn(at', pinned', t[1]) \/ t[1] = inside}
        PROVE  Inside'
    <3>1. cpc = "egress" => <<inside, "ingress">> \in tcx'
      BY <2>2 DEF Inside
    <3> QED BY <2>1, <2>2, <3>1 DEF Inside
  <2> QED BY <1>1, <1>2, <1>3, <2>1, <2>2, EnvironmentStep DEF Comes
<1>4. CASE \/ Watches \/ EnumFails \/ EnumNamesFails \/ WatcherStops
           \/ UNCHANGED vars \/ \E p \in Paths : EnumSkips(p)
  <2>1. UNCHANGED <<ino, cpc, cev, inside, tcx, may>>
    BY <1>4 DEF Watches, EnumFails, EnumNamesFails, EnumSkips, WatcherStops,
       EnumStart, EnumNames, EnumDone, DiffDone, Send, EnumPath, EmitAdded,
       EmitRemoved, Emit, vars, env, kernel, consumer
  <2> QED BY <1>2, <2>1
<1>5. CASE Receive \/ ConsumerStops
  <2>1. /\ UNCHANGED <<ino, inside, may>> /\ cpc = "wait"
        /\ cpc' \in {"wait", "enter", "returned"}
    BY <1>5 DEF Receive, ConsumerStops, env, kernel
  <2> QED BY <2>1 DEF Inside, Directions
<1>6. CASE Enter
  <2>1. /\ UNCHANGED <<ino, cev, may>> /\ cpc = "enter" /\ cpc' = "ingress"
        /\ inside' = at[cev.path] /\ inside' # NoNs
    BY <1>6 DEF Enter, CanEnter, Target, env, kernel
  <2>2. cev \in Events /\ ("reuse_path" \notin may => cev \in Leading)
    BY <2>1 DEF Shape, Led, Attaching
  <2>3. cev.path \in Paths /\ inside' \in Ns /\ ino[inside'] # NoInode
    BY <2>1, <2>2 DEF Events, Shape, Grounded
  <2>4. "reuse_path" \notin may => ino[inside'] = cev.ino
    BY <2>1, <2>2 DEF Leading, Leads
  <2> QED BY <2>1, <2>3, <2>4 DEF Inside, Directions
<1>7. CASE AttachIngress
  <2>1. /\ UNCHANGED <<ino, cev, inside, may>> /\ cpc = "ingress"
        /\ cpc' = "egress" /\ tcx' = tcx \cup {<<inside, "ingress">>}
    BY <1>7 DEF AttachIngress, env, kernel
  <2> QED BY <2>1 DEF Inside, Directions
<1>8. CASE AttachEgress \/ AttachFails
  <2>1. UNCHANGED <<ino, cev, may>> /\ inside' = NoNs /\ cpc' = "wait"
    BY <1>8 DEF AttachEgress, AttachFails, Leave, env, kernel
  <2> QED BY <2>1 DEF Inside, Directions
<1> QED BY <1>3, <1>4, <1>5, <1>6, <1>7, <1>8 DEF Next, Attaches

(* A mark is made for the namespace the thread is in, which is the one with *)
(* the marked number, and no other namespace gets that number.              *)
LEMMA NextMarked ==
  ASSUME Shape, Grounded, Unique, Numbered, Led, Inside, MarkedIsAttached,
         [Next]_vars
  PROVE  MarkedIsAttached'
<1> USE RootAssumption, NoneAssumption
<1> DEFINE Quiet == may \cap {"reuse_path", "reuse_inode", "pin", "late_iface",
                              "no_root_iface"} = {}
<1> SUFFICES ASSUME Quiet, NEW n \in Ns, Exists(n)', ino'[n] \in attached'
             PROVE  HasPrograms(n)'
  BY NumbersStay DEF MarkedIsAttached
<1>0. \A m \in Ns : Exists(m) /\ ino[m] \in attached => HasPrograms(m)
  BY DEF MarkedIsAttached
<1>1. CASE \/ \E m \in Ns, p \in Paths :
                Join(m, p) \/ \E i \in Inodes : Create(m, p, i)
           \/ \E p \in Paths : Exit(p)
           \/ \E m \in Ns : AddIface(m)
           \/ Cancel
  <2>1. UNCHANGED <<attached, inside>>
    BY <1>1, EnvironmentStep DEF consumer
  <2>2. ASSUME NEW m \in Ns, NEW p \in Paths, NEW i \in Inodes,
               Comes(m, p), ino[m] = NoInode, InodeFree(i),
               ino' = [ino EXCEPT ![m] = i]
        PROVE  HasPrograms(n)'
    <3>1. i \notin attached
      BY <2>2 DEF InodeFree, Numbers, Numbered
    <3>2. n # m
      BY <2>1, <2>2, <3>1 DEF Shape
    <3>3. ino'[n] = ino[n] /\ Exists(n)
      BY <2>1, <2>2, <3>2 DEF Shape, Comes, Exists, Held, HeldIn
    <3> QED BY <1>0, <2>1, <2>2, <3>3 DEF Comes, HasPrograms
  <2>3. ASSUME NEW m \in Ns, NEW p \in Paths, Comes(m, p), Exists(m), ino' = ino
        PROVE  HasPrograms(n)'
    <3>1. Exists(n)
      BY <2>1, <2>3 DEF Shape, Comes, Exists, Held, HeldIn
    <3> QED BY <1>0, <2>1, <2>3, <3>1 DEF Comes, HasPrograms
  <2>4. ASSUME NEW p \in Paths, at' = [at EXCEPT ![p] = NoNs], UNCHANGED ino,
               pinned' = pinned,
               tcx' = {t \in tcx : HeldIn(at', pinned', t[1]) \/ t[1] = inside}
        PROVE  HasPrograms(n)'
    <3>1. Exists(n)
      BY <2>1, <2>4 DEF Shape, Exists, Held, HeldIn
    <3>2. HasPrograms(n)
      BY <1>0, <2>1, <2>4, <3>1
    <3>3. HeldIn(at', pinned', n) \/ n = inside
      BY <2>1 DEF Exists, Held
    <3>4. \A d \in Directions : <<n, d>>[1] = n /\ <<n, d>> \in tcx
      BY <3>2 DEF HasPrograms
    <3> QED BY <2>4, <3>3, <3>4 DEF HasPrograms
  <2>5. CASE UNCHANGED <<at, ino, pinned, tcx>>
    BY <1>0, <2>1, <2>5 DEF Exists, Held, HeldIn, HasPrograms
  <2> QED BY <1>1, <2>2, <2>3, <2>4, <2>5, EnvironmentStep
<1>2. CASE \/ Watches \/ EnumFails \/ EnumNamesFails \/ WatcherStops
           \/ \E p \in Paths : EnumSkips(p)
           \/ Receive \/ ConsumerStops \/ UNCHANGED vars
  <2>1. /\ UNCHANGED <<at, ino, pinned, inside, tcx>>
        /\ attached' \subseteq attached
    BY <1>2 DEF Watches, EnumFails, EnumNamesFails, EnumSkips, WatcherStops,
                EnumStart, EnumNames, EnumDone, DiffDone, Send, EnumPath,
                EmitAdded, EmitRemoved, Emit, Receive,
                ConsumerStops, vars, env, kernel, consumer
  <2> QED BY <1>0, <2>1 DEF Exists, Held, HeldIn, HasPrograms
<1>3. CASE Enter
  <2>1. /\ UNCHANGED <<at, ino, pinned, tcx, attached>> /\ inside' = at[cev.path]
        /\ cpc = "enter"
    BY <1>3 DEF Enter, Target, env, kernel
  <2>2. cev.path \in Paths
    BY <2>1 DEF Shape, Attaching, Events
  <2>3. Exists(n)
    BY <2>1, <2>2 DEF Exists, Held, HeldIn
  <2> QED BY <1>0, <2>1, <2>3 DEF HasPrograms
<1>4. CASE AttachIngress
  <2>1. /\ UNCHANGED <<at, ino, pinned, inside, attached>> /\ tcx \subseteq tcx'
    BY <1>4 DEF AttachIngress, env, kernel
  <2> QED BY <1>0, <2>1 DEF Exists, Held, HeldIn, HasPrograms
<1>5. CASE AttachEgress
  <2>1. /\ UNCHANGED <<at, ino, pinned>> /\ cpc = "egress"
        /\ inside' = NoNs /\ attached' = attached \cup {cev.ino}
        /\ tcx' = {t \in tcx \cup {<<inside, "egress">>} : Held(t[1])}
    BY <1>5 DEF AttachEgress, Leave, env, kernel
  <2>2. Held(n) /\ ino'[n] = ino[n]
    BY <2>1 DEF Exists, Held, HeldIn
  <2>3. CASE n = inside
    <3>1. <<n, "ingress">> \in tcx
      BY <2>1, <2>3 DEF Inside
    <3>2. \A d \in Directions :
            <<n, d>>[1] = n /\ <<n, d>> \in tcx \cup {<<inside, "egress">>}
      BY <2>3, <3>1 DEF Directions
    <3> QED BY <2>1, <2>2, <3>2 DEF HasPrograms
  <2>4. CASE n # inside
    <3>1. inside \in Ns /\ ino[inside] = cev.ino /\ ino[inside] # NoInode
      BY <2>1 DEF Inside, Directions
    <3>2. ino[n] # cev.ino
      BY <2>4, <3>1 DEF Unique
    <3>3. HasPrograms(n)
      BY <1>0, <2>1, <2>2, <3>2 DEF Exists
    <3>4. \A d \in Directions : <<n, d>>[1] = n /\ <<n, d>> \in tcx
      BY <3>3 DEF HasPrograms
    <3> QED BY <2>1, <2>2, <3>4 DEF HasPrograms
  <2> QED BY <2>3, <2>4
<1>6. CASE AttachFails
  <2>1. /\ UNCHANGED <<at, ino, pinned, attached>> /\ inside' = NoNs
        /\ tcx' = {t \in tcx : Held(t[1])}
    BY <1>6 DEF AttachFails, Leave, env, kernel
  <2>2. Held(n) /\ HasPrograms(n)
    BY <1>0, <2>1 DEF Exists, Held, HeldIn
  <2>3. \A d \in Directions : <<n, d>>[1] = n /\ <<n, d>> \in tcx
    BY <2>2 DEF HasPrograms
  <2> QED BY <2>1, <2>2, <2>3 DEF HasPrograms
<1> QED BY <1>1, <1>2, <1>3, <1>4, <1>5, <1>6 DEF Next, Attaches

(* A namespace marked attached has both programs, whichever step of whose   *)
(* attachment failed, as long as a path and a number go on meaning what     *)
(* they meant and interfaces are not made late.                             *)
THEOREM MarkedAreAttached == Spec => []MarkedIsAttached
  BY InitShape, NextShape, InitNumbered, NumbersStay, NextNumbered, InitLed,
     NextLed, NextInside, NextMarked, PTL DEF Spec
=============================================================================
