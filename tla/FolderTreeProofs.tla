--------------------------- MODULE FolderTreeProofs ---------------------------
(***************************************************************************)
(* Proofs about FolderTree, for every tree, every number of callers and    *)
(* pool threads and every number of calls.                                 *)
(***************************************************************************)
EXTENDS FolderTree, SequenceTheorems, TLAPS

-----------------------------------------------------------------------------
(***************************************************************************)
(* The invariant                                                           *)
(***************************************************************************)

Movable == Node \ {Root}
Archived == [node : Movable, up : Folder, with : BOOLEAN, by : Node, no : Nat]

\* What a deleteTree still has to do in a folder, a restore in an archive.
TreeEntry == [of : Folder, todo : SUBSET (Movable \ Item)]
RestoreEntry == [of : Archived \cup {Absent}, todo : SUBSET Archived]

\* The steps of each call.
InStep(c) ==
  /\ c.op = "none" => c.step = "end"
  /\ c.op = "create" => c.step \in {"write", "list"}
  /\ c.op = "look" => c.step = "list"
  /\ c.op = "move" => c.step \in {"lock", "tree", "write"}
  /\ c.op = "delete" => c.step \in {"lock", "check", "archive", "remove"}
  /\ c.op = "deleteTree" => c.step \in {"enter", "walk", "wait"}
  /\ c.op = "restore" => c.step \in {"climb", "list"}

\* A call, whose stack is that of a deleteTree or of a restore.
CallFields ==
  [op : {"none", "create", "look", "move", "delete", "deleteTree", "restore"},
   step : {"end", "write", "list", "lock", "tree", "check", "archive", "remove",
           "enter", "walk", "wait", "climb"},
   node : Node, to : Folder, read : {Uncached} \cup SUBSET Movable, with : BOOLEAN, by : Node,
   of : Archived \cup {Absent}, stack : Seq(TreeEntry) \cup Seq(RestoreEntry)]
CallOK(c) ==
  /\ c \in CallFields /\ InStep(c)
  /\ c.op \in {"create", "move", "delete"} => c.node # Root
  /\ c.op = "delete" /\ c.step = "check" => c.node \in Folder
  /\ c.op = "deleteTree" => c.stack \in Seq(TreeEntry) /\ c.to # Root
  /\ c.op = "deleteTree" =>
       /\ \A i \in DOMAIN c.stack : c.stack[i].of # Root
       /\ c.step = "walk" => c.stack # <<>>
       /\ c.step = "wait" => c.stack = <<>>
  /\ c.op = "restore" =>
       /\ c.stack \in Seq(RestoreEntry) /\ c.stack # <<>>
       /\ c.stack[Len(c.stack)].of = Absent
       /\ c.step = "list" => c.of \in Archived /\ c.node # Root

Tasks == [node : (Folder \cup Document) \ {Root}, pool : Folder \cup {Absent}, by : Node,
          user : User, thread : Worker \cup {Absent}]

\* Callers delete without deleteTree, the threads of its pools with it.
CallsTyped ==
  /\ call = [t \in Thread |-> call[t]]
  /\ \A t \in Thread : CallOK(call[t])
  /\ \A u \in User : call[u].op = "delete" => ~call[u].with
  /\ \A w \in Worker : call[w].op \in {"none", "delete"} /\ (call[w].op = "delete" => call[w].with)
StoresTyped ==
  /\ up \in [Node -> Folder \cup {Absent}] /\ up[Root] = Root
  /\ archives \subseteq Archived /\ filed \in [Node -> Nat]
  /\ trees \in [Folder -> {Uncached} \cup SUBSET Movable]
  /\ tasks \subseteq Tasks
  /\ made \subseteq Node /\ destroyed \subseteq Node /\ strays \subseteq Node
  /\ failed \subseteq Node /\ brought \subseteq Node /\ raced \subseteq Node
  /\ crossed \subseteq Folder /\ budget \in 0 .. Budget
Typed == StoresTyped /\ CallsTyped

\* A task that was taken is the deletion its thread is at, and the other way round.
Assigned ==
  /\ \A k \in tasks : k.thread # Absent =>
       call[k.thread].op = "delete" /\ call[k.thread].node = k.node
  /\ \A w \in Worker : call[w].op = "delete" => \E k \in tasks : k.thread = w

\* Locks exclude.
IsWriting(c) == c.op \in {"move", "delete"} /\ c.step # "lock"
IsLooking(c) == c.op = "look" /\ c.step = "list"
Excludes ==
  \A t, o \in Thread : t # o /\ IsWriting(call[t]) /\ call[o].node = call[t].node =>
    ~IsWriting(call[o]) /\ ~IsLooking(call[o])

\* What is about to be removed still exists: only the holder of its lock can remove it.
IsRemoving(c) == c.op = "delete" /\ c.step = "remove"
Removing == \A t \in Thread : IsRemoving(call[t]) => call[t].node \in Live

\* The archives that a call in progress is going to drop.
Drops(c, a) ==
  /\ c.op = "restore"
  /\ \/ c.step = "list" /\ c.of = a
     \/ a # Absent /\ \E i \in DOMAIN c.stack : c.stack[i].of = a
Dropped(a) == \E u \in Thread : Drops(call[u], a)
Numbered ==
  \A a \in Archived : a \in archives \/ Dropped(a) => a.no <= filed[a.node]

\* An archive of a node that no call is going to drop.
Safe(n) == \E a \in archives : a.node = n /\ ~Dropped(a)
Kept ==
  /\ \A n \in made : n \in Live \/ n \in destroyed \/ Safe(n)
  /\ \A t \in Thread : IsRemoving(call[t]) =>
       call[t].node \in destroyed \/ Safe(call[t].node)

\* Under parents p, what a folder holds is in ex: its place there is excused.
Minded(f, p, ex) == \A n \in Movable : p[n] = f => n \in ex

\* A folder that deleteTree has listed holds, of what is not excused, what is
\* to be entered or deleted.
Pending(c, i, n) ==
  \/ n \in c.stack[i].todo
  \/ i = 1 /\ c.step = "enter" /\ c.to = n
  \/ i > 1 /\ c.stack[i - 1].of = n
Submitted(u, f, n, ks) == \E k \in ks : k.user = u /\ k.pool = f /\ k.node = n
ListedBy(c, u, p, ks, ex) ==
  c.op = "deleteTree" =>
    \A i \in DOMAIN c.stack : \A n \in Movable :
      p[n] = c.stack[i].of =>
        n \in ex \/ Pending(c, i, n) \/ Submitted(u, c.stack[i].of, n, ks)
Listed == \A u \in User : ListedBy(call[u], u, up, tasks, strays \cup failed)

\* What is about to be deleted holds nothing that is not excused.
IsDeleting(c) == c.op = "delete" /\ c.step \in {"archive", "remove"}
Emptied ==
  /\ \A k \in tasks : Minded(k.node, up, strays \cup failed)
  /\ \A t \in Thread : IsDeleting(call[t]) => Minded(call[t].node, up, strays \cup failed)

\* Calls that have checked a name and not yet used it.
IsComing(c) ==
  \/ c.op = "create" /\ c.step = "write"
  \/ c.op = "move" /\ c.step \in {"tree", "write"}
Namesake(n, m, excused) == n # m /\ NameOf[n] = NameOf[m] /\ n \notin excused /\ m \notin excused
NameExcused == Item \cup brought \cup raced
Checked ==
  \A u \in Thread : IsComing(call[u]) =>
    /\ \A m \in Movable : up[m] = call[u].to => ~Namesake(call[u].node, m, NameExcused)
    /\ \A o \in Thread : o # u /\ IsComing(call[o]) /\ call[o].to = call[u].to =>
         ~Namesake(call[u].node, call[o].node, NameExcused)
Distinct ==
  \A n, m \in Movable : up[n] = up[m] /\ up[n] # Absent => ~Namesake(n, m, NameExcused)

Invariant ==
  /\ Typed /\ Assigned /\ Excludes /\ Removing /\ Numbered /\ Kept
  /\ Listed /\ Emptied /\ Parented /\ Checked /\ Distinct

-----------------------------------------------------------------------------
(***************************************************************************)
(* Sequences                                                               *)
(***************************************************************************)

LEMMA Pushed ==
  ASSUME NEW S, NEW s \in Seq(S), NEW e \in S, NEW p, p = <<e>> \o s
  PROVE  /\ p \in Seq(S) /\ p # <<>> /\ Len(p) = Len(s) + 1 /\ p[1] = e
         /\ \A i \in DOMAIN p : i # 1 => i - 1 \in DOMAIN s /\ p[i] = s[i - 1]
  OBVIOUS

LEMMA Popped_ ==
  ASSUME NEW S, NEW s \in Seq(S), s # <<>>, NEW r, r = Tail(s)
  PROVE  /\ r \in Seq(S) /\ Len(r) = Len(s) - 1 /\ s[1] \in S /\ Head(s) = s[1]
         /\ \A i \in DOMAIN r : i + 1 \in DOMAIN s /\ r[i] = s[i + 1]
  OBVIOUS

LEMMA TopChanged ==
  ASSUME NEW S, NEW s \in Seq(S), s # <<>>, NEW e \in S, NEW r, r = [s EXCEPT ![1] = e]
  PROVE  /\ r \in Seq(S) /\ r # <<>> /\ Len(r) = Len(s) /\ DOMAIN r = DOMAIN s
         /\ r[1] = e /\ 1 \in DOMAIN s /\ Head(s) = s[1]
         /\ \A i \in DOMAIN s : i # 1 => r[i] = s[i]
  OBVIOUS

-----------------------------------------------------------------------------
(***************************************************************************)
(* Types                                                                   *)
(***************************************************************************)

LEMMA NodeFacts ==
  /\ Root \in Folder /\ Folder \subseteq Node /\ Root \in Node /\ Absent \notin Node
  /\ Document \subseteq Node /\ Folder \cap Document = {} /\ Absent \notin Folder
  /\ Absent \notin Thread /\ User \subseteq Thread /\ Worker \subseteq Thread
  /\ \A t \in Thread : t \in User <=> t \notin Worker
  BY FolderTreeAssumptions DEF Node, Thread

LEMMA RestOK == CallOK(Rest) /\ Rest.op = "none" /\ Rest.stack = <<>> /\ Rest.step = "end"
  <1>1. <<>> \in Seq(TreeEntry)
    OBVIOUS
  <1>. QED
    BY <1>1, NodeFacts DEF Rest, CallOK, CallFields, InStep

\* What a new record of one call does to the calls.
Becomes(t, c) == \A o \in Thread : call'[o] = IF o = t THEN c ELSE call[o]
LEMMA CallsKept ==
  ASSUME CallsTyped, NEW t \in Thread, NEW c, CallOK(c), call' = [call EXCEPT ![t] = c],
         t \in User /\ c.op = "delete" => ~c.with,
         t \in Worker => c.op \in {"none", "delete"} /\ (c.op = "delete" => c.with)
  PROVE  CallsTyped' /\ Becomes(t, c)
  <1>1. call' = [o \in Thread |-> IF o = t THEN c ELSE call[o]]
    BY DEF CallsTyped
  <1>2. Becomes(t, c)
    BY <1>1 DEF Becomes
  <1>3. call' = [o \in Thread |-> call'[o]]
    BY <1>1
  <1>4. CallsTyped'
    BY <1>2, <1>3 DEF CallsTyped, Becomes
  <1>. QED
    BY <1>2, <1>4

\* A call that goes to another step.
AtStep(c, b, s) ==
  /\ c.op = b.op /\ c.step = s /\ c.node = b.node /\ c.to = b.to /\ c.with = b.with
  /\ c.by = b.by /\ c.of = b.of /\ c.stack = b.stack
LEMMA StepOK ==
  ASSUME NEW b, CallOK(b), NEW s, NEW c, c = [b EXCEPT !.step = s, !.read = Uncached],
         InStep(c), b.op # "none",
         b.op = "delete" /\ s = "check" => b.node \in Folder,
         b.op = "deleteTree" => s = "walk" /\ b.stack # <<>>,
         b.op = "restore" => s # "list"
  PROVE  CallOK(c) /\ AtStep(c, b, s)
  <1>1. b \in CallFields
    BY DEF CallOK
  <1>2. AtStep(c, b, s)
    BY <1>1 DEF CallFields, AtStep
  <1>3. s \in {"end", "write", "list", "lock", "tree", "check", "archive", "remove",
               "enter", "walk", "wait", "climb"}
    BY <1>1, <1>2 DEF InStep, AtStep, CallFields
  <1>4. c \in CallFields
    BY <1>1, <1>3 DEF CallFields
  <1>5. CallOK(c)
    BY <1>2, <1>4 DEF CallOK, AtStep, InStep
  <1>. QED
    BY <1>2, <1>5

-----------------------------------------------------------------------------
(***************************************************************************)
(* What a step has to respect to keep each part of the invariant           *)
(***************************************************************************)

\* t's call becomes c, and nothing else of the calls changes.
LEMMA KeepsExcludes ==
  ASSUME Excludes, NEW t \in Thread, NEW c, Becomes(t, c),
         IsWriting(c) => \/ IsWriting(call[t]) /\ c.node = call[t].node
                         \/ MayWrite(t, c.node),
         IsLooking(c) => \/ IsLooking(call[t]) /\ c.node = call[t].node
                         \/ MayRead(t, c.node)
  PROVE  Excludes'
  <1>. SUFFICES ASSUME NEW v \in Thread, NEW o \in Thread, v # o, IsWriting(call'[v]),
                       call'[o].node = call'[v].node
                PROVE  ~IsWriting(call'[o]) /\ ~IsLooking(call'[o])
    BY DEF Excludes
  <1>1. CASE v = t
    BY <1>1 DEF Becomes, Excludes, MayWrite, Writes, At, IsWriting, IsLooking
  <1>2. CASE o = t
    BY <1>2 DEF Becomes, Excludes, MayWrite, MayRead, Writes, At, IsWriting, IsLooking
  <1>3. CASE v # t /\ o # t
    BY <1>3 DEF Becomes, Excludes
  <1>. QED
    BY <1>1, <1>2, <1>3

LEMMA KeepsAssigned ==
  ASSUME Typed, Assigned, NEW t \in Thread, NEW c, Becomes(t, c), UNCHANGED tasks,
         t \in Worker => c.op = call[t].op /\ c.node = call[t].node
  PROVE  Assigned'
  <1>1. \A k \in tasks : k.thread # Absent => k.thread \in Worker
    BY DEF Typed, StoresTyped, Tasks
  <1>. QED
    BY <1>1, NodeFacts DEF Assigned, Becomes

LEMMA FinishKeepsAssigned ==
  ASSUME Typed, Assigned, NEW t \in Thread, Becomes(t, Rest),
         tasks' = {k \in tasks : k.thread # t}
  PROVE  Assigned'
  <1>1. \A k \in tasks : k.thread # Absent => k.thread \in Worker
    BY DEF Typed, StoresTyped, Tasks
  <1>. QED
    BY <1>1, RestOK, NodeFacts DEF Assigned, Becomes

LEMMA SubmitKeepsAssigned ==
  ASSUME Typed, Assigned, NEW u \in User, NEW c, Becomes(u, c),
         NEW k, k.thread = Absent, tasks' = tasks \cup {k}
  PROVE  Assigned'
  <1>1. \A j \in tasks : j.thread # Absent => j.thread \in Worker
    BY DEF Typed, StoresTyped, Tasks
  <1>. QED
    BY <1>1, NodeFacts DEF Assigned, Becomes

\* Nothing disappears, or only what no other call is removing.
LEMMA KeepsRemoving ==
  ASSUME Removing, NEW t \in Thread, NEW c, Becomes(t, c), Live \subseteq Live',
         IsRemoving(c) => \/ IsRemoving(call[t]) /\ c.node = call[t].node
                          \/ c.node \in Live'
  PROVE  Removing'
  BY DEF Removing, Becomes

\* No archive gets a number that was not given before.
LEMMA KeepsNumbered ==
  ASSUME Typed, Numbered, NEW t \in Thread, NEW c, Becomes(t, c),
         \A n \in Node : filed[n] <= filed'[n] /\ filed'[n] \in Nat,
         \A a \in Archived : a \in archives' => a \in archives \/ a.no <= filed'[a.node],
         \A a \in Archived : Drops(c, a) => Drops(call[t], a) \/ a \in archives
  PROVE  Numbered'
  <1>. SUFFICES ASSUME NEW a \in Archived, a \in archives' \/ Dropped(a)'
                PROVE  a.no <= filed'[a.node]
    BY DEF Numbered
  <1>1. a.node \in Node /\ a.no \in Nat
    BY DEF Archived, Movable
  <1>2. filed[a.node] \in Nat
    BY <1>1 DEF Typed, StoresTyped
  <1>3. Dropped(a)' => Dropped(a) \/ a \in archives
    BY DEF Dropped, Becomes
  <1>4. a.no <= filed[a.node] \/ a.no <= filed'[a.node]
    BY <1>3 DEF Numbered
  <1>. QED
    BY <1>1, <1>2, <1>4

\* No archive is dropped, and none is about to be that was not before.
LEMMA KeepsKept ==
  ASSUME Kept, NEW t \in Thread, NEW c, Becomes(t, c),
         \A n \in made' : n \in made \/ n \in Live', Live \subseteq Live',
         destroyed \subseteq destroyed', archives \subseteq archives',
         \A a \in archives : Drops(c, a) => Drops(call[t], a),
         IsRemoving(c) => IsRemoving(call[t]) /\ c.node = call[t].node
  PROVE  Kept'
  <1>1. ASSUME NEW n, Safe(n) PROVE Safe(n)'
    BY <1>1 DEF Safe, Dropped, Becomes
  <1>2. \A n \in made' : n \in Live' \/ n \in destroyed' \/ Safe(n)'
    BY <1>1 DEF Kept
  <1>3. ASSUME NEW o \in Thread, IsRemoving(call'[o]), NEW n, n = call'[o].node
        PROVE  n \in destroyed' \/ Safe(n)'
    <2>1. IsRemoving(call[o]) /\ n = call[o].node
      BY <1>3 DEF Becomes
    <2>. QED
      BY <2>1, <1>1 DEF Kept
  <1>. QED
    BY <1>2, <1>3 DEF Kept, Safe

\* What comes into a folder that is on its way out is excused.
ArrivesExcused ==
  \A n \in Movable : \/ up'[n] = up[n] \/ up'[n] = Absent
                     \/ n \in strays'
                     \/ up'[n] \in Folder /\ ~Leaving(up'[n])
\* Tasks end only with their node gone or excused.
TasksDone ==
  \A k \in tasks : \/ \E j \in tasks' : j.user = k.user /\ j.pool = k.pool /\ j.node = k.node
                   \/ up'[k.node] = Absent \/ k.node \in strays' \cup failed'
MoreExcused == strays \subseteq strays' /\ failed \subseteq failed'

LEMMA FolderGoing ==
  ASSUME Typed, Listed, Emptied, Parented, NEW f \in Folder, ~Leaving(f)
  PROVE  /\ f \in Live /\ \A k \in tasks : k.node # f
         /\ \A t \in Thread : IsDeleting(call[t]) => call[t].node # f
         /\ \A u \in User : call[u].op = "deleteTree" =>
              \A i \in DOMAIN call[u].stack : call[u].stack[i].of # f
  BY DEF Leaving, IsDeleting

LEMMA KeepsListed ==
  ASSUME Typed, Listed, Emptied, Parented, NEW t \in Thread, NEW c, Becomes(t, c),
         MoreExcused, ArrivesExcused, TasksDone,
         c.op = "deleteTree" => \/ /\ call[t].op = "deleteTree" /\ c.stack = call[t].stack
                                   /\ c.step = call[t].step /\ c.to = call[t].to
                                \/ ListedBy(c, t, up', tasks', strays' \cup failed')
  PROVE  Listed'
  <1>. SUFFICES ASSUME NEW u \in User
                PROVE  ListedBy(call'[u], u, up', tasks', strays' \cup failed')
    BY DEF Listed
  <1>. DEFINE b == call[u]
  <1>u. u \in Thread
    BY NodeFacts
  <1>1. CASE call'[u].op # "deleteTree"
    BY <1>1 DEF ListedBy
  <1>2. CASE u = t /\ ListedBy(c, t, up', tasks', strays' \cup failed')
    BY <1>2, <1>u DEF Becomes
  <1>3. CASE /\ b.op = "deleteTree" /\ call'[u].op = "deleteTree" /\ call'[u].stack = b.stack
             /\ call'[u].step = b.step /\ call'[u].to = b.to
    <2>. SUFFICES ASSUME NEW i \in DOMAIN b.stack, NEW n \in Movable, up'[n] = b.stack[i].of
                  PROVE  \/ n \in strays' \cup failed' \/ Pending(b, i, n)
                         \/ Submitted(u, b.stack[i].of, n, tasks')
      BY <1>3 DEF ListedBy, Pending
    <2>1. b.stack \in Seq(TreeEntry)
      BY <1>3, <1>u DEF Typed, CallsTyped, CallOK
    <2>2. b.stack[i] \in TreeEntry
      BY <2>1
    <2>3. b.stack[i].of \in Folder
      BY <2>2 DEF TreeEntry
    <2>4. CASE up[n] = b.stack[i].of
      <3>1. n \in strays \cup failed \/ Pending(b, i, n) \/ Submitted(u, b.stack[i].of, n, tasks)
        BY <2>4, <1>3 DEF Listed, ListedBy
      <3>2. ASSUME Submitted(u, b.stack[i].of, n, tasks)
            PROVE  n \in strays' \cup failed' \/ Submitted(u, b.stack[i].of, n, tasks')
        BY <3>2, <2>3, NodeFacts DEF Submitted, TasksDone
      <3>. QED
        BY <3>1, <3>2 DEF MoreExcused
    <2>5. CASE up[n] # b.stack[i].of
      <3>1. Leaving(b.stack[i].of)
        BY <1>3 DEF Leaving
      <3>. QED
        BY <2>5, <2>3, <3>1, NodeFacts DEF ArrivesExcused
    <2>. QED
      BY <2>4, <2>5
  <1>4. CASE u # t /\ call'[u].op = "deleteTree"
    BY <1>3, <1>4, <1>u DEF Becomes
  <1>. QED
    BY <1>1, <1>2, <1>3, <1>4, <1>u DEF Becomes

LEMMA KeepsMinded ==
  ASSUME MoreExcused, ArrivesExcused, NEW f \in Folder, Leaving(f),
         Minded(f, up, strays \cup failed)
  PROVE  Minded(f, up', strays' \cup failed')
  BY NodeFacts DEF MoreExcused, ArrivesExcused, Minded

LEMMA DocumentsMinded ==
  ASSUME StoresTyped, NEW d \in Node \ Folder, NEW ex
  PROVE  Minded(d, up, ex)
  BY NodeFacts DEF StoresTyped, Minded, Movable

LEMMA KeepsEmptied ==
  ASSUME Typed, StoresTyped', Emptied, NEW t \in Thread, NEW c, CallOK(c), Becomes(t, c),
         MoreExcused, ArrivesExcused,
         \A k \in tasks' : \/ \E j \in tasks : j.node = k.node
                           \/ Minded(k.node, up', strays' \cup failed'),
         IsDeleting(c) => \/ IsDeleting(call[t]) /\ c.node = call[t].node
                          \/ Minded(c.node, up', strays' \cup failed')
  PROVE  Emptied'
  <1>. DEFINE Now(f) == Minded(f, up', strays' \cup failed')
  <1>1. ASSUME NEW f \in Node \ Folder PROVE Now(f)
    BY NodeFacts DEF StoresTyped, Minded, Movable
  <1>2. ASSUME NEW k \in tasks PROVE Now(k.node)
    <2>1. k.node \in Node
      BY NodeFacts DEF Typed, StoresTyped, Tasks
    <2>2. k.node \in Folder => Leaving(k.node)
      BY DEF Leaving
    <2>3. Minded(k.node, up, strays \cup failed)
      BY DEF Emptied
    <2>. QED
      BY <2>1, <2>2, <2>3, <1>1, KeepsMinded
  <1>3. ASSUME NEW o \in Thread, IsDeleting(call[o]) PROVE Now(call[o].node)
    <2>1. call[o].node \in Node
      BY DEF Typed, CallsTyped, CallOK, CallFields
    <2>2. call[o].node \in Folder => Leaving(call[o].node)
      BY <1>3 DEF Leaving, IsDeleting
    <2>3. Minded(call[o].node, up, strays \cup failed)
      BY <1>3 DEF Emptied
    <2>. QED
      BY <2>1, <2>2, <2>3, <1>1, KeepsMinded
  <1>4. \A k \in tasks' : Now(k.node)
    BY <1>2
  <1>5. ASSUME NEW o \in Thread, IsDeleting(call'[o]) PROVE Now(call'[o].node)
    <2>1. CASE o = t
      BY <2>1, <1>3, <1>5 DEF Becomes
    <2>2. CASE o # t
      BY <2>2, <1>3, <1>5 DEF Becomes
    <2>. QED
      BY <2>1, <2>2
  <1>. QED
    BY <1>4, <1>5 DEF Emptied

LEMMA KeepsParented ==
  ASSUME StoresTyped, StoresTyped', Parented, MoreExcused, ArrivesExcused, Live \subseteq Live'
  PROVE  Parented'
  <1>. SUFFICES ASSUME NEW n \in Live', n \notin strays' \cup failed'
                PROVE  up'[n] \in Live'
    BY DEF Parented
  <1>1. n \in Node /\ up'[n] # Absent
    BY DEF Live
  <1>2. CASE n = Root
    BY <1>1, <1>2 DEF StoresTyped, Live
  <1>3. CASE n \in Movable /\ up'[n] = up[n]
    BY <1>1, <1>3 DEF Parented, Live, MoreExcused
  <1>4. CASE n \in Movable /\ up'[n] # up[n]
    BY <1>1, <1>4 DEF ArrivesExcused, Leaving
  <1>. QED
    BY <1>1, <1>2, <1>3, <1>4 DEF Movable

\* A node gets a parent only by a restore, or by the call that had checked its name.
LEMMA KeepsDistinct ==
  ASSUME Typed, Checked, Distinct, NEW t \in Thread,
         brought \subseteq brought', raced \subseteq raced',
         \A n \in Movable : \/ up'[n] = up[n] \/ up'[n] = Absent \/ n \in brought'
                            \/ /\ IsComing(call[t]) /\ n = call[t].node
                               /\ up'[n] = call[t].to
                               /\ \A m \in Movable \ {n} : up'[m] = up[m]
  PROVE  Distinct'
  <1>. SUFFICES ASSUME NEW n \in Movable, NEW m \in Movable, up'[n] = up'[m], up'[n] # Absent,
                       Namesake(n, m, NameExcused')
                PROVE  FALSE
    BY DEF Distinct
  <1>1. n # m /\ NameOf[n] = NameOf[m] /\ n \notin brought' /\ m \notin brought'
    BY DEF Namesake, NameExcused
  <1>2. Namesake(n, m, NameExcused) /\ Namesake(m, n, NameExcused)
    BY DEF Namesake, NameExcused
  <1>3. CASE up'[n] = up[n] /\ up'[m] = up[m]
    BY <1>2, <1>3 DEF Distinct
  <1>4. CASE up'[n] # up[n]
    BY <1>1, <1>2, <1>4 DEF Checked
  <1>5. CASE up'[m] # up[m]
    BY <1>1, <1>2, <1>5 DEF Checked
  <1>. QED
    BY <1>3, <1>4, <1>5

LEMMA KeepsChecked ==
  ASSUME Typed, Checked, NEW t \in Thread, NEW c, Becomes(t, c),
         brought \subseteq brought', raced \subseteq raced',
         \A n \in Movable : \/ up'[n] = up[n] \/ up'[n] = Absent \/ n \in brought'
                            \/ IsComing(call[t]) /\ n = call[t].node /\ up'[n] = call[t].to,
         IsComing(c) => /\ IsComing(call[t]) /\ c.node = call[t].node /\ c.to = call[t].to
                        /\ \A n \in Movable : up'[n] = up[n]
  PROVE  Checked'
  <1>. SUFFICES ASSUME NEW u \in Thread, IsComing(call'[u])
                PROVE  /\ \A m \in Movable : up'[m] = call'[u].to =>
                            ~Namesake(call'[u].node, m, NameExcused')
                       /\ \A o \in Thread : o # u /\ IsComing(call'[o]) /\ call'[o].to = call'[u].to
                            => ~Namesake(call'[u].node, call'[o].node, NameExcused')
    BY DEF Checked
  <1>0. \A o \in Thread : IsComing(call'[o]) =>
          IsComing(call[o]) /\ call'[o].node = call[o].node /\ call'[o].to = call[o].to
    BY DEF Becomes
  <1>00. call[u].to # Absent
    BY NodeFacts DEF Typed, CallsTyped, CallOK, CallFields
  <1>1. \A n, m : Namesake(n, m, NameExcused') => Namesake(n, m, NameExcused) /\ n \notin brought' /\ m \notin brought'
    BY DEF Namesake, NameExcused
  <1>2. ASSUME NEW m \in Movable, up'[m] = call'[u].to, Namesake(call'[u].node, m, NameExcused')
        PROVE  FALSE
    <2>1. CASE up'[m] = up[m]
      <3>1. IsComing(call[u]) /\ up[m] = call[u].to /\ call'[u].node = call[u].node
        BY <2>1, <1>0, <1>2
      <3>2. Namesake(call[u].node, m, NameExcused)
        BY <3>1, <1>1, <1>2
      <3>. QED  BY <3>1, <3>2 DEF Checked
    <2>2. CASE up'[m] # up[m]
      <3>1. IsComing(call[t]) /\ m = call[t].node /\ up'[m] = call[t].to
        <4>1. m \notin brought'
          BY <1>1, <1>2
        <4>2. up'[m] # Absent
          BY <1>0, <1>00, <1>2
        <4>3. QED  BY <2>2, <4>1, <4>2
      <3>2. u # t
        BY <3>1, <2>2 DEF Becomes
      <3>3. call[u].to = call[t].to /\ IsComing(call[u])
        BY <3>1, <1>0, <1>2
      <3>4. Namesake(call[u].node, call[t].node, NameExcused)
        BY <3>1, <1>0, <1>1, <1>2
      <3>. QED
        BY <3>1, <3>2, <3>3, <3>4 DEF Checked
    <2>. QED
      BY <2>1, <2>2
  <1>3. ASSUME NEW o \in Thread, o # u, IsComing(call'[o]), call'[o].to = call'[u].to,
               Namesake(call'[u].node, call'[o].node, NameExcused')
        PROVE  FALSE
    BY <1>0, <1>1, <1>3 DEF Checked
  <1>. QED
    BY <1>2, <1>3

\* A call that is about to put a node where its name was checked.
LEMMA ComesKeepsChecked ==
  ASSUME Typed, Checked, NEW t \in User, NEW c, CallOK(c), Becomes(t, c), UNCHANGED <<up, brought>>,
         IsComing(c), ~NameTaken(c.to, c.node), Races(t, c.to, c.node),
         \A w \in Worker : ~IsComing(call[w]),
         IsComing(call[t]) => FALSE
  PROVE  Checked'
  <1>0. raced \subseteq raced'
    BY DEF Races
  <1>. SUFFICES ASSUME NEW u \in Thread, IsComing(call'[u])
                PROVE  /\ \A m \in Movable : up'[m] = call'[u].to =>
                            ~Namesake(call'[u].node, m, NameExcused')
                       /\ \A o \in Thread : o # u /\ IsComing(call'[o]) /\ call'[o].to = call'[u].to
                            => ~Namesake(call'[u].node, call'[o].node, NameExcused')
    BY DEF Checked
  <1>1. \A n, m : Namesake(n, m, NameExcused') => Namesake(n, m, NameExcused)
    BY <1>0 DEF Namesake, NameExcused
  <1>2. ASSUME NEW o \in Thread \ {t}, IsComing(call[o]), call[o].to = c.to,
               NameOf[call[o].node] = NameOf[c.node]
        PROVE  c.node \in raced'
    <2>1. o \in User
      BY <1>2, NodeFacts
    <2>. QED
      BY <2>1, <1>2 DEF Races, IsComing, At
  <1>3. \A m \in Movable : up[m] = c.to => ~Namesake(c.node, m, NameExcused')
    BY DEF NameTaken, Children, Movable, Namesake, NameExcused
  <1>4. CASE u = t
    BY <1>4, <1>2, <1>3 DEF Becomes, Namesake, NameExcused
  <1>5. CASE u # t
    <2>1. call'[u] = call[u]
      BY <1>5 DEF Becomes
    <2>2. \A m \in Movable : up'[m] = call'[u].to => ~Namesake(call'[u].node, m, NameExcused')
      BY <2>1, <1>1 DEF Checked
    <2>3. ASSUME NEW o \in Thread, o # u, IsComing(call'[o]), call'[o].to = call'[u].to,
                 Namesake(call'[u].node, call'[o].node, NameExcused')
          PROVE  FALSE
      <3>1. CASE o = t
        BY <3>1, <2>1, <2>3, <1>2, <1>5 DEF Becomes, Namesake, NameExcused
      <3>2. CASE o # t
        BY <3>2, <2>1, <2>3, <1>1 DEF Becomes, Checked
      <3>. QED
        BY <3>1, <3>2
    <2>. QED
      BY <2>2, <2>3
  <1>. QED
    BY <1>4, <1>5

-----------------------------------------------------------------------------
(***************************************************************************)
(* Steps that change neither the tree nor the archives                     *)
(***************************************************************************)

\* What t's call brings nothing new to.
SameCall(c, b) == c.op = b.op /\ c.node = b.node
Follows(t, c, b) ==
  /\ t \in Worker => SameCall(c, b)
  /\ IsRemoving(c) => IsRemoving(b) /\ c.node = b.node
  /\ \A a : Drops(c, a) => Drops(b, a)

LEMMA QuietStep ==
  ASSUME Invariant, NEW t \in Thread, NEW c, CallOK(c), CallsTyped', StoresTyped', Becomes(t, c),
         UNCHANGED <<up, archives, filed, tasks, made, destroyed, failed, brought>>,
         strays \subseteq strays', raced \subseteq raced', Follows(t, c, call[t]),
         IsWriting(c) => \/ IsWriting(call[t]) /\ c.node = call[t].node
                         \/ MayWrite(t, c.node),
         IsLooking(c) => \/ IsLooking(call[t]) /\ c.node = call[t].node
                         \/ MayRead(t, c.node),
         c.op = "deleteTree" => \/ /\ call[t].op = "deleteTree" /\ c.stack = call[t].stack
                                   /\ c.step = call[t].step /\ c.to = call[t].to
                                \/ ListedBy(c, t, up', tasks', strays' \cup failed'),
         IsDeleting(c) => \/ IsDeleting(call[t]) /\ c.node = call[t].node
                          \/ Minded(c.node, up', strays' \cup failed'),
         IsComing(c) => \/ IsComing(call[t]) /\ c.node = call[t].node /\ c.to = call[t].to
                        \/ Checked'
  PROVE  Invariant'
  <1>1. Typed'
    BY DEF Typed
  <1>2. Live' = Live /\ MoreExcused /\ ArrivesExcused /\ TasksDone
    BY DEF Live, MoreExcused, ArrivesExcused, TasksDone
  <1>3. Assigned'
    BY KeepsAssigned DEF Invariant, Follows, SameCall
  <1>4. Excludes'
    BY KeepsExcludes DEF Invariant
  <1>5. Removing'
    BY <1>2, KeepsRemoving DEF Invariant, Follows
  <1>6. Numbered'
    <2>1. \A n \in Node : filed[n] <= filed'[n] /\ filed'[n] \in Nat
      BY DEF StoresTyped
    <2>. QED
      BY <2>1, KeepsNumbered DEF Invariant, Follows
  <1>7. Kept'
    BY <1>2, KeepsKept DEF Invariant, Follows
  <1>8. Listed'
    BY <1>2, KeepsListed DEF Invariant
  <1>9. Emptied'
    BY <1>2, KeepsEmptied DEF Invariant, Typed
  <1>10. Parented'
    BY <1>2, KeepsParented DEF Invariant, Typed
  <1>11. Checked'
    BY KeepsChecked DEF Invariant
  <1>12. Distinct'
    BY KeepsDistinct DEF Invariant
  <1>. QED
    BY <1>1, <1>3, <1>4, <1>5, <1>6, <1>7, <1>8, <1>9, <1>10, <1>11, <1>12 DEF Invariant

\* A caller's call ends.
LEMMA EndStep ==
  ASSUME Invariant, NEW u \in User, Ends(u), StoresTyped',
         UNCHANGED <<up, archives, filed, tasks, made, destroyed, failed, brought>>,
         strays \subseteq strays', raced \subseteq raced'
  PROVE  Invariant'
  <1>u. u \in Thread /\ u \notin Worker
    BY NodeFacts
  <1>1. CallsTyped' /\ Becomes(u, Rest)
    BY <1>u, RestOK, CallsKept DEF Ends, Goes, Invariant, Typed
  <1>2. Follows(u, Rest, call[u])
    BY <1>u, RestOK DEF Follows, IsRemoving, Drops
  <1>3. ~IsWriting(Rest) /\ ~IsLooking(Rest) /\ ~IsDeleting(Rest) /\ ~IsComing(Rest)
    BY RestOK DEF IsWriting, IsLooking, IsDeleting, IsComing
  <1>. QED
    BY <1>u, <1>1, <1>2, <1>3, RestOK, QuietStep

\* A caller begins a call.
LEMMA SendStep ==
  ASSUME Invariant, NEW u \in User, NEW c, CallOK(c), Send(u, c),
         raced \subseteq raced', raced' \subseteq Node, c.op # "delete" \/ ~c.with,
         ~IsWriting(c), ~IsDeleting(c), IsLooking(c) => MayRead(u, c.node),
         \A a : ~Drops(c, a), c.op = "deleteTree" => c.stack = <<>>,
         IsComing(c) /\ Becomes(u, c) => Checked'
  PROVE  Invariant'
  <1>u. u \in Thread /\ u \notin Worker
    BY NodeFacts
  <1>1. CallsTyped' /\ Becomes(u, c)
    BY <1>u, CallsKept DEF Send, Goes, Invariant, Typed
  <1>2. StoresTyped'
    <2>1. budget' \in 0 .. Budget
      BY FolderTreeAssumptions DEF Send, Invariant, Typed, StoresTyped
    <2>. QED
      BY <2>1 DEF Send, Invariant, Typed, StoresTyped
  <1>3. Follows(u, c, call[u])
    BY <1>u DEF Follows, IsRemoving, IsDeleting
  <1>4. ListedBy(c, u, up', tasks', strays' \cup failed')
    BY DEF ListedBy
  <1>. QED
    BY <1>u, <1>1, <1>2, <1>3, <1>4, QuietStep DEF Send

LEMMA SendMoveKeeps ==
  ASSUME Invariant, NEW u \in User, NEW n \in Node \ {Root}, NEW f \in Folder, SendMove(u, n, f)
  PROVE  Invariant'
  <1>1. PICK c : c = [Rest EXCEPT !.op = "move", !.step = "lock", !.node = n, !.to = f]
    OBVIOUS
  <1>2. c.op = "move" /\ c.step = "lock" /\ CallOK(c)
    BY <1>1, RestOK DEF Rest, CallOK, CallFields, InStep
  <1>. QED
    BY <1>1, <1>2, SendStep
       DEF SendMove, IsWriting, IsDeleting, IsLooking, IsComing, Drops, Invariant, Typed, StoresTyped

LEMMA SendDeleteKeeps ==
  ASSUME Invariant, NEW u \in User, NEW n \in Node, SendDelete(u, n)
  PROVE  Invariant'
  <1>1. PICK c : c = [Rest EXCEPT !.op = "delete", !.step = "lock", !.node = n, !.by = n]
    OBVIOUS
  <1>2. c.op = "delete" /\ c.step = "lock" /\ c.with = FALSE /\ CallOK(c)
    BY <1>1, RestOK DEF SendDelete, Rest, CallOK, CallFields, InStep
  <1>. QED
    BY <1>1, <1>2, SendStep
       DEF SendDelete, IsWriting, IsDeleting, IsLooking, IsComing, Drops, Invariant, Typed, StoresTyped

LEMMA SendTreeKeeps ==
  ASSUME Invariant, NEW u \in User, NEW f \in Folder, SendTree(u, f)
  PROVE  Invariant'
  <1>1. PICK c : c = [Rest EXCEPT !.op = "deleteTree", !.step = "enter", !.to = f, !.by = f]
    OBVIOUS
  <1>2. c.op = "deleteTree" /\ c.step = "enter" /\ c.stack = <<>> /\ c.to = f /\ f # Root
    BY <1>1 DEF Rest, SendTree
  <1>3. c.stack \in Seq(TreeEntry) /\ DOMAIN c.stack = {}
    BY <1>2
  <1>4. CallOK(c)
    <2>1. c \in CallFields
      BY <1>1, <1>3, RestOK, NodeFacts DEF Rest, CallOK, CallFields
    <2>. QED
      BY <2>1, <1>2, <1>3 DEF CallOK, InStep
  <1>. QED
    BY <1>1, <1>2, <1>4, SendStep
       DEF SendTree, IsWriting, IsDeleting, IsLooking, IsComing, Drops, Invariant, Typed, StoresTyped

LEMMA SendLookKeeps ==
  ASSUME Invariant, NEW u \in User, NEW f \in Folder, SendLook(u, f)
  PROVE  Invariant'
  <1>1. PICK c : c = [Rest EXCEPT !.op = "look", !.step = "list", !.node = f, !.to = f]
    OBVIOUS
  <1>2. c.op = "look" /\ c.step = "list" /\ c.node = f /\ CallOK(c)
    BY <1>1, RestOK, NodeFacts DEF Rest, CallOK, CallFields, InStep
  <1>. QED
    BY <1>1, <1>2, SendStep
       DEF SendLook, IsWriting, IsDeleting, IsLooking, IsComing, Drops, Invariant, Typed, StoresTyped

LEMMA SendRestoreKeeps ==
  ASSUME Invariant, NEW u \in User, NEW a \in archives, SendRestore(u, a)
  PROVE  Invariant'
  <1>1. PICK c : c = [Rest EXCEPT !.op = "restore", !.step = "climb",
                                  !.stack = <<[of |-> Absent, todo |-> {a}]>>]
    OBVIOUS
  <1>2. /\ c.op = "restore" /\ c.step = "climb" /\ c.stack = <<[of |-> Absent, todo |-> {a}]>>
        /\ c.stack[1].of = Absent /\ Len(c.stack) = 1 /\ DOMAIN c.stack = {1}
    BY <1>1 DEF Rest
  <1>3. a \in Archived
    BY DEF Invariant, Typed, StoresTyped
  <1>4. c.stack \in Seq(RestoreEntry)
    BY <1>2, <1>3 DEF RestoreEntry
  <1>5. CallOK(c)
    <2>1. c \in CallFields
      BY <1>1, <1>4, RestOK DEF Rest, CallOK, CallFields
    <2>. QED
      BY <2>1, <1>2, <1>4 DEF CallOK, InStep
  <1>6. \A b : ~Drops(c, b)
    BY <1>2 DEF Drops
  <1>. QED
    BY <1>1, <1>2, <1>5, <1>6, SendStep
       DEF SendRestore, IsWriting, IsDeleting, IsLooking, IsComing, Invariant, Typed, StoresTyped

LEMMA SendCreateKeeps ==
  ASSUME Invariant, NEW u \in User, NEW n \in Node \ {Root}, NEW f \in Folder, SendCreate(u, n, f)
  PROVE  Invariant'
  <1>1. PICK c : c = [Rest EXCEPT !.op = "create", !.step = "write", !.node = n, !.to = f]
    OBVIOUS
  <1>2. c.op = "create" /\ c.step = "write" /\ c.node = n /\ c.to = f /\ CallOK(c)
    BY <1>1, RestOK DEF Rest, CallOK, CallFields, InStep
  <1>3. raced \subseteq raced' /\ raced' \subseteq Node
    BY DEF SendCreate, Races, Invariant, Typed, StoresTyped
  <1>4. Becomes(u, c) => Checked'
    <2>1. UNCHANGED <<up, brought>> /\ ~IsComing(call[u])
      BY DEF SendCreate, Send, Busy, IsComing
    <2>2. \A w \in Worker : ~IsComing(call[w])
      BY DEF Invariant, Typed, CallsTyped, IsComing
    <2>3. u \in Thread /\ IsComing(c)
      BY <1>2, NodeFacts DEF IsComing
    <2>. QED
      BY <1>2, <2>1, <2>2, <2>3, ComesKeepsChecked DEF SendCreate, Invariant
  <1>. QED
    BY <1>1, <1>2, <1>3, <1>4, SendStep
       DEF SendCreate, IsWriting, IsDeleting, IsLooking, Drops

LEMMA GoesOn ==
  ASSUME Typed, NEW t \in Thread, NEW c, CallOK(c), Goes(t, c),
         c.op = call[t].op, c.with = call[t].with
  PROVE  CallsTyped' /\ Becomes(t, c)
  <1>1. t \in User /\ c.op = "delete" => ~c.with
    BY DEF Typed, CallsTyped
  <1>2. t \in Worker => c.op \in {"none", "delete"} /\ (c.op = "delete" => c.with)
    BY DEF Typed, CallsTyped
  <1>. QED
    BY <1>1, <1>2, CallsKept DEF Goes, Typed

LEMMA HeldTyped ==
  ASSUME Typed, NEW t \in Thread, Holds(t)
  PROVE  TreeOf(t) \in Folder /\ Held(t) \subseteq Movable
  <1>1. call[t].read \in {Uncached} \cup SUBSET Movable
    BY DEF Typed, CallsTyped, CallOK, CallFields
  <1>2. trees[TreeOf(t)] \in {Uncached} \cup SUBSET Movable
    BY DEF Typed, StoresTyped, Holds
  <1>3. Held(t) \in {Uncached} \cup SUBSET Movable
    BY <1>1, <1>2 DEF Held
  <1>. QED
    BY <1>3 DEF Holds

LEMMA TreesTyped ==
  ASSUME Typed, NEW t \in Thread, Holds(t), NEW tree \in SUBSET Movable, Keeps(t, tree)
  PROVE  trees' \in [Folder -> {Uncached} \cup SUBSET Movable]
  BY HeldTyped DEF Typed, StoresTyped, Keeps

LEMMA CrossedTyped ==
  ASSUME Typed, NEW t \in Thread, Holds(t), Crosses(t)
  PROVE  crossed' \subseteq Folder
  BY HeldTyped DEF Crosses, Typed, StoresTyped

LEMMA MissKeeps ==
  ASSUME Invariant, NEW t \in Thread, Miss(t)
  PROVE  Invariant'
  <1>. DEFINE b == call[t]
  <1>1. PICK c : c = [b EXCEPT !.read = Children(TreeOf(t))]
    OBVIOUS
  <1>0. CallOK(b)
    BY DEF Invariant, Typed, CallsTyped
  <1>2. AtStep(c, b, b.step)
    BY <1>1, <1>0 DEF CallOK, CallFields, AtStep
  <1>3. CallOK(c)
    <2>1. Children(TreeOf(t)) \subseteq Movable
      BY DEF Children, Movable
    <2>2. c \in CallFields
      BY <1>0, <1>1, <2>1 DEF CallOK, CallFields
    <2>. QED
      BY <1>0, <1>2, <2>2 DEF CallOK, AtStep, InStep
  <1>4. CallsTyped' /\ Becomes(t, c)
    BY <1>1, <1>2, <1>3, GoesOn DEF Invariant, AtStep, Miss
  <1>5. StoresTyped'
    BY DEF Miss, history, Invariant, Typed, StoresTyped
  <1>6. Follows(t, c, b)
    BY <1>2 DEF AtStep, Follows, SameCall, IsRemoving, Drops
  <1>. QED
    BY <1>2, <1>3, <1>4, <1>5, <1>6, QuietStep
       DEF Miss, history, AtStep, IsWriting, IsLooking, IsDeleting, IsComing

LEMMA ListKeeps ==
  ASSUME Invariant, NEW u \in User, List(u)
  PROVE  Invariant'
  <1>u. u \in Thread
    BY NodeFacts
  <1>1. Held(u) \cup ({call[u].node} \ (Document \ Live)) \subseteq Movable
    <2>1. call[u].node \in Movable
      BY <1>u DEF List, At, Invariant, Typed, CallsTyped, CallOK, CallFields, Movable
    <2>2. Held(u) \subseteq Movable
      BY <1>u, HeldTyped DEF List, Invariant
    <2>. QED
      BY <2>1, <2>2
  <1>2. trees' \in [Folder -> {Uncached} \cup SUBSET Movable]
    BY <1>u, <1>1, TreesTyped DEF List, Invariant
  <1>3. crossed' \subseteq Folder
    <2>1. call[u].to \in Folder
      BY <1>u DEF Invariant, Typed, CallsTyped, CallOK, CallFields
    <2>2. CASE Crosses(u)
      BY <1>u, <2>2, CrossedTyped DEF List, Invariant
    <2>3. CASE crossed' = crossed \cup {call[u].to}
      BY <2>1, <2>3 DEF Invariant, Typed, StoresTyped
    <2>. QED
      BY <2>2, <2>3 DEF List, ListsLate
  <1>4. StoresTyped'
    BY <1>2, <1>3 DEF List, history, Invariant, Typed, StoresTyped
  <1>. QED
    BY <1>4, EndStep DEF List, history

LEMMA LookKeeps ==
  ASSUME Invariant, NEW u \in User, Look(u)
  PROVE  Invariant'
  <1>u. u \in Thread
    BY NodeFacts
  <1>1. Held(u) \subseteq Movable
    BY <1>u, HeldTyped DEF Look, Invariant
  <1>2. trees' \in [Folder -> {Uncached} \cup SUBSET Movable]
    BY <1>u, <1>1, TreesTyped DEF Look, Invariant
  <1>3. crossed' \subseteq Folder
    BY <1>u, CrossedTyped DEF Look, Invariant
  <1>4. StoresTyped'
    BY <1>2, <1>3 DEF Look, history, Invariant, Typed, StoresTyped
  <1>. QED
    BY <1>4, EndStep DEF Look, history

LEMMA AwaitKeeps ==
  ASSUME Invariant, NEW u \in User, Await(u)
  PROVE  Invariant'
  <1>1. StoresTyped'
    BY DEF Await, history, Invariant, Typed, StoresTyped
  <1>. QED
    BY <1>1, EndStep DEF Await, history

LEMMA GivesUpKeeps ==
  ASSUME Invariant, NEW u \in User, GivesUp(u)
  PROVE  Invariant'
  <1>0. Ends(u) /\ UNCHANGED <<up, archives, filed, trees, tasks, budget, crossed, history>>
    BY DEF GivesUp
  <1>1. StoresTyped'
    BY <1>0 DEF history, Invariant, Typed, StoresTyped
  <1>. QED
    BY <1>0, <1>1, EndStep DEF history

LEMMA LockKeeps ==
  ASSUME Invariant, NEW u \in User, Lock(u)
  PROVE  Invariant'
  <1>. DEFINE b == call[u]
              Unchanging == UNCHANGED <<up, archives, filed, trees, tasks, budget, crossed, made,
                                        destroyed, strays, failed, brought>>
  <1>u. u \in Thread /\ u \notin Worker
    BY NodeFacts
  <1>0. CallOK(b) /\ b.op = "move" /\ b.step = "lock" /\ Unchanging /\ MayWrite(u, b.node)
    BY <1>u DEF Lock, At, Invariant, Typed, CallsTyped
  <1>r. raced' \subseteq Node /\ raced \subseteq raced'
    BY <1>0 DEF Lock, Races, Invariant, Typed, StoresTyped, CallOK, CallFields
  <1>1. StoresTyped'
    BY <1>0, <1>r DEF Invariant, Typed, StoresTyped
  <1>2. CASE Ends(u)
    BY <1>0, <1>1, <1>2, <1>r, EndStep
  <1>3. ASSUME NEW s \in {"tree", "write"}, GoesTo(u, s), ~NameTaken(b.to, b.node),
               Races(u, b.to, b.node)
        PROVE  Invariant'
    <2>1. PICK c : c = [b EXCEPT !.step = s, !.read = Uncached]
      OBVIOUS
    <2>2. CallOK(c) /\ AtStep(c, b, s)
      <3>1. InStep(c)
        BY <1>0, <2>1 DEF CallOK, CallFields, InStep
      <3>. QED
        BY <1>0, <2>1, <3>1, StepOK
    <2>3. CallsTyped' /\ Becomes(u, c)
      BY <1>u, <1>3, <2>1, <2>2, GoesOn DEF Invariant, AtStep, GoesTo
    <2>4. Follows(u, c, b)
      BY <1>0, <1>u, <2>2 DEF AtStep, Follows, IsRemoving, Drops
    <2>5. Checked'
      <3>1. IsComing(c) /\ ~IsComing(b)
        BY <1>0, <2>2, <1>3 DEF AtStep, IsComing
      <3>2. \A w \in Worker : ~IsComing(call[w])
        BY DEF Invariant, Typed, CallsTyped, IsComing
      <3>3. ~NameTaken(c.to, c.node) /\ Races(u, c.to, c.node)
        BY <1>3, <2>2 DEF AtStep
      <3>. QED
        BY <1>0, <2>2, <2>3, <3>1, <3>2, <3>3, ComesKeepsChecked DEF Invariant
    <2>. QED
      BY <1>u, <1>0, <1>1, <1>r, <2>2, <2>3, <2>4, <2>5, QuietStep DEF AtStep, IsLooking, IsDeleting
  <1>. QED
    BY <1>2, <1>3 DEF Lock

LEMMA TreeKeeps ==
  ASSUME Invariant, NEW u \in User, Tree(u)
  PROVE  Invariant'
  <1>. DEFINE b == call[u]
  <1>u. u \in Thread /\ u \notin Worker
    BY NodeFacts
  <1>0. CallOK(b) /\ b.op = "move" /\ b.step = "tree" /\ b.node \in Movable /\ b.to \in Folder
    BY <1>u DEF Tree, At, Invariant, Typed, CallsTyped, CallOK, CallFields, Movable
  <1>1. StoresTyped'
    <2>1. Held(u) \cup {b.node} \subseteq Movable
      BY <1>u, <1>0, HeldTyped DEF Tree, Invariant
    <2>2. PICK h : h = Held(u) \cup {b.node}
      OBVIOUS
    <2>3. trees \in [Folder -> {Uncached} \cup SUBSET Movable]
      BY DEF Invariant, Typed, StoresTyped
    <2>4. trees' = [trees EXCEPT ![b.to] = h,
                                 ![up[b.node]] = IF @ = Uncached THEN @ ELSE @ \ {b.node}]
      BY <2>2 DEF Tree
    <2>5. trees' \in [Folder -> {Uncached} \cup SUBSET Movable]
      BY <1>0, <2>1, <2>2, <2>3, <2>4
    <2>6. crossed' \subseteq Folder
      BY <1>u, CrossedTyped DEF Tree, Invariant
    <2>. QED
      BY <2>5, <2>6 DEF Tree, history, Invariant, Typed, StoresTyped
  <1>2. PICK c : c = [b EXCEPT !.step = "write", !.read = Uncached]
    OBVIOUS
  <1>3. CallOK(c) /\ AtStep(c, b, "write")
    <2>1. InStep(c)
      BY <1>0, <1>2 DEF CallOK, CallFields, InStep
    <2>. QED
      BY <1>0, <1>2, <2>1, StepOK
  <1>4. CallsTyped' /\ Becomes(u, c)
    BY <1>u, <1>2, <1>3, GoesOn DEF Invariant, AtStep, GoesTo, Tree
  <1>5. Follows(u, c, b)
    BY <1>0, <1>u, <1>3 DEF AtStep, Follows, IsRemoving, Drops
  <1>. QED
    BY <1>u, <1>0, <1>1, <1>3, <1>4, <1>5, QuietStep
       DEF Tree, history, AtStep, IsWriting, IsLooking, IsDeleting, IsComing

LEMMA LockDeletionKeeps ==
  ASSUME Invariant, NEW t \in Thread, LockDeletion(t)
  PROVE  Invariant'
  <1>. DEFINE b == call[t]
  <1>0. CallOK(b) /\ b.op = "delete" /\ b.step = "lock" /\ b.node \in Node /\ MayWrite(t, b.node)
    BY DEF LockDeletion, Deleting, At, Invariant, Typed, CallsTyped, CallOK, CallFields
  <1>1. StoresTyped'
    BY DEF LockDeletion, history, Invariant, Typed, StoresTyped
  <1>2. PICK s : s = IF b.node \in Folder THEN "check" ELSE "archive"
    OBVIOUS
  <1>3. PICK c : c = [b EXCEPT !.step = s, !.read = Uncached]
    OBVIOUS
  <1>4. CallOK(c) /\ AtStep(c, b, s)
    <2>1. InStep(c)
      BY <1>0, <1>2, <1>3 DEF CallOK, CallFields, InStep
    <2>2. s = "check" => b.node \in Folder
      BY <1>2
    <2>. QED
      BY <1>0, <1>3, <2>1, <2>2, StepOK
  <1>5. CallsTyped' /\ Becomes(t, c)
    BY <1>2, <1>3, <1>4, GoesOn DEF Invariant, AtStep, GoesTo, LockDeletion
  <1>6. Follows(t, c, b)
    BY <1>0, <1>2, <1>4 DEF AtStep, Follows, SameCall, IsRemoving, Drops
  <1>7. IsDeleting(c) => Minded(c.node, up', strays' \cup failed')
    <2>1. IsDeleting(c) => c.node \in Node \ Folder
      BY <1>0, <1>2, <1>4 DEF AtStep, IsDeleting
    <2>2. StoresTyped /\ UNCHANGED up
      BY DEF Invariant, Typed, LockDeletion
    <2>. QED
      BY <2>1, <2>2, DocumentsMinded
  <1>. QED
    BY <1>0, <1>1, <1>4, <1>5, <1>6, <1>7, QuietStep
       DEF LockDeletion, history, AtStep, IsLooking, IsComing

\* What is not refused either was emptied by deleteTree, or lists nothing: then
\* what it holds nevertheless is a stray.
LEMMA CheckKeeps ==
  ASSUME Invariant, NEW t \in Thread, Check(t)
  PROVE  Invariant'
  <1>. DEFINE b == call[t]
  <1>0. /\ CallOK(b) /\ b.op = "delete" /\ b.step = "check" /\ b.node \in Folder /\ b.with \in BOOLEAN
        /\ UNCHANGED <<up, archives, filed, tasks, budget, made, destroyed, failed, brought, raced>>
    BY DEF Check, Deleting, At, Invariant, Typed, CallsTyped, CallOK, CallFields
  <1>h. Held(t) \subseteq Movable
    BY HeldTyped DEF Check, Invariant
  <1>s. strays \subseteq strays' /\ strays' \subseteq Node
    BY DEF Check, Children, Invariant, Typed, StoresTyped
  <1>1. StoresTyped'
    <2>1. trees' \in [Folder -> {Uncached} \cup SUBSET Movable]
      BY <1>h, TreesTyped DEF Check, Invariant
    <2>2. crossed' \subseteq Folder
      BY CrossedTyped DEF Check, Invariant
    <2>. QED
      BY <1>0, <1>s, <2>1, <2>2 DEF Invariant, Typed, StoresTyped
  <1>2. CASE Refused(t)
    <2>1. t \in User
      BY <1>0, <1>2, NodeFacts DEF Refused, Invariant, Typed, CallsTyped
    <2>. QED
      BY <1>0, <1>1, <1>2, <1>s, <2>1, EndStep DEF Check
  <1>3. CASE ~Refused(t)
    <2>1. PICK c : c = [b EXCEPT !.step = "archive", !.read = Uncached]
      OBVIOUS
    <2>2. CallOK(c) /\ AtStep(c, b, "archive")
      <3>1. InStep(c)
        BY <1>0, <2>1 DEF CallOK, CallFields, InStep
      <3>. QED
        BY <1>0, <2>1, <3>1, StepOK
    <2>3. CallsTyped' /\ Becomes(t, c)
      BY <1>3, <2>1, <2>2, GoesOn DEF Invariant, AtStep, GoesTo, Check
    <2>4. Follows(t, c, b)
      BY <1>0, <2>2 DEF AtStep, Follows, SameCall, IsRemoving, Drops
    <2>5. ASSUME b.with PROVE Minded(b.node, up', strays' \cup failed')
      <3>1. t \in Worker
        BY <1>0, <2>5, NodeFacts DEF Invariant, Typed, CallsTyped
      <3>2. PICK k \in tasks : k.thread = t
        BY <1>0, <3>1 DEF Invariant, Assigned
      <3>3. k.node = b.node
        BY <3>1, <3>2, NodeFacts DEF Invariant, Assigned
      <3>4. Minded(b.node, up, strays \cup failed)
        BY <3>2, <3>3 DEF Invariant, Emptied
      <3>. QED
        BY <1>0, <1>s, <3>4 DEF Minded
    <2>6. ASSUME ~b.with PROVE Minded(b.node, up', strays' \cup failed')
      <3>1. Held(t) \cap Live = {}
        BY <1>3, <2>6 DEF Refused
      <3>2. strays' = strays \cup (Children(b.node) \ Held(t))
        BY <1>3, <2>6 DEF Check
      <3>3. ASSUME NEW n \in Movable, up[n] = b.node PROVE n \in strays'
        <4>1. n \in Children(b.node) /\ n \in Live
          BY <1>0, <3>3, NodeFacts DEF Children, Live, Movable
        <4>. QED
          BY <4>1, <3>1, <3>2
      <3>. QED
        BY <1>0, <3>3 DEF Minded
    <2>7. Minded(b.node, up', strays' \cup failed')
      BY <2>5, <2>6
    <2>. QED
      BY <1>0, <1>1, <1>s, <2>2, <2>3, <2>4, <2>7, QuietStep
         DEF AtStep, IsWriting, IsLooking, IsComing
  <1>. QED
    BY <1>2, <1>3

LEMMA ExpireKeeps ==
  ASSUME Invariant, NEW f \in Folder, Expire(f)
  PROVE  Invariant'
  <1>0. /\ UNCHANGED <<up, archives, filed, call, tasks, made, destroyed, strays, failed, brought, raced>>
        /\ budget' \in 0 .. Budget /\ crossed' \subseteq Folder
        /\ trees' \in [Folder -> {Uncached} \cup SUBSET Movable]
    BY FolderTreeAssumptions DEF Expire, history, Invariant, Typed, StoresTyped
  <1>1. Typed'
    BY <1>0 DEF Invariant, Typed, StoresTyped, CallsTyped
  <1>2. Assigned' /\ Excludes'
    BY <1>0 DEF Invariant, Assigned, Excludes
  <1>3. Removing' /\ Numbered'
    BY <1>0 DEF Invariant, Removing, Numbered, Dropped, Live
  <1>4. Kept'
    BY <1>0 DEF Invariant, Kept, Safe, Dropped, Live
  <1>5. Listed' /\ Emptied'
    BY <1>0 DEF Invariant, Listed, Emptied
  <1>6. Parented' /\ Checked' /\ Distinct'
    BY <1>0 DEF Invariant, Parented, Checked, Distinct, NameExcused, Live
  <1>. QED
    BY <1>1, <1>2, <1>3, <1>4, <1>5, <1>6 DEF Invariant

-----------------------------------------------------------------------------
(***************************************************************************)
(* Steps that put a node in a folder                                       *)
(***************************************************************************)

LEMMA ArrivalStep ==
  ASSUME Invariant, NEW t \in User, NEW c, CallOK(c), CallsTyped', StoresTyped', Becomes(t, c),
         NEW n \in Movable, NEW f \in Folder, up' = [up EXCEPT ![n] = f],
         strays' = IF Leaving(f) THEN strays \cup {n} ELSE strays,
         UNCHANGED <<archives, filed, tasks, failed, destroyed, raced>>, brought \subseteq brought',
         ~IsWriting(c), ~IsLooking(c), ~IsDeleting(c), ~IsComing(c), c.op # "deleteTree",
         \/ n \in brought'
         \/ IsComing(call[t]) /\ n = call[t].node /\ f = call[t].to,
         \A a \in Archived : Drops(c, a) => Drops(call[t], a) \/ a \in archives,
         Kept'
  PROVE  Invariant'
  <1>t. t \in Thread /\ t \notin Worker
    BY NodeFacts
  <1>n. n \in Node /\ f # Absent
    BY NodeFacts DEF Movable
  <1>0. up'[n] = f /\ \A m \in Node \ {n} : up'[m] = up[m]
    BY <1>n DEF Invariant, Typed, StoresTyped
  <1>1. Typed'
    BY DEF Typed
  <1>2. Live \subseteq Live'
    BY <1>0, <1>n DEF Live
  <1>3. MoreExcused /\ ArrivesExcused /\ TasksDone
    <2>1. MoreExcused /\ TasksDone
      BY DEF MoreExcused, TasksDone
    <2>2. ArrivesExcused
      BY <1>0, <1>n DEF ArrivesExcused, Movable
    <2>. QED
      BY <2>1, <2>2
  <1>4. Assigned'
    BY <1>t, KeepsAssigned DEF Invariant
  <1>5. Excludes'
    BY <1>t, KeepsExcludes DEF Invariant
  <1>6. Removing'
    BY <1>2, <1>t, KeepsRemoving DEF Invariant, IsRemoving, IsDeleting
  <1>7. Numbered'
    <2>1. \A m \in Node : filed[m] <= filed'[m] /\ filed'[m] \in Nat
      BY DEF Invariant, Typed, StoresTyped
    <2>. QED
      BY <1>t, <2>1, KeepsNumbered DEF Invariant
  <1>8. Listed'
    BY <1>3, <1>t, KeepsListed DEF Invariant
  <1>9. Emptied'
    BY <1>3, <1>t, KeepsEmptied DEF Invariant, Typed
  <1>10. Parented'
    BY <1>2, <1>3, KeepsParented DEF Invariant, Typed
  <1>11. Checked'
    <2>1. \A m \in Movable : \/ up'[m] = up[m] \/ up'[m] = Absent \/ m \in brought'
                             \/ IsComing(call[t]) /\ m = call[t].node /\ up'[m] = call[t].to
      BY <1>0, <1>n DEF Movable
    <2>. QED
      BY <2>1, <1>t, KeepsChecked DEF Invariant
  <1>12. Distinct'
    <2>1. \A m \in Movable : \/ up'[m] = up[m] \/ up'[m] = Absent \/ m \in brought'
                             \/ /\ IsComing(call[t]) /\ m = call[t].node /\ up'[m] = call[t].to
                                /\ \A l \in Movable \ {m} : up'[l] = up[l]
      BY <1>0, <1>n DEF Movable
    <2>. QED
      BY <2>1, <1>t, KeepsDistinct DEF Invariant
  <1>. QED
    BY <1>1, <1>4, <1>5, <1>6, <1>7, <1>8, <1>9, <1>10, <1>11, <1>12 DEF Invariant

LEMMA WriteKeeps ==
  ASSUME Invariant, NEW u \in User, Write(u)
  PROVE  Invariant'
  <1>. DEFINE b == call[u]
  <1>u. u \in Thread /\ u \notin Worker
    BY NodeFacts
  <1>0. /\ CallOK(b) /\ b.op = "create" /\ b.step = "write" /\ b.node \in Movable /\ b.to \in Folder
    BY <1>u DEF Write, At, Invariant, Typed, CallsTyped, CallOK, CallFields, Movable
  <1>1. PICK n, f : n = b.node /\ f = b.to
    OBVIOUS
  <1>2. /\ up' = [up EXCEPT ![n] = f] /\ made' = made \cup {n}
        /\ strays' = IF Leaving(f) THEN strays \cup {n} ELSE strays
        /\ UNCHANGED <<archives, filed, trees, tasks, budget, crossed, destroyed, failed, brought, raced>>
    BY <1>1 DEF Write
  <1>3. n \in Node /\ n # Root /\ f \in Folder
    BY <1>0, <1>1 DEF Movable
  <1>4. StoresTyped'
    BY <1>2, <1>3 DEF Invariant, Typed, StoresTyped
  <1>5. PICK c : c = [b EXCEPT !.step = "list", !.read = Uncached]
    OBVIOUS
  <1>6. CallOK(c) /\ AtStep(c, b, "list")
    <2>1. InStep(c)
      BY <1>0, <1>5 DEF CallOK, CallFields, InStep
    <2>. QED
      BY <1>0, <1>5, <2>1, StepOK
  <1>7. CallsTyped' /\ Becomes(u, c)
    BY <1>u, <1>5, <1>6, GoesOn DEF Invariant, AtStep, GoesTo, Write
  <1>8. Live \subseteq Live' /\ n \in Live'
    BY <1>2, <1>3, NodeFacts DEF Live, Invariant, Typed, StoresTyped
  <1>9. \A a : ~Drops(c, a)
    BY <1>0, <1>6 DEF AtStep, Drops
  <1>10. ~IsWriting(c) /\ ~IsLooking(c) /\ ~IsDeleting(c) /\ ~IsComing(c) /\ ~IsRemoving(c) /\ c.op # "deleteTree"
    BY <1>0, <1>6 DEF AtStep, IsWriting, IsLooking, IsDeleting, IsComing, IsRemoving
  <1>11. Kept'
    BY <1>u, <1>2, <1>7, <1>8, <1>9, <1>10, KeepsKept DEF Invariant
  <1>12. IsComing(b) /\ n \in Movable
    BY <1>0, <1>1 DEF IsComing
  <1>. QED
    BY <1>1, <1>2, <1>3, <1>4, <1>6, <1>7, <1>9, <1>10, <1>11, <1>12, ArrivalStep

LEMMA PutKeeps ==
  ASSUME Invariant, NEW u \in User, Put(u)
  PROVE  Invariant'
  <1>. DEFINE b == call[u]
  <1>u. u \in Thread /\ u \notin Worker
    BY NodeFacts
  <1>0. CallOK(b) /\ b.op = "move" /\ b.step = "write" /\ b.node \in Movable /\ b.to \in Folder
    BY <1>u DEF Put, At, Invariant, Typed, CallsTyped, CallOK, CallFields, Movable
  <1>1. PICK n, f : n = b.node /\ f = b.to
    OBVIOUS
  <1>2. /\ up' = [up EXCEPT ![n] = f]
        /\ strays' = IF Leaving(f) THEN strays \cup {n} ELSE strays
        /\ UNCHANGED <<archives, filed, trees, tasks, budget, crossed, made, destroyed, failed, brought, raced>>
    BY <1>1 DEF Put
  <1>3. n \in Node /\ n # Root /\ f \in Folder
    BY <1>0, <1>1 DEF Movable
  <1>4. StoresTyped'
    BY <1>2, <1>3 DEF Invariant, Typed, StoresTyped
  <1>7. CallsTyped' /\ Becomes(u, Rest)
    BY <1>u, RestOK, CallsKept DEF Put, Ends, Goes, Invariant, Typed
  <1>8. Live \subseteq Live'
    BY <1>2, <1>3, NodeFacts DEF Live, Invariant, Typed, StoresTyped
  <1>9. \A a : ~Drops(Rest, a)
    BY RestOK DEF Drops
  <1>10. /\ ~IsWriting(Rest) /\ ~IsLooking(Rest) /\ ~IsDeleting(Rest) /\ ~IsComing(Rest)
         /\ ~IsRemoving(Rest) /\ Rest.op # "deleteTree"
    BY RestOK DEF IsWriting, IsLooking, IsDeleting, IsComing, IsRemoving
  <1>11. Kept'
    BY <1>u, <1>2, <1>7, <1>8, <1>9, <1>10, KeepsKept DEF Invariant
  <1>12. IsComing(b) /\ n \in Movable
    BY <1>0, <1>1 DEF IsComing
  <1>. QED
    BY <1>1, <1>2, <1>3, <1>4, <1>7, <1>9, <1>10, <1>11, <1>12, RestOK, ArrivalStep

-----------------------------------------------------------------------------
(***************************************************************************)
(* Restores                                                                *)
(***************************************************************************)

\* The restored node is there; of the other nodes' archives none becomes one
\* that is going to be dropped.
LEMMA ReviveKeepsKept ==
  ASSUME Invariant, NEW u \in User, NEW c, Becomes(u, c), NEW a \in archives,
         a.node \notin Live, a.node \in Live', Live \subseteq Live',
         UNCHANGED <<archives, destroyed, made>>,
         \A x \in archives : Drops(c, x) => Drops(call[u], x) \/ x = a, ~IsRemoving(c)
  PROVE  Kept'
  <1>u. u \in Thread
    BY NodeFacts
  <1>1. ASSUME NEW n, n # a.node, Safe(n) PROVE Safe(n)'
    <2>1. PICK x \in archives : x.node = n /\ ~Dropped(x)
      BY <1>1 DEF Safe
    <2>2. x # a
      BY <1>1, <2>1
    <2>3. ~Dropped(x)'
      BY <1>u, <2>1, <2>2 DEF Dropped, Becomes
    <2>. QED
      BY <2>1, <2>3 DEF Safe
  <1>2. \A n \in made' : n \in Live' \/ n \in destroyed' \/ Safe(n)'
    BY <1>1 DEF Invariant, Kept
  <1>3. ASSUME NEW o \in Thread, IsRemoving(call'[o]), NEW n, n = call'[o].node
        PROVE  n \in destroyed' \/ Safe(n)'
    <2>1. IsRemoving(call[o]) /\ n = call[o].node
      BY <1>3 DEF Becomes
    <2>2. n # a.node
      BY <2>1 DEF Invariant, Removing
    <2>. QED
      BY <2>1, <2>2, <1>1 DEF Invariant, Kept
  <1>. QED
    BY <1>2, <1>3 DEF Kept, Safe

LEMMA RestoreCall ==
  ASSUME NEW b, CallOK(b), b.op = "restore"
  PROVE  /\ b \in CallFields /\ b.stack \in Seq(RestoreEntry) /\ b.stack # <<>>
         /\ b.stack[Len(b.stack)].of = Absent /\ Head(b.stack) = b.stack[1]
         /\ b.stack[1] \in RestoreEntry /\ 1 \in DOMAIN b.stack
  <1>1. /\ b \in CallFields /\ b.stack \in Seq(RestoreEntry) /\ b.stack # <<>>
        /\ b.stack[Len(b.stack)].of = Absent
    BY DEF CallOK
  <1>. QED
    BY <1>1

Pops(c, b, a) == c = [b EXCEPT !.stack[1].todo = @ \ {a}]
LEMMA PoppedOK ==
  ASSUME NEW b, CallOK(b), b.op = "restore", b.step = "climb", NEW a, NEW c, Pops(c, b, a)
  PROVE  /\ CallOK(c) /\ c.op = "restore" /\ c.step = "climb" /\ c.with = b.with
         /\ \A x : Drops(c, x) => Drops(b, x)
  <1>. DEFINE s == b.stack
  <1>0. /\ b \in CallFields /\ s \in Seq(RestoreEntry) /\ s # <<>>
        /\ s[Len(s)].of = Absent /\ s[1] \in RestoreEntry
    BY RestoreCall
  <1>1. PICK e : e = [s[1] EXCEPT !.todo = @ \ {a}]
    OBVIOUS
  <1>2. e \in RestoreEntry /\ e.of = s[1].of
    BY <1>0, <1>1 DEF RestoreEntry
  <1>3. PICK r : r = [s EXCEPT ![1] = e]
    OBVIOUS
  <1>4. /\ r \in Seq(RestoreEntry) /\ r # <<>> /\ Len(r) = Len(s) /\ DOMAIN r = DOMAIN s
        /\ r[1] = e /\ \A i \in DOMAIN s : i # 1 => r[i] = s[i]
    BY <1>0, <1>2, <1>3, TopChanged
  <1>5. \A i \in DOMAIN s : r[i].of = s[i].of
    BY <1>2, <1>4
  <1>6. c = [b EXCEPT !.stack = r]
    BY <1>0, <1>1, <1>3 DEF CallFields, Pops
  <1>7. /\ c.stack = r /\ c.op = b.op /\ c.step = b.step /\ c.with = b.with /\ c.of = b.of
        /\ c.node = b.node /\ c.to = b.to
    BY <1>0, <1>6 DEF CallFields
  <1>8. c \in CallFields
    BY <1>0, <1>4, <1>6 DEF CallFields
  <1>9. r[Len(r)].of = Absent
    <2>1. Len(s) \in DOMAIN s
      BY <1>0
    <2>. QED
      BY <1>0, <1>4, <1>5, <2>1
  <1>10. CallOK(c)
    BY <1>4, <1>7, <1>8, <1>9 DEF CallOK, InStep
  <1>11. \A x : Drops(c, x) => Drops(b, x)
    BY <1>4, <1>5, <1>7 DEF Drops
  <1>. QED
    BY <1>7, <1>10, <1>11

LEMMA RestoreFolderKeeps ==
  ASSUME Invariant, NEW u \in User, RestoreFolder(u)
  PROVE  Invariant'
  <1>. DEFINE b == call[u]
  <1>u. u \in Thread /\ u \notin Worker
    BY NodeFacts
  <1>0. PICK a \in Top(u).todo \cap archives :
          /\ b.op = "restore" /\ b.step = "climb" /\ a.node \in Folder \ Live /\ a.up \in Live
          /\ Revive(u, a)
          /\ Goes(u, [Popped(u, a) EXCEPT !.stack = <<[of |-> a, todo |-> ChildArchives(a.node)]>> \o @])
          /\ UNCHANGED <<archives, filed, trees, tasks, budget, crossed, made, destroyed, failed, raced>>
    BY DEF RestoreFolder, At
  <1>1. a \in Archived /\ CallOK(b)
    BY <1>0, <1>u DEF Invariant, Typed, StoresTyped, CallsTyped
  <1>2. a.node \in Movable /\ a.up \in Folder
    BY <1>1 DEF Archived
  <1>3. PICK n, f : n = a.node /\ f = a.up
    OBVIOUS
  <1>4. /\ up' = [up EXCEPT ![n] = f] /\ brought' = brought \cup {n}
        /\ strays' = IF Leaving(f) THEN strays \cup {n} ELSE strays
    BY <1>0, <1>3 DEF Revive
  <1>5. StoresTyped'
    BY <1>0, <1>2, <1>3, <1>4 DEF Invariant, Typed, StoresTyped, Movable
  <1>6. PICK d : d = [b EXCEPT !.stack[1].todo = @ \ {a}]
    OBVIOUS
  <1>7. /\ CallOK(d) /\ d.op = "restore" /\ d.step = "climb" /\ d.with = b.with
        /\ \A x : Drops(d, x) => Drops(b, x)
    <2>1. CallOK(b) /\ b.op = "restore" /\ b.step = "climb"
      BY <1>0, <1>1
    <2>2. Pops(d, b, a)
      BY <1>6 DEF Pops
    <2>. QED
      BY <2>1, <2>2, PoppedOK
  <1>8. PICK e : e = [of |-> a, todo |-> ChildArchives(a.node)]
    OBVIOUS
  <1>9. e \in RestoreEntry /\ e.of = a
    BY <1>1, <1>8 DEF RestoreEntry, ChildArchives, Invariant, Typed, StoresTyped
  <1>10. PICK p : p = <<e>> \o d.stack
    OBVIOUS
  <1>11. /\ d \in CallFields /\ d.stack \in Seq(RestoreEntry) /\ d.stack # <<>>
         /\ d.stack[Len(d.stack)].of = Absent
    BY <1>7, RestoreCall
  <1>12. /\ p \in Seq(RestoreEntry) /\ p # <<>> /\ Len(p) = Len(d.stack) + 1 /\ p[1] = e
         /\ \A i \in DOMAIN p : i # 1 => i - 1 \in DOMAIN d.stack /\ p[i] = d.stack[i - 1]
    BY <1>9, <1>10, <1>11, Pushed
  <1>13. PICK c : c = [d EXCEPT !.stack = p]
    OBVIOUS
  <1>14. /\ c.stack = p /\ c.op = "restore" /\ c.step = "climb" /\ c.with = b.with
         /\ c \in CallFields
    BY <1>7, <1>11, <1>12, <1>13 DEF CallFields
  <1>15. CallOK(c)
    <2>1. p[Len(p)].of = Absent
      <3>1. Len(d.stack) \in Nat /\ Len(d.stack) # 0 /\ Len(p) \in DOMAIN p
        BY <1>11, <1>12
      <3>2. Len(p) # 1 /\ Len(p) - 1 = Len(d.stack)
        BY <1>12, <3>1
      <3>. QED
        BY <1>11, <1>12, <3>1, <3>2
    <2>. QED
      BY <1>12, <1>14, <2>1 DEF CallOK, InStep
  <1>16. ASSUME NEW x, Drops(c, x) PROVE Drops(b, x) \/ x = a
    <2>1. PICK i \in DOMAIN p : p[i].of = x /\ x # Absent
      BY <1>14, <1>16 DEF Drops
    <2>2. CASE i = 1
      BY <2>1, <2>2, <1>9, <1>12
    <2>3. CASE i # 1
      BY <2>1, <2>3, <1>7, <1>12 DEF Drops
    <2>. QED
      BY <2>2, <2>3
  <1>17. Goes(u, c)
    BY <1>0, <1>6, <1>8, <1>10, <1>13 DEF Popped
  <1>18. CallsTyped' /\ Becomes(u, c)
    BY <1>u, <1>0, <1>14, <1>15, <1>17, GoesOn DEF Invariant
  <1>19. Live \subseteq Live' /\ n \in Live' /\ n \notin Live
    BY <1>0, <1>2, <1>3, <1>4, NodeFacts DEF Live, Movable, Invariant, Typed, StoresTyped
  <1>20. ~IsWriting(c) /\ ~IsLooking(c) /\ ~IsDeleting(c) /\ ~IsComing(c) /\ ~IsRemoving(c) /\ c.op # "deleteTree"
    BY <1>14 DEF IsWriting, IsLooking, IsDeleting, IsComing, IsRemoving
  <1>21. Kept'
    BY <1>0, <1>3, <1>16, <1>18, <1>19, <1>20, ReviveKeepsKept
  <1>. QED
    BY <1>0, <1>2, <1>3, <1>4, <1>5, <1>15, <1>16, <1>18, <1>20, <1>21, ArrivalStep

LEMMA RestoreDocumentKeeps ==
  ASSUME Invariant, NEW u \in User, RestoreDocument(u)
  PROVE  Invariant'
  <1>. DEFINE b == call[u]
  <1>u. u \in Thread /\ u \notin Worker
    BY NodeFacts
  <1>0. PICK a \in Top(u).todo \cap archives :
          /\ b.op = "restore" /\ b.step = "climb" /\ a.node \in Document /\ a.up \in Live
          /\ IF a.node \in Live
             THEN Goes(u, Popped(u, a)) /\ UNCHANGED <<up, brought, strays>>
             ELSE /\ Revive(u, a)
                  /\ Goes(u, [Popped(u, a) EXCEPT !.step = "list", !.node = a.node, !.to = a.up, !.of = a])
          /\ UNCHANGED <<archives, filed, trees, tasks, budget, crossed, made, destroyed, failed, raced>>
    BY DEF RestoreDocument, At
  <1>1. a \in Archived /\ CallOK(b)
    BY <1>0, <1>u DEF Invariant, Typed, StoresTyped, CallsTyped
  <1>2. a.node \in Movable /\ a.node \in Node /\ a.up \in Folder
    BY <1>1 DEF Archived, Movable
  <1>3. PICK n, f : n = a.node /\ f = a.up
    OBVIOUS
  <1>6. PICK d : d = [b EXCEPT !.stack[1].todo = @ \ {a}]
    OBVIOUS
  <1>7. /\ CallOK(d) /\ d.op = "restore" /\ d.step = "climb" /\ d.with = b.with
        /\ \A x : Drops(d, x) => Drops(b, x)
    <2>1. CallOK(b) /\ b.op = "restore" /\ b.step = "climb"
      BY <1>0, <1>1
    <2>2. Pops(d, b, a)
      BY <1>6 DEF Pops
    <2>. QED
      BY <2>1, <2>2, PoppedOK
  <1>8. CASE n \in Live
    <2>1. Goes(u, d) /\ UNCHANGED <<up, brought, strays>>
      BY <1>0, <1>3, <1>6, <1>8 DEF Popped
    <2>2. CallsTyped' /\ Becomes(u, d)
      BY <1>u, <1>0, <1>7, <2>1, GoesOn DEF Invariant
    <2>3. StoresTyped'
      BY <1>0, <2>1 DEF Invariant, Typed, StoresTyped
    <2>4. Follows(u, d, b)
      BY <1>u, <1>7 DEF Follows, IsRemoving
    <2>5. ~IsWriting(d) /\ ~IsLooking(d) /\ ~IsDeleting(d) /\ ~IsComing(d) /\ d.op # "deleteTree"
      BY <1>7 DEF IsWriting, IsLooking, IsDeleting, IsComing
    <2>. QED
      BY <1>u, <1>0, <1>7, <2>1, <2>2, <2>3, <2>4, <2>5, QuietStep
  <1>9. CASE n \notin Live
    <2>1. /\ up' = [up EXCEPT ![n] = f] /\ brought' = brought \cup {n}
          /\ strays' = IF Leaving(f) THEN strays \cup {n} ELSE strays
      BY <1>0, <1>3, <1>9 DEF Revive
    <2>2. StoresTyped'
      BY <1>0, <1>2, <1>3, <2>1 DEF Invariant, Typed, StoresTyped, Movable
    <2>3. PICK c : c = [d EXCEPT !.step = "list", !.node = n, !.to = f, !.of = a]
      OBVIOUS
    <2>4. d \in CallFields
      BY <1>7, RestoreCall
    <2>5. /\ c.stack = d.stack /\ c.op = "restore" /\ c.step = "list" /\ c.with = b.with
          /\ c.of = a /\ c \in CallFields
      BY <1>1, <1>2, <1>3, <1>7, <2>3, <2>4 DEF CallFields
    <2>6. CallOK(c)
      <3>1. c.node # Root
        BY <1>2, <1>3, <2>3, <2>4 DEF CallFields, Movable
      <3>. QED
        BY <1>1, <1>7, <2>5, <3>1 DEF CallOK, InStep
    <2>7. \A x : Drops(c, x) => Drops(b, x) \/ x = a
      BY <1>7, <2>5 DEF Drops
    <2>8. Goes(u, c)
      BY <1>0, <1>3, <1>6, <1>9, <2>3 DEF Popped
    <2>9. CallsTyped' /\ Becomes(u, c)
      BY <1>u, <1>0, <2>5, <2>6, <2>8, GoesOn DEF Invariant
    <2>10. Live \subseteq Live' /\ n \in Live'
      BY <1>2, <1>3, <2>1, NodeFacts DEF Live, Invariant, Typed, StoresTyped
    <2>11. ~IsWriting(c) /\ ~IsLooking(c) /\ ~IsDeleting(c) /\ ~IsComing(c) /\ ~IsRemoving(c) /\ c.op # "deleteTree"
      BY <2>5 DEF IsWriting, IsLooking, IsDeleting, IsComing, IsRemoving
    <2>12. Kept'
      BY <1>0, <1>3, <1>9, <2>7, <2>9, <2>10, <2>11, ReviveKeepsKept
    <2>. QED
      BY <1>0, <1>2, <1>3, <2>1, <2>2, <2>6, <2>7, <2>9, <2>11, <2>12, ArrivalStep
  <1>. QED
    BY <1>8, <1>9

\* What a call drops was not what keeps a node.
LEMMA DropStep ==
  ASSUME Invariant, NEW u \in User, NEW c, CallOK(c), CallsTyped', StoresTyped', Becomes(u, c),
         UNCHANGED <<up, filed, tasks, history>>, c.op \in {"none", "restore"},
         archives' \subseteq archives, \A a \in archives \ archives' : Drops(call[u], a),
         \A a : Drops(c, a) => Drops(call[u], a)
  PROVE  Invariant'
  <1>u. u \in Thread /\ u \notin Worker
    BY NodeFacts
  <1>0. UNCHANGED <<up, filed, tasks, made, destroyed, strays, failed, brought, raced>>
    BY DEF history
  <1>c. /\ ~IsWriting(c) /\ ~IsLooking(c) /\ ~IsDeleting(c) /\ ~IsComing(c) /\ ~IsRemoving(c)
        /\ c.op # "deleteTree"
    BY DEF IsWriting, IsLooking, IsDeleting, IsComing, IsRemoving
  <1>1. Typed'
    BY DEF Typed
  <1>2. Live' = Live /\ MoreExcused /\ ArrivesExcused /\ TasksDone
    BY <1>0 DEF Live, MoreExcused, ArrivesExcused, TasksDone
  <1>3. Assigned'
    BY <1>u, <1>0, KeepsAssigned DEF Invariant
  <1>4. Excludes'
    BY <1>u, <1>c, KeepsExcludes DEF Invariant
  <1>5. Removing'
    BY <1>u, <1>c, <1>2, KeepsRemoving DEF Invariant
  <1>6. Numbered'
    <2>1. \A n \in Node : filed[n] <= filed'[n] /\ filed'[n] \in Nat
      BY <1>0 DEF StoresTyped
    <2>. QED
      BY <1>u, <2>1, KeepsNumbered DEF Invariant
  <1>7. Kept'
    <2>1. ASSUME NEW n, Safe(n) PROVE Safe(n)'
      <3>1. PICK a \in archives : a.node = n /\ ~Dropped(a)
        BY <2>1 DEF Safe
      <3>2. a \in archives'
        BY <1>u, <3>1 DEF Dropped
      <3>3. ~Dropped(a)'
        BY <1>u, <3>1 DEF Dropped, Becomes
      <3>. QED
        BY <3>1, <3>2, <3>3 DEF Safe
    <2>2. \A n \in made' : n \in Live' \/ n \in destroyed' \/ Safe(n)'
      BY <1>0, <1>2, <2>1 DEF Invariant, Kept
    <2>3. ASSUME NEW o \in Thread, IsRemoving(call'[o]), NEW n, n = call'[o].node
          PROVE  n \in destroyed' \/ Safe(n)'
      <3>1. IsRemoving(call[o]) /\ n = call[o].node
        BY <1>c, <2>3 DEF Becomes
      <3>. QED
        BY <1>0, <3>1, <2>1 DEF Invariant, Kept
    <2>. QED
      BY <2>2, <2>3 DEF Kept, Safe
  <1>8. Listed'
    BY <1>u, <1>c, <1>2, KeepsListed DEF Invariant
  <1>9. Emptied'
    BY <1>u, <1>c, <1>0, <1>2, KeepsEmptied DEF Invariant, Typed
  <1>10. Parented'
    BY <1>2, KeepsParented DEF Invariant, Typed
  <1>11. Checked'
    BY <1>u, <1>c, <1>0, KeepsChecked DEF Invariant
  <1>12. Distinct'
    BY <1>u, <1>0, KeepsDistinct DEF Invariant
  <1>. QED
    BY <1>1, <1>3, <1>4, <1>5, <1>6, <1>7, <1>8, <1>9, <1>10, <1>11, <1>12 DEF Invariant

LEMMA ListRestoredKeeps ==
  ASSUME Invariant, NEW u \in User, ListRestored(u)
  PROVE  Invariant'
  <1>. DEFINE b == call[u]
  <1>u. u \in Thread
    BY NodeFacts
  <1>0. /\ b.op = "restore" /\ b.step = "list" /\ Holds(u) /\ archives' = archives \ {b.of}
        /\ UNCHANGED <<up, filed, tasks, budget, history>>
    BY DEF ListRestored, At
  <1>1. CallOK(b) /\ b.node \in Movable /\ b.to \in Folder
    BY <1>u, <1>0 DEF Invariant, Typed, CallsTyped, CallOK, CallFields, Movable
  <1>2. archives' \subseteq archives /\ \A a \in archives \ archives' : Drops(b, a)
    BY <1>0 DEF Drops
  <1>3. CASE b.node \in Live
    <2>1. Held(u) \cup {b.node} \subseteq Movable
      BY <1>u, <1>0, <1>1, HeldTyped DEF Invariant
    <2>2. trees' \in [Folder -> {Uncached} \cup SUBSET Movable]
      BY <1>u, <1>0, <1>3, <2>1, TreesTyped DEF ListRestored, Invariant
    <2>3. crossed' \subseteq Folder
      <3>1. CASE Crosses(u)
        BY <1>u, <1>0, <3>1, CrossedTyped DEF Invariant
      <3>2. CASE crossed' = crossed \cup {b.to}
        BY <1>1, <3>2 DEF Invariant, Typed, StoresTyped
      <3>3. Crosses(u) \/ crossed' = crossed \cup {b.to}
        <4>1. ListsLate(u)
          BY <1>3 DEF ListRestored
        <4>. QED
          BY ONLY <4>1 DEF ListsLate
      <3>. QED
        BY <3>1, <3>2, <3>3
    <2>4. StoresTyped'
      BY <1>0, <1>2, <2>2, <2>3 DEF history, Invariant, Typed, StoresTyped
    <2>5. PICK c : c = [b EXCEPT !.step = "climb", !.read = Uncached]
      OBVIOUS
    <2>6. CallOK(c) /\ AtStep(c, b, "climb")
      <3>1. InStep(c)
        BY <1>0, <1>1, <2>5 DEF CallOK, CallFields, InStep
      <3>2. CallOK(b) /\ b.op = "restore"
        BY <1>0, <1>1
      <3>. QED
        BY <2>5, <3>1, <3>2, StepOK
    <2>7. CallsTyped' /\ Becomes(u, c)
      BY <1>u, <1>3, <2>5, <2>6, GoesOn DEF Invariant, AtStep, GoesTo, ListRestored
    <2>8. c.op \in {"none", "restore"} /\ \A a : Drops(c, a) => Drops(b, a)
      BY <1>0, <2>6 DEF AtStep, Drops
    <2>. QED
      BY <1>0, <1>2, <2>4, <2>6, <2>7, <2>8, DropStep
  <1>4. CASE b.node \notin Live
    <2>1. CallsTyped' /\ Becomes(u, Rest)
      BY <1>u, <1>4, RestOK, CallsKept DEF ListRestored, Ends, Goes, Invariant, Typed
    <2>2. StoresTyped'
      BY <1>0, <1>2, <1>4 DEF ListRestored, history, Invariant, Typed, StoresTyped
    <2>3. \A a : ~Drops(Rest, a)
      BY RestOK DEF Drops
    <2>. QED
      BY <1>0, <1>2, <2>1, <2>2, <2>3, RestOK, DropStep
  <1>. QED
    BY <1>3, <1>4

LEMMA CloseKeeps ==
  ASSUME Invariant, NEW u \in User, Close(u)
  PROVE  Invariant'
  <1>. DEFINE b == call[u]
  <1>u. u \in Thread
    BY NodeFacts
  <1>0. /\ b.op = "restore" /\ b.step = "climb"
        /\ UNCHANGED <<up, filed, trees, tasks, budget, crossed, history>>
    BY DEF Close, At
  <1>b. CallOK(b)
    BY <1>u DEF Invariant, Typed, CallsTyped
  <1>1. /\ b \in CallFields /\ b.stack \in Seq(RestoreEntry) /\ b.stack # <<>>
        /\ b.stack[Len(b.stack)].of = Absent /\ Head(b.stack) = b.stack[1]
        /\ b.stack[1] \in RestoreEntry /\ 1 \in DOMAIN b.stack
    BY <1>0, <1>b, RestoreCall
  <1>2. PICK top : top = b.stack[1].of
    OBVIOUS
  <1>3. Top(u).of = top
    BY <1>1, <1>2 DEF Top
  <1>4. CASE top = Absent
    <2>1. Ends(u) /\ UNCHANGED archives
      BY <1>3, <1>4 DEF Close
    <2>2. StoresTyped'
      BY <1>0, <2>1 DEF history, Invariant, Typed, StoresTyped
    <2>. QED
      BY <1>0, <2>1, <2>2, EndStep DEF history
  <1>5. CASE top # Absent
    <2>1. archives' = archives \ {top}
      BY <1>3, <1>5 DEF Close
    <2>2. archives' \subseteq archives /\ \A a \in archives \ archives' : Drops(b, a)
      BY <1>0, <1>1, <1>2, <1>5, <2>1 DEF Drops
    <2>3. StoresTyped'
      BY <1>0, <2>1 DEF history, Invariant, Typed, StoresTyped
    <2>4. CASE Ends(u)
      <3>1. CallsTyped' /\ Becomes(u, Rest)
        BY <1>u, <2>4, RestOK, CallsKept DEF Ends, Goes, Invariant, Typed
      <3>2. \A a : ~Drops(Rest, a)
        BY RestOK DEF Drops
      <3>. QED
        BY <1>0, <2>2, <2>3, <3>1, <3>2, RestOK, DropStep
    <2>5. CASE Goes(u, [b EXCEPT !.stack = Tail(@)])
      <3>1. PICK r : r = Tail(b.stack)
        OBVIOUS
      <3>2. /\ r \in Seq(RestoreEntry) /\ Len(r) = Len(b.stack) - 1
            /\ \A i \in DOMAIN r : i + 1 \in DOMAIN b.stack /\ r[i] = b.stack[i + 1]
        BY <1>1, <3>1, Popped_
      <3>3. Len(b.stack) \in Nat /\ Len(b.stack) # 0 /\ Len(b.stack) # 1
        BY <1>1, <1>2, <1>5
      <3>4. r # <<>> /\ Len(r) \in DOMAIN r /\ Len(r) + 1 = Len(b.stack)
        <4>1. Len(r) \in Nat /\ Len(r) # 0 /\ Len(r) + 1 = Len(b.stack)
          BY ONLY <3>2, <3>3
        <4>2. r \in Seq(RestoreEntry)
          BY <3>2
        <4>. QED
          BY ONLY <4>1, <4>2
      <3>5. r[Len(r)].of = Absent
        BY <1>1, <3>2, <3>4
      <3>6. PICK c : c = [b EXCEPT !.stack = r]
        OBVIOUS
      <3>7. /\ c.stack = r /\ c.op = "restore" /\ c.step = "climb" /\ c.with = b.with
            /\ c \in CallFields
        BY <1>0, <1>1, <3>2, <3>6 DEF CallFields
      <3>8. CallOK(c)
        BY <3>2, <3>4, <3>5, <3>7 DEF CallOK, InStep
      <3>9. Goes(u, c)
        BY <2>5, <3>1, <3>6
      <3>10. CallsTyped' /\ Becomes(u, c)
        BY <1>u, <1>0, <3>7, <3>8, <3>9, GoesOn DEF Invariant
      <3>11. \A a : Drops(c, a) => Drops(b, a)
        BY <1>0, <3>2, <3>7 DEF Drops
      <3>. QED
        BY <1>0, <2>2, <2>3, <3>7, <3>8, <3>10, <3>11, DropStep
    <2>. QED
      BY <1>3, <1>5, <2>4, <2>5 DEF Close
  <1>. QED
    BY <1>4, <1>5

LEMMA DestroyKeeps ==
  ASSUME Invariant, NEW u \in User, NEW a \in archives, DestroyArchive(u, a)
  PROVE  Invariant'
  <1>. DEFINE D == Beneath(a)
  <1>0. /\ archives' = archives \ D /\ destroyed' = destroyed \cup {x.node : x \in D}
        /\ budget' \in 0 .. Budget
        /\ UNCHANGED <<up, filed, trees, call, tasks, crossed, made, strays, failed, brought, raced>>
    BY FolderTreeAssumptions DEF DestroyArchive, Invariant, Typed, StoresTyped
  <1>d. D \subseteq archives
    BY DEF Beneath
  <1>1. Typed'
    <2>1. {x.node : x \in D} \subseteq Node
      BY <1>d DEF Invariant, Typed, StoresTyped, Archived, Movable
    <2>. QED
      BY <1>0, <1>d, <2>1 DEF Invariant, Typed, StoresTyped, CallsTyped
  <1>2. Assigned' /\ Excludes'
    BY <1>0 DEF Invariant, Assigned, Excludes
  <1>3. Removing'
    BY <1>0 DEF Invariant, Removing, Live
  <1>4. Numbered'
    BY <1>0 DEF Invariant, Numbered, Dropped
  <1>5. ASSUME NEW n, n \in destroyed \/ Safe(n) PROVE n \in destroyed' \/ Safe(n)'
    <2>1. CASE n \in destroyed
      BY <1>0, <2>1
    <2>2. CASE Safe(n)
      <3>1. PICK x \in archives : x.node = n /\ ~Dropped(x)
        BY <2>2 DEF Safe
      <3>2. CASE x \in D
        BY <1>0, <3>1, <3>2
      <3>3. CASE x \notin D
        BY <1>0, <3>1, <3>3 DEF Safe, Dropped
      <3>. QED
        BY <3>2, <3>3
    <2>. QED
      BY <1>5, <2>1, <2>2
  <1>6. Kept'
    <2>1. \A n \in made' : n \in Live' \/ n \in destroyed' \/ Safe(n)'
      BY <1>0, <1>5 DEF Invariant, Kept, Live
    <2>2. ASSUME NEW o \in Thread, IsRemoving(call'[o]), NEW n, n = call'[o].node
          PROVE  n \in destroyed' \/ Safe(n)'
      <3>1. IsRemoving(call[o]) /\ n = call[o].node
        BY <1>0, <2>2
      <3>. QED
        BY <3>1, <1>5 DEF Invariant, Kept
    <2>. QED
      BY <2>1, <2>2 DEF Kept, Safe
  <1>7. Listed' /\ Emptied'
    BY <1>0 DEF Invariant, Listed, Emptied
  <1>8. Parented' /\ Checked' /\ Distinct'
    BY <1>0 DEF Invariant, Parented, Checked, Distinct, NameExcused, Live
  <1>. QED
    BY <1>1, <1>2, <1>3, <1>4, <1>6, <1>7, <1>8 DEF Invariant

-----------------------------------------------------------------------------
(***************************************************************************)
(* Deletions                                                               *)
(***************************************************************************)

\* A deletion ends, with its node gone or excused.  It removes only what it had
\* archived, and what held nothing that is not excused.
LEMMA FinishStep ==
  ASSUME Invariant, NEW t \in Thread, Finishes(t), StoresTyped', call[t].op = "delete",
         NEW d, d = call[t].node, failed \subseteq failed',
         UNCHANGED <<archives, filed, made, destroyed, strays, brought, raced>>,
         up'[d] = Absent \/ d \in failed',
         UNCHANGED up \/ (IsRemoving(call[t]) /\ up' = [up EXCEPT ![d] = Absent])
  PROVE  Invariant'
  <1>0. CallOK(call[t]) /\ d \in Movable /\ d \in Node /\ d # Root
    BY DEF Invariant, Typed, CallsTyped, CallOK, CallFields, Movable
  <1>1. CallsTyped' /\ Becomes(t, Rest)
    BY RestOK, CallsKept DEF Finishes, Ends, Goes, Invariant, Typed
  <1>2. Typed'
    BY <1>1 DEF Typed
  <1>c. /\ ~IsWriting(Rest) /\ ~IsLooking(Rest) /\ ~IsDeleting(Rest) /\ ~IsComing(Rest)
        /\ ~IsRemoving(Rest) /\ Rest.op # "deleteTree" /\ \A a : ~Drops(Rest, a)
    BY RestOK DEF IsWriting, IsLooking, IsDeleting, IsComing, IsRemoving, Drops
  <1>3. \A n \in Node : up'[n] = up[n] \/ (IsRemoving(call[t]) /\ n = d /\ up'[n] = Absent)
    <2>1. CASE UNCHANGED up
      BY <2>1
    <2>2. CASE IsRemoving(call[t]) /\ up' = [up EXCEPT ![d] = Absent]
      <3>1. \A n \in Node : up'[n] = IF n = d THEN Absent ELSE up[n]
        BY <2>2 DEF Invariant, Typed, StoresTyped
      <3>. QED
        BY <2>2, <3>1
    <2>. QED
      BY <2>1, <2>2
  <1>4. MoreExcused /\ ArrivesExcused
    BY <1>3 DEF MoreExcused, ArrivesExcused, Movable
  <1>5. TasksDone
    <2>1. ASSUME NEW k \in tasks, k.thread = t PROVE k.node = d
      BY <2>1, NodeFacts DEF Invariant, Assigned
    <2>2. \A k \in tasks : k.thread # t => k \in tasks'
      BY DEF Finishes
    <2>. QED
      BY <2>1, <2>2 DEF TasksDone
  <1>6. Assigned'
    BY <1>1, FinishKeepsAssigned DEF Invariant, Finishes
  <1>7. Excludes'
    BY <1>1, <1>c, KeepsExcludes DEF Invariant
  <1>8. Removing'
    <2>. SUFFICES ASSUME NEW o \in Thread, IsRemoving(call'[o]), NEW n, n = call'[o].node
                  PROVE  n \in Live'
      BY DEF Removing
    <2>1. o # t /\ IsRemoving(call[o]) /\ n = call[o].node
      BY <1>1, <1>c DEF Becomes
    <2>2. n \in Node /\ up[n] # Absent
      BY <2>1 DEF Invariant, Removing, Live
    <2>3. ~(IsRemoving(call[t]) /\ n = d)
      BY <2>1 DEF Invariant, Excludes, IsRemoving, IsWriting
    <2>. QED
      BY <2>2, <2>3, <1>3 DEF Live
  <1>9. Numbered'
    <2>1. \A n \in Node : filed[n] <= filed'[n] /\ filed'[n] \in Nat
      BY DEF StoresTyped
    <2>. QED
      BY <1>1, <1>c, <2>1, KeepsNumbered DEF Invariant
  <1>10. Kept'
    <2>1. ASSUME NEW n, Safe(n) PROVE Safe(n)'
      BY <1>1, <1>c, <2>1 DEF Safe, Dropped, Becomes
    <2>2. ASSUME NEW n \in made', n \notin Live' PROVE n \in destroyed' \/ Safe(n)'
      <3>1. n \in made /\ n \in Node
        BY <2>2 DEF Invariant, Typed, StoresTyped
      <3>2. n \notin Live \/ (IsRemoving(call[t]) /\ n = d)
        BY <3>1, <2>2, <1>3 DEF Live
      <3>3. n \in destroyed \/ Safe(n)
        BY <3>1, <3>2 DEF Invariant, Kept
      <3>. QED
        BY <3>3, <2>1
    <2>3. ASSUME NEW o \in Thread, IsRemoving(call'[o]), NEW n, n = call'[o].node
          PROVE  n \in destroyed' \/ Safe(n)'
      <3>1. IsRemoving(call[o]) /\ n = call[o].node
        BY <2>3, <1>1, <1>c DEF Becomes
      <3>. QED
        BY <3>1, <2>1 DEF Invariant, Kept
    <2>. QED
      BY <2>2, <2>3 DEF Kept, Safe
  <1>11. Listed'
    BY <1>1, <1>c, <1>4, <1>5, KeepsListed DEF Invariant
  <1>12. Emptied'
    <2>1. \A k \in tasks' : k \in tasks
      BY DEF Finishes
    <2>. QED
      BY <1>1, <1>c, <1>4, <2>1, RestOK, KeepsEmptied DEF Invariant, Typed
  <1>13. Parented'
    <2>. SUFFICES ASSUME NEW n \in Live', n \notin strays' \cup failed'
                  PROVE  up'[n] \in Live'
      BY DEF Parented
    <2>1. n \in Node /\ up'[n] # Absent /\ up'[n] = up[n] /\ n \in Live
      BY <1>3 DEF Live
    <2>2. up[n] \in Live
      BY <2>1 DEF Invariant, Parented, MoreExcused
    <2>3. CASE n = Root
      BY <2>1, <2>3 DEF StoresTyped
    <2>4. CASE n # Root
      <3>1. ~(IsRemoving(call[t]) /\ up[n] = d)
        BY <2>1, <2>4 DEF Invariant, Emptied, Minded, Movable, IsRemoving, IsDeleting
      <3>. QED
        BY <2>1, <2>2, <3>1, <1>3 DEF Live
    <2>. QED
      BY <2>3, <2>4
  <1>14. Checked'
    <2>1. \A n \in Movable : up'[n] = up[n] \/ up'[n] = Absent
      BY <1>3 DEF Movable
    <2>. QED
      BY <2>1, <1>1, <1>c, KeepsChecked DEF Invariant
  <1>15. Distinct'
    <2>1. \A n \in Movable : up'[n] = up[n] \/ up'[n] = Absent
      BY <1>3 DEF Movable
    <2>. QED
      BY <2>1, KeepsDistinct DEF Invariant
  <1>. QED
    BY <1>2, <1>6, <1>7, <1>8, <1>9, <1>10, <1>11, <1>12, <1>13, <1>14, <1>15 DEF Invariant

LEMMA ThrowsKeeps ==
  ASSUME Invariant, NEW t \in Thread, Throws(t)
  PROVE  Invariant'
  <1>1. call[t].op = "delete" /\ call[t].node \in Node
    BY DEF Throws, Deleting, At, Invariant, Typed, CallsTyped, CallOK, CallFields
  <1>2. tasks' \subseteq tasks /\ failed' = {call[t].node}
    BY DEF Throws, Finishes
  <1>3. StoresTyped'
    BY <1>1, <1>2 DEF Throws, Invariant, Typed, StoresTyped
  <1>4. PICK d : d = call[t].node
    OBVIOUS
  <1>5. failed \subseteq failed' /\ d \in failed'
    BY <1>2, <1>4 DEF Throws
  <1>6. Finishes(t) /\ UNCHANGED <<up, archives, filed, made, destroyed, strays, brought, raced>>
    BY DEF Throws
  <1>. QED
    BY <1>1, <1>3, <1>4, <1>5, <1>6, FinishStep

LEMMA RemoveKeeps ==
  ASSUME Invariant, NEW t \in Thread, Remove(t)
  PROVE  Invariant'
  <1>1. call[t].op = "delete" /\ call[t].node \in Movable /\ IsRemoving(call[t])
    BY DEF Remove, Deleting, At, Invariant, Typed, CallsTyped, CallOK, CallFields, IsRemoving, Movable
  <1>2. PICK d : d = call[t].node
    OBVIOUS
  <1>3. /\ tasks' \subseteq tasks /\ up' = [up EXCEPT ![d] = Absent]
        /\ UNCHANGED <<archives, filed, budget, history>>
    BY <1>2 DEF Remove, Finishes
  <1>4. StoresTyped'
    <2>1. Held(t) \ {d} \subseteq Movable
      BY HeldTyped DEF Remove, Invariant
    <2>2. trees' \in [Folder -> {Uncached} \cup SUBSET Movable]
      BY <1>2, <2>1, TreesTyped DEF Remove, Invariant
    <2>3. crossed' \subseteq Folder
      BY CrossedTyped DEF Remove, Invariant
    <2>4. up' \in [Node -> Folder \cup {Absent}] /\ up'[Root] = Root
      BY <1>1, <1>2, <1>3 DEF Movable, Invariant, Typed, StoresTyped
    <2>. QED
      BY <1>3, <2>2, <2>3, <2>4 DEF history, Invariant, Typed, StoresTyped
  <1>5. up'[d] = Absent
    BY <1>1, <1>2, <1>3 DEF Movable, Invariant, Typed, StoresTyped
  <1>. QED
    BY <1>1, <1>2, <1>3, <1>4, <1>5, FinishStep DEF Remove, history

\* The record of an archive is one that no call has heard of.
LEMMA ArchiveKeeps ==
  ASSUME Invariant, NEW t \in Thread, Archive(t)
  PROVE  Invariant'
  <1>. DEFINE b == call[t]
  <1>0. /\ b.op = "delete" /\ b.step = "archive" /\ CallOK(b)
        /\ UNCHANGED <<up, trees, budget, crossed, history>>
    BY DEF Archive, Deleting, At, Invariant, Typed, CallsTyped
  <1>1. PICK n : n = b.node
    OBVIOUS
  <1>2. n \in Node /\ n \in Movable /\ b.with \in BOOLEAN /\ b.by \in Node
    BY <1>0, <1>1 DEF CallOK, CallFields, Movable
  <1>3. CASE n \notin Live
    <2>1. Finishes(t) /\ UNCHANGED <<archives, filed>>
      BY <1>1, <1>3 DEF Archive
    <2>2. tasks' \subseteq tasks
      BY <2>1 DEF Finishes
    <2>3. StoresTyped'
      BY <1>0, <2>1, <2>2 DEF history, Invariant, Typed, StoresTyped
    <2>4. up'[n] = Absent
      BY <1>0, <1>2, <1>3 DEF Live
    <2>5. /\ UNCHANGED <<up, archives, filed, made, destroyed, strays, brought, raced>>
          /\ failed \subseteq failed' /\ b.op = "delete"
      BY <1>0, <2>1 DEF history
    <2>. QED
      BY <1>1, <2>1, <2>3, <2>4, <2>5, FinishStep
  <1>4. CASE n \in Live
    <2>1. PICK a : a = NewArchive(t)
      OBVIOUS
    <2>2. /\ archives' = archives \cup {a} /\ filed' = [filed EXCEPT ![n] = @ + 1]
          /\ GoesTo(t, "remove") /\ UNCHANGED tasks
      BY <1>1, <1>4, <2>1 DEF Archive
    <2>3. a.node = n /\ a.no = filed[n] + 1 /\ filed[n] \in Nat /\ filed'[n] = filed[n] + 1
      BY <1>1, <1>2, <2>1, <2>2 DEF NewArchive, Invariant, Typed, StoresTyped
    <2>4. a \in Archived
      <3>1. up[n] \in Folder
        BY <1>2, <1>4 DEF Live, Invariant, Typed, StoresTyped
      <3>2. a = [node |-> n, up |-> up[n], with |-> b.with, by |-> b.by, no |-> filed[n] + 1]
        BY <1>1, <2>1 DEF NewArchive
      <3>. QED
        BY <3>1, <3>2, <1>2, <2>3 DEF Archived
    <2>5. StoresTyped'
      BY <1>0, <1>2, <2>2, <2>3, <2>4 DEF history, Invariant, Typed, StoresTyped
    <2>s. PICK s : s = "remove"
      OBVIOUS
    <2>6. PICK c : c = [b EXCEPT !.step = s, !.read = Uncached]
      OBVIOUS
    <2>7. CallOK(c) /\ AtStep(c, b, s)
      <3>1. InStep(c)
        BY <1>0, <2>s, <2>6 DEF CallOK, CallFields, InStep
      <3>2. CallOK(b) /\ b.op = "delete" /\ s # "check"
        BY <1>0, <2>s
      <3>. QED
        BY <2>6, <3>1, <3>2, StepOK
    <2>8. CallsTyped' /\ Becomes(t, c)
      BY <2>2, <2>s, <2>6, <2>7, GoesOn DEF Invariant, AtStep, GoesTo
    <2>9. Typed'
      BY <2>5, <2>8 DEF Typed
    <2>10. /\ UNCHANGED <<up, tasks, made, destroyed, strays, failed, brought, raced>>
           /\ Live' = Live
      BY <1>0, <2>2 DEF history, Live
    <2>11. MoreExcused /\ ArrivesExcused /\ TasksDone
      BY <2>10 DEF MoreExcused, ArrivesExcused, TasksDone
    <2>12. c.op = "delete" /\ c.node = n /\ \A x : ~Drops(c, x)
      BY <1>0, <1>1, <2>7 DEF AtStep, Drops
    <2>13. Assigned'
      BY <1>0, <1>1, <2>8, <2>10, <2>12, KeepsAssigned DEF Invariant
    <2>14. Excludes'
      <3>1. IsWriting(b) /\ ~IsLooking(c)
        BY <1>0, <2>12 DEF IsWriting, IsLooking
      <3>. QED
        BY <1>1, <2>8, <2>12, <3>1, KeepsExcludes DEF Invariant
    <2>15. Removing'
      BY <1>4, <2>8, <2>10, <2>12, KeepsRemoving DEF Invariant
    <2>16. Numbered'
      <3>1. \A m \in Node : filed[m] <= filed'[m] /\ filed'[m] \in Nat
        BY <1>2, <2>2 DEF Invariant, Typed, StoresTyped
      <3>2. \A x \in Archived : x \in archives' => x \in archives \/ x.no <= filed'[x.node]
        BY <2>2, <2>3
      <3>. QED
        BY <2>8, <2>12, <3>1, <3>2, KeepsNumbered DEF Invariant
    <2>17. ~Dropped(a)'
      <3>1. ~Dropped(a)
        <4>1. ~(filed[n] + 1 <= filed[n])
          BY <2>3
        <4>. QED
          BY <2>3, <2>4, <4>1 DEF Invariant, Numbered
      <3>. QED
        BY <2>8, <2>12, <3>1 DEF Dropped, Becomes
    <2>18. Safe(n)'
      BY <2>2, <2>3, <2>17 DEF Safe
    <2>19. Kept'
      <3>1. ASSUME NEW m, Safe(m) PROVE Safe(m)'
        BY <2>2, <2>8, <2>12, <3>1 DEF Safe, Dropped, Becomes
      <3>2. \A m \in made' : m \in Live' \/ m \in destroyed' \/ Safe(m)'
        BY <2>10, <3>1 DEF Invariant, Kept
      <3>3. ASSUME NEW o \in Thread, IsRemoving(call'[o]), NEW m, m = call'[o].node
            PROVE  m \in destroyed' \/ Safe(m)'
        <4>1. CASE o = t
          BY <4>1, <3>3, <2>8, <2>12, <2>18 DEF Becomes
        <4>2. CASE o # t
          <5>1. IsRemoving(call[o]) /\ m = call[o].node
            BY <4>2, <3>3, <2>8 DEF Becomes
          <5>. QED
            BY <5>1, <2>10, <3>1 DEF Invariant, Kept
        <4>. QED
          BY <4>1, <4>2
      <3>. QED
        BY <3>2, <3>3 DEF Kept, Safe
    <2>20. Listed'
      BY <2>8, <2>11, <2>12, KeepsListed DEF Invariant
    <2>21. Emptied'
      <3>1. IsDeleting(b)
        BY <1>0 DEF IsDeleting
      <3>. QED
        BY <1>1, <2>5, <2>7, <2>8, <2>10, <2>11, <2>12, <3>1, KeepsEmptied DEF Invariant
    <2>22. Parented'
      BY <2>5, <2>10, <2>11, KeepsParented DEF Invariant, Typed
    <2>23. Checked'
      <3>1. ~IsComing(c)
        BY <2>12 DEF IsComing
      <3>. QED
        BY <2>8, <2>10, <3>1, KeepsChecked DEF Invariant
    <2>24. Distinct'
      BY <2>10, KeepsDistinct DEF Invariant
    <2>. QED
      BY <2>9, <2>13, <2>14, <2>15, <2>16, <2>19, <2>20, <2>21, <2>22, <2>23, <2>24 DEF Invariant
  <1>. QED
    BY <1>3, <1>4

-----------------------------------------------------------------------------
(***************************************************************************)
(* deleteTree                                                              *)
(***************************************************************************)

\* A step of a deleteTree, that may submit a deletion.
LEMMA TaskStep ==
  ASSUME Invariant, NEW u \in User, NEW c, CallOK(c), CallsTyped', Becomes(u, c),
         c.op = "deleteTree", call[u].op = "deleteTree",
         UNCHANGED <<up, archives, filed, trees, budget, crossed, history>>,
         NEW ks, ks \subseteq Tasks, tasks' = tasks \cup ks, \A k \in ks : k.thread = Absent,
         \A k \in ks : Minded(k.node, up, strays \cup failed),
         ListedBy(c, u, up, tasks', strays \cup failed)
  PROVE  Invariant'
  <1>u. u \in Thread /\ u \notin Worker
    BY NodeFacts
  <1>0. /\ UNCHANGED <<up, archives, filed, made, destroyed, strays, failed, brought, raced>>
        /\ Live' = Live
    BY DEF history, Live
  <1>1. StoresTyped'
    BY DEF history, Invariant, Typed, StoresTyped
  <1>2. Typed'
    BY <1>1 DEF Typed
  <1>c. /\ ~IsWriting(c) /\ ~IsLooking(c) /\ ~IsDeleting(c) /\ ~IsComing(c) /\ ~IsRemoving(c)
        /\ \A a : ~Drops(c, a)
    BY DEF IsWriting, IsLooking, IsDeleting, IsComing, IsRemoving, Drops
  <1>3. MoreExcused /\ ArrivesExcused /\ TasksDone
    BY <1>0 DEF MoreExcused, ArrivesExcused, TasksDone
  <1>4. Assigned'
    <2>1. \A j \in tasks : j.thread # Absent => j.thread \in Worker
      BY DEF Invariant, Typed, StoresTyped, Tasks
    <2>. QED
      BY <1>u, <2>1, NodeFacts DEF Invariant, Assigned, Becomes
  <1>5. Excludes'
    BY <1>u, <1>c, KeepsExcludes DEF Invariant
  <1>6. Removing'
    BY <1>u, <1>c, <1>0, KeepsRemoving DEF Invariant
  <1>7. Numbered'
    <2>1. \A n \in Node : filed[n] <= filed'[n] /\ filed'[n] \in Nat
      BY <1>0 DEF Invariant, Typed, StoresTyped
    <2>. QED
      BY <1>u, <1>0, <1>c, <2>1, KeepsNumbered DEF Invariant
  <1>8. Kept'
    BY <1>u, <1>c, <1>0, KeepsKept DEF Invariant
  <1>9. Listed'
    <2>1. ListedBy(c, u, up', tasks', strays' \cup failed')
      BY <1>0
    <2>. QED
      BY <1>u, <1>3, <2>1, KeepsListed DEF Invariant
  <1>10. Emptied'
    <2>1. \A k \in tasks' : \/ \E j \in tasks : j.node = k.node
                            \/ Minded(k.node, up', strays' \cup failed')
      BY <1>0
    <2>. QED
      BY <1>u, <1>c, <1>1, <1>3, <2>1, KeepsEmptied DEF Invariant
  <1>11. Parented'
    BY <1>0, <1>1, <1>3, KeepsParented DEF Invariant, Typed
  <1>12. Checked'
    BY <1>u, <1>c, <1>0, KeepsChecked DEF Invariant
  <1>13. Distinct'
    BY <1>u, <1>0, KeepsDistinct DEF Invariant
  <1>. QED
    BY <1>2, <1>4, <1>5, <1>6, <1>7, <1>8, <1>9, <1>10, <1>11, <1>12, <1>13 DEF Invariant

\* What a folder holds and does not list is a stray; what it lists is to be done.
LEMMA EnterKeeps ==
  ASSUME Invariant, NEW u \in User, Enter(u)
  PROVE  Invariant'
  <1>. DEFINE b == call[u]  s == call[u].stack
  <1>u. u \in Thread /\ u \notin Worker
    BY NodeFacts
  <1>0. /\ b.op = "deleteTree" /\ b.step = "enter" /\ Holds(u) /\ Crosses(u)
        /\ UNCHANGED <<up, archives, filed, tasks, budget, made, destroyed, failed, brought, raced>>
    BY DEF Enter, At
  <1>b. CallOK(b)
    BY <1>u DEF Invariant, Typed, CallsTyped
  <1>1. /\ b \in CallFields /\ s \in Seq(TreeEntry) /\ b.to \in Folder /\ b.to # Root
        /\ \A i \in DOMAIN s : s[i].of # Root
    BY <1>0, <1>b DEF CallOK, CallFields
  <1>2. Held(u) \subseteq Movable
    BY <1>u, <1>0, HeldTyped DEF Invariant
  <1>3. PICK todo : todo = (Held(u) \cap Live) \ Item
    OBVIOUS
  <1>4. PICK e : e = [of |-> b.to, todo |-> todo]
    OBVIOUS
  <1>5. e \in TreeEntry /\ e.of = b.to /\ e.todo = todo
    BY <1>1, <1>2, <1>3, <1>4 DEF TreeEntry
  <1>6. PICK p : p = <<e>> \o s
    OBVIOUS
  <1>7. /\ p \in Seq(TreeEntry) /\ p # <<>> /\ Len(p) = Len(s) + 1 /\ p[1] = e
        /\ \A i \in DOMAIN p : i # 1 => i - 1 \in DOMAIN s /\ p[i] = s[i - 1]
    BY <1>1, <1>5, <1>6, Pushed
  <1>8. PICK c : c = [b EXCEPT !.step = "walk", !.read = Uncached, !.stack = p]
    OBVIOUS
  <1>9. /\ c.op = "deleteTree" /\ c.step = "walk" /\ c.stack = p /\ c.to = b.to /\ c.with = b.with
        /\ c \in CallFields
    BY <1>0, <1>1, <1>7, <1>8 DEF CallFields
  <1>10. \A i \in DOMAIN p : p[i].of # Root
    BY <1>1, <1>5, <1>7
  <1>11. CallOK(c)
    BY <1>1, <1>7, <1>9, <1>10 DEF CallOK, InStep
  <1>12. Goes(u, c)
    BY <1>3, <1>4, <1>6, <1>8 DEF Enter
  <1>13. CallsTyped' /\ Becomes(u, c)
    BY <1>u, <1>0, <1>9, <1>11, <1>12, GoesOn DEF Invariant
  <1>14. strays' = strays \cup (Children(b.to) \ todo)
    BY <1>3 DEF Enter
  <1>15. StoresTyped'
    <2>1. trees' \in [Folder -> {Uncached} \cup SUBSET Movable]
      BY <1>u, <1>2, TreesTyped DEF Enter, Invariant
    <2>2. crossed' \subseteq Folder
      BY <1>u, <1>0, CrossedTyped DEF Invariant
    <2>3. strays' \subseteq Node
      BY <1>14 DEF Children, Invariant, Typed, StoresTyped
    <2>. QED
      BY <1>0, <2>1, <2>2, <2>3 DEF Invariant, Typed, StoresTyped
  <1>16. Follows(u, c, b)
    BY <1>u, <1>9 DEF Follows, IsRemoving, Drops
  <1>17. ASSUME NEW i \in DOMAIN p, NEW n \in Movable, up[n] = p[i].of,
                n \notin strays' \cup failed, ~Submitted(u, p[i].of, n, tasks)
         PROVE  Pending(c, i, n)
    <2>1. CASE i = 1
      <3>1. n \in Children(b.to)
        BY <2>1, <1>5, <1>7, <1>17 DEF Children, Movable
      <3>2. n \in todo
        BY <3>1, <1>14, <1>17
      <3>. QED
        BY <2>1, <3>2, <1>5, <1>7, <1>9 DEF Pending
    <2>2. CASE i # 1
      <3>1. i - 1 \in DOMAIN s /\ p[i] = s[i - 1] /\ i \in Nat /\ i > 1
        BY <2>2, <1>7, <1>17
      <3>2. Pending(b, i - 1, n)
        <4>1. n \notin strays \cup failed
          BY <1>14, <1>17
        <4>. QED
          BY <3>1, <4>1, <1>0, <1>17 DEF Invariant, Listed, ListedBy
      <3>3. CASE n \in s[i - 1].todo
        BY <3>1, <3>3, <1>9 DEF Pending
      <3>4. CASE i - 1 = 1 /\ b.to = n
        BY <3>1, <3>4, <1>5, <1>7, <1>9 DEF Pending
      <3>5. CASE i - 1 > 1 /\ s[i - 1 - 1].of = n
        <4>1. i - 1 \in DOMAIN p /\ p[i - 1] = s[i - 1 - 1]
          BY <3>1, <3>5, <1>1, <1>7
        <4>. QED
          BY <3>1, <3>5, <4>1, <1>9 DEF Pending
      <3>. QED
        BY <3>2, <3>3, <3>4, <3>5 DEF Pending
    <2>. QED
      BY <2>1, <2>2
  <1>18. ListedBy(c, u, up', tasks', strays' \cup failed')
    BY <1>0, <1>9, <1>17 DEF ListedBy
  <1>19. ~IsWriting(c) /\ ~IsLooking(c) /\ ~IsDeleting(c) /\ ~IsComing(c)
    BY <1>9 DEF IsWriting, IsLooking, IsDeleting, IsComing
  <1>20. strays \subseteq strays'
    BY <1>14
  <1>. QED
    BY <1>u, <1>0, <1>11, <1>13, <1>15, <1>16, <1>18, <1>19, <1>20, QuietStep

LEMMA WalkKeeps ==
  ASSUME Invariant, NEW u \in User, call[u].stack # <<>>, Walk(u)
  PROVE  Invariant'
  <1>. DEFINE b == call[u]  s == call[u].stack
  <1>u. u \in Thread /\ u \notin Worker
    BY NodeFacts
  <1>0. PICK n \in Top(u).todo :
          /\ b.op = "deleteTree" /\ b.step = "walk"
          /\ LET rest == [b EXCEPT !.stack[1].todo = @ \ {n}] IN
             \/ n \in Document /\ Goes(u, rest) /\ Submit(u, n, Top(u).of)
             \/ /\ n \in Folder
                /\ IF \E i \in DOMAIN s : s[i].of = n
                   THEN Goes(u, [rest EXCEPT !.step = "wait", !.stack = <<>>])
                   ELSE Goes(u, [rest EXCEPT !.step = "enter", !.to = n])
                /\ UNCHANGED tasks
          /\ UNCHANGED <<up, archives, filed, trees, budget, crossed, history>>
    BY DEF Walk, At
  <1>b. CallOK(b)
    BY <1>u DEF Invariant, Typed, CallsTyped
  <1>1. /\ b \in CallFields /\ s \in Seq(TreeEntry) /\ s # <<>> /\ b.by \in Node
        /\ \A i \in DOMAIN s : s[i].of # Root
    BY <1>0, <1>b DEF CallOK, CallFields
  <1>2. Head(s) = s[1] /\ s[1] \in TreeEntry /\ 1 \in DOMAIN s
    BY <1>1
  <1>3. n \in s[1].todo /\ n \in Movable \ Item /\ s[1].of \in Folder
    BY <1>0, <1>2 DEF Top, TreeEntry
  <1>4. PICK e : e = [s[1] EXCEPT !.todo = @ \ {n}]
    OBVIOUS
  <1>5. e \in TreeEntry /\ e.of = s[1].of /\ e.todo = s[1].todo \ {n}
    BY <1>2, <1>4 DEF TreeEntry
  <1>6. PICK r : r = [s EXCEPT ![1] = e]
    OBVIOUS
  <1>7. /\ r \in Seq(TreeEntry) /\ r # <<>> /\ Len(r) = Len(s) /\ DOMAIN r = DOMAIN s
        /\ r[1] = e /\ \A i \in DOMAIN s : i # 1 => r[i] = s[i]
    BY <1>1, <1>5, <1>6, TopChanged
  <1>8. PICK d : d = [b EXCEPT !.stack[1].todo = @ \ {n}]
    OBVIOUS
  <1>9. d = [b EXCEPT !.stack = r]
    BY <1>1, <1>4, <1>6, <1>8 DEF CallFields
  <1>10. /\ d.op = "deleteTree" /\ d.step = "walk" /\ d.to = b.to /\ d.stack = r /\ d.with = b.with
         /\ d \in CallFields
    BY <1>0, <1>1, <1>7, <1>9 DEF CallFields
  <1>11. \A i \in DOMAIN s : r[i].of = s[i].of
    BY <1>5, <1>7
  <1>12. \A i \in DOMAIN r : r[i].of # Root
    BY <1>1, <1>7, <1>11
  <1>13. ASSUME NEW i \in DOMAIN r, NEW m \in Movable, up[m] = r[i].of,
                m \notin strays \cup failed, ~Submitted(u, r[i].of, m, tasks)
         PROVE  m \in r[i].todo \/ (i = 1 /\ m = n) \/ (i > 1 /\ r[i - 1].of = m)
    <2>1. Pending(b, i, m)
      BY <1>0, <1>7, <1>11, <1>13 DEF Invariant, Listed, ListedBy
    <2>2. m \in s[i].todo \/ (i > 1 /\ s[i - 1].of = m)
      BY <1>0, <2>1 DEF Pending
    <2>3. CASE m \in s[i].todo
      BY <2>3, <1>5, <1>7
    <2>4. CASE i > 1 /\ s[i - 1].of = m
      <3>1. i - 1 \in DOMAIN s
        BY <2>4, <1>1, <1>7
      <3>. QED
        BY <2>4, <3>1, <1>11
    <2>. QED
      BY <2>2, <2>3, <2>4
  <1>14. CASE n \in Document
    <2>1. Goes(u, d) /\ Submit(u, n, Top(u).of)
      BY <1>0, <1>8, <1>14, NodeFacts
    <2>2. PICK k : k = [node |-> n, pool |-> s[1].of, by |-> b.by, user |-> u, thread |-> Absent]
      OBVIOUS
    <2>3. tasks' = tasks \cup {k}
      BY <2>1, <2>2, <1>2 DEF Submit, Top
    <2>4. k \in Tasks /\ k.thread = Absent /\ k.user = u /\ k.pool = s[1].of /\ k.node = n
      BY <2>2, <1>1, <1>3, <1>14 DEF Tasks, Movable
    <2>5. Minded(k.node, up, strays \cup failed)
      <3>1. n \in Node \ Folder
        BY <1>14, NodeFacts
      <3>. QED
        BY <2>4, <3>1, DocumentsMinded DEF Invariant, Typed
    <2>6. CallOK(d)
      BY <1>b, <1>0, <1>7, <1>10, <1>12 DEF CallOK, InStep
    <2>7. CallsTyped' /\ Becomes(u, d)
      BY <1>u, <1>0, <1>10, <2>1, <2>6, GoesOn DEF Invariant
    <2>8. ASSUME NEW i \in DOMAIN r, NEW m \in Movable, up[m] = r[i].of
          PROVE  \/ m \in strays \cup failed \/ Pending(d, i, m)
                 \/ Submitted(u, r[i].of, m, tasks')
      <3>1. CASE Submitted(u, r[i].of, m, tasks)
        BY <3>1, <2>3 DEF Submitted
      <3>2. CASE i = 1 /\ m = n
        BY <3>2, <2>3, <2>4, <1>5, <1>7 DEF Submitted
      <3>. QED
        BY <3>1, <3>2, <2>8, <1>10, <1>13 DEF Pending
    <2>9. ListedBy(d, u, up, tasks', strays \cup failed)
      BY <1>10, <2>8 DEF ListedBy
    <2>10. PICK ks : ks = {k}
      OBVIOUS
    <2>11. /\ ks \subseteq Tasks /\ tasks' = tasks \cup ks
           /\ \A j \in ks : j.thread = Absent /\ Minded(j.node, up, strays \cup failed)
      BY <2>3, <2>4, <2>5, <2>10
    <2>12. b.op = "deleteTree" /\ UNCHANGED <<up, archives, filed, trees, budget, crossed, history>>
      BY <1>0
    <2>. QED
      BY <1>10, <2>6, <2>7, <2>9, <2>11, <2>12, TaskStep
  <1>15. CASE n \notin Document
    <2>1. n \in Folder /\ UNCHANGED tasks /\ n # Root
      BY <1>0, <1>3, <1>15 DEF Movable
    <2>2. PICK none : none = {}
      OBVIOUS
    <2>3. tasks' = tasks \cup none /\ none \subseteq Tasks /\ \A k : k \notin none
      BY <2>1, <2>2
    <2>4. ASSUME NEW c, CallOK(c), c.op = "deleteTree", c.with = b.with, Goes(u, c),
                 ListedBy(c, u, up, tasks, strays \cup failed)
          PROVE  Invariant'
      <3>1. CallsTyped' /\ Becomes(u, c)
        BY <1>u, <1>0, <2>4, GoesOn DEF Invariant
      <3>2. ListedBy(c, u, up, tasks', strays \cup failed)
        BY <2>1, <2>4
      <3>. QED
        BY <1>0, <2>3, <2>4, <3>1, <3>2, TaskStep
    <2>5. CASE \E i \in DOMAIN s : s[i].of = n
      <3>1. PICK c : c = [d EXCEPT !.step = "wait", !.stack = <<>>]
        OBVIOUS
      <3>2. <<>> \in Seq(TreeEntry) /\ DOMAIN <<>> = {}
        OBVIOUS
      <3>3. /\ c.op = "deleteTree" /\ c.step = "wait" /\ c.stack = <<>> /\ c.to = b.to
            /\ c.with = b.with /\ c \in CallFields
        BY <1>10, <3>1, <3>2 DEF CallFields
      <3>4. CallOK(c)
        BY <1>b, <1>0, <3>2, <3>3 DEF CallOK, InStep
      <3>5. Goes(u, c)
        BY <1>0, <1>8, <1>15, <2>5, <3>1
      <3>6. ListedBy(c, u, up, tasks, strays \cup failed)
        BY <3>2, <3>3 DEF ListedBy
      <3>. QED
        BY <2>4, <3>3, <3>4, <3>5, <3>6
    <2>6. CASE ~\E i \in DOMAIN s : s[i].of = n
      <3>1. PICK c : c = [d EXCEPT !.step = "enter", !.to = n]
        OBVIOUS
      <3>2. /\ c.op = "deleteTree" /\ c.step = "enter" /\ c.stack = r /\ c.to = n
            /\ c.with = b.with /\ c \in CallFields
        BY <1>10, <2>1, <3>1 DEF CallFields
      <3>3. CallOK(c)
        BY <1>7, <1>12, <2>1, <3>2 DEF CallOK, InStep
      <3>4. Goes(u, c)
        BY <1>0, <1>8, <1>15, <2>6, <3>1
      <3>5. ListedBy(c, u, up, tasks, strays \cup failed)
        <4>1. ASSUME NEW i \in DOMAIN r, NEW m \in Movable, up[m] = r[i].of
              PROVE  \/ m \in strays \cup failed \/ Pending(c, i, m)
                     \/ Submitted(u, r[i].of, m, tasks)
          BY <4>1, <3>2, <1>13 DEF Pending
        <4>. QED
          BY <3>2, <4>1 DEF ListedBy
      <3>. QED
        BY <2>4, <3>2, <3>3, <3>4, <3>5
    <2>. QED
      BY <2>5, <2>6
  <1>. QED
    BY <1>14, <1>15

\* The folder is deleted when what it listed is.
LEMMA ClimbKeeps ==
  ASSUME Invariant, NEW u \in User, Climb(u)
  PROVE  Invariant'
  <1>. DEFINE b == call[u]  s == call[u].stack
  <1>u. u \in Thread /\ u \notin Worker
    BY NodeFacts
  <1>0. /\ b.op = "deleteTree" /\ b.step = "walk" /\ Head(s).todo = {}
        /\ \A k \in tasks : k.user = u => k.pool # Head(s).of
        /\ UNCHANGED <<up, archives, filed, trees, budget, crossed, history>>
    BY DEF Climb, At, Awaited, Top
  <1>b. CallOK(b)
    BY <1>u DEF Invariant, Typed, CallsTyped
  <1>1. /\ b \in CallFields /\ s \in Seq(TreeEntry) /\ s # <<>> /\ b.by \in Node /\ b.to # Root
        /\ \A i \in DOMAIN s : s[i].of # Root
    BY <1>0, <1>b DEF CallOK, CallFields
  <1>2. PICK r : r = Tail(s)
    OBVIOUS
  <1>3. /\ r \in Seq(TreeEntry) /\ Len(r) = Len(s) - 1 /\ s[1] \in TreeEntry /\ Head(s) = s[1]
        /\ 1 \in DOMAIN s
        /\ \A i \in DOMAIN r : i + 1 \in DOMAIN s /\ r[i] = s[i + 1]
    BY <1>1, <1>2, Popped_
  <1>4. PICK f : f = s[1].of
    OBVIOUS
  <1>5. f \in Folder /\ f # Root
    BY <1>1, <1>3, <1>4 DEF TreeEntry
  <1>6. PICK pool : pool = IF r = <<>> THEN Absent ELSE Head(r).of
    OBVIOUS
  <1>7. pool \in Folder \cup {Absent} /\ (r # <<>> => pool = r[1].of)
    <2>1. CASE r = <<>>
      BY <2>1, <1>6
    <2>2. CASE r # <<>>
      <3>1. Head(r) = r[1] /\ r[1] \in TreeEntry
        BY <2>2, <1>3
      <3>. QED
        BY <2>2, <3>1, <1>6 DEF TreeEntry
    <2>. QED
      BY <2>1, <2>2
  <1>8. PICK k : k = [node |-> f, pool |-> pool, by |-> b.by, user |-> u, thread |-> Absent]
    OBVIOUS
  <1>9. tasks' = tasks \cup {k}
    BY <1>2, <1>3, <1>4, <1>6, <1>8 DEF Climb, Submit, Top
  <1>10. k \in Tasks /\ k.thread = Absent /\ k.user = u /\ k.pool = pool /\ k.node = f
    BY <1>1, <1>5, <1>7, <1>8 DEF Tasks
  <1>11. Minded(k.node, up, strays \cup failed)
    <2>1. ASSUME NEW n \in Movable, up[n] = f PROVE n \in strays \cup failed
      <3>1. \/ n \in strays \cup failed \/ Pending(b, 1, n) \/ Submitted(u, f, n, tasks)
        BY <1>0, <1>3, <1>4, <2>1 DEF Invariant, Listed, ListedBy
      <3>2. ~Pending(b, 1, n)
        BY <1>0, <1>3 DEF Pending
      <3>3. ~Submitted(u, f, n, tasks)
        BY <1>0, <1>3, <1>4 DEF Submitted
      <3>. QED
        BY <3>1, <3>2, <3>3
    <2>. QED
      BY <1>10, <2>1 DEF Minded
  <1>12. PICK st : st = IF r = <<>> THEN "wait" ELSE "walk"
    OBVIOUS
  <1>13. PICK c : c = [b EXCEPT !.stack = r, !.step = st]
    OBVIOUS
  <1>14. /\ c.op = "deleteTree" /\ c.step = st /\ c.stack = r /\ c.to = b.to /\ c.with = b.with
         /\ c \in CallFields
    BY <1>0, <1>1, <1>3, <1>12, <1>13 DEF CallFields
  <1>15. CallOK(c)
    <2>1. \A i \in DOMAIN r : r[i].of # Root
      BY <1>1, <1>3
    <2>. QED
      BY <1>1, <1>3, <1>12, <1>14, <2>1 DEF CallOK, InStep
  <1>16. Goes(u, c)
    BY <1>2, <1>12, <1>13 DEF Climb
  <1>17. CallsTyped' /\ Becomes(u, c)
    BY <1>u, <1>0, <1>14, <1>15, <1>16, GoesOn DEF Invariant
  <1>18. ASSUME NEW i \in DOMAIN r, NEW n \in Movable, up[n] = r[i].of
         PROVE  \/ n \in strays \cup failed \/ Pending(c, i, n)
                \/ Submitted(u, r[i].of, n, tasks')
    <2>1. i + 1 \in DOMAIN s /\ r[i] = s[i + 1] /\ i \in Nat /\ i >= 1
      BY <1>3
    <2>2. \/ n \in strays \cup failed \/ Pending(b, i + 1, n) \/ Submitted(u, r[i].of, n, tasks)
      BY <1>0, <1>18, <2>1 DEF Invariant, Listed, ListedBy
    <2>3. CASE Submitted(u, r[i].of, n, tasks)
      BY <2>3, <1>9 DEF Submitted
    <2>4. CASE Pending(b, i + 1, n)
      <3>1. n \in s[i + 1].todo \/ s[i].of = n
        BY <2>1, <2>4, <1>0 DEF Pending
      <3>2. CASE n \in s[i + 1].todo
        BY <2>1, <3>2, <1>14 DEF Pending
      <3>3. CASE s[i].of = n /\ i = 1
        <4>1. r # <<>>
          BY <1>3, <1>18
        <4>. QED
          BY <3>3, <4>1, <1>4, <1>7, <1>9, <1>10 DEF Submitted
      <3>4. CASE s[i].of = n /\ i # 1
        <4>1. i - 1 \in DOMAIN r /\ r[i - 1] = s[i] /\ i > 1
          <5>0. DOMAIN r = 1 .. Len(r) /\ i \in DOMAIN r
            BY <1>3, <1>18
          <5>1. i > 1 /\ i - 1 \in DOMAIN r /\ (i - 1) + 1 = i
            BY ONLY <2>1, <3>4, <5>0, <1>3
          <5>. QED
            BY <5>1, <1>3
        <4>. QED
          BY <3>4, <4>1, <1>14 DEF Pending
      <3>. QED
        BY <3>1, <3>2, <3>3, <3>4
    <2>. QED
      BY <2>2, <2>3, <2>4
  <1>19. ListedBy(c, u, up, tasks', strays \cup failed)
    BY <1>14, <1>18 DEF ListedBy
  <1>. QED
    BY <1>0, <1>9, <1>10, <1>11, <1>14, <1>15, <1>17, <1>19, TaskStep

LEMMA TakeKeeps ==
  ASSUME Invariant, NEW w \in Worker, Take(w)
  PROVE  Invariant'
  <1>w. w \in Thread /\ w \notin User /\ w # Absent
    BY NodeFacts
  <1>0. PICK k \in tasks :
          /\ call[w].op = "none" /\ k.thread = Absent
          /\ Goes(w, [Rest EXCEPT !.op = "delete", !.step = "lock", !.node = k.node, !.by = k.by,
                                  !.with = TRUE])
          /\ tasks' = (tasks \ {k}) \cup {[k EXCEPT !.thread = w]}
          /\ UNCHANGED <<up, archives, filed, trees, budget, crossed, history>>
    BY DEF Take, Busy
  <1>1. k \in Tasks
    BY DEF Invariant, Typed, StoresTyped
  <1>2. PICK l : l = [k EXCEPT !.thread = w]
    OBVIOUS
  <1>3. /\ l \in Tasks /\ l.thread = w /\ l.node = k.node /\ l.user = k.user /\ l.pool = k.pool
        /\ tasks' = (tasks \ {k}) \cup {l}
    BY <1>0, <1>1, <1>2 DEF Tasks
  <1>4. PICK c : c = [Rest EXCEPT !.op = "delete", !.step = "lock", !.node = k.node, !.by = k.by,
                                  !.with = TRUE]
    OBVIOUS
  <1>5. /\ c.op = "delete" /\ c.step = "lock" /\ c.with = TRUE /\ c.node = k.node /\ CallOK(c)
    <2>1. k.node \in Node /\ k.node # Root /\ k.by \in Node
      BY <1>1, NodeFacts DEF Tasks
    <2>. QED
      BY <1>4, <2>1, RestOK DEF Rest, CallOK, CallFields, InStep
  <1>6. CallsTyped' /\ Becomes(w, c)
    BY <1>w, <1>0, <1>4, <1>5, CallsKept DEF Goes, Invariant, Typed
  <1>7. /\ UNCHANGED <<up, archives, filed, made, destroyed, strays, failed, brought, raced>>
        /\ Live' = Live
    BY <1>0 DEF history, Live
  <1>8. StoresTyped'
    BY <1>0, <1>3 DEF history, Invariant, Typed, StoresTyped
  <1>9. Typed'
    BY <1>6, <1>8 DEF Typed
  <1>c. /\ ~IsWriting(c) /\ ~IsLooking(c) /\ ~IsDeleting(c) /\ ~IsComing(c) /\ ~IsRemoving(c)
        /\ c.op # "deleteTree" /\ \A a : ~Drops(c, a)
    BY <1>5 DEF IsWriting, IsLooking, IsDeleting, IsComing, IsRemoving, Drops
  <1>10. MoreExcused /\ ArrivesExcused
    BY <1>7 DEF MoreExcused, ArrivesExcused
  <1>11. TasksDone
    BY <1>3 DEF TasksDone
  <1>12. Assigned'
    <2>1. ASSUME NEW j \in tasks', j.thread # Absent
          PROVE  call'[j.thread].op = "delete" /\ call'[j.thread].node = j.node
      <3>1. CASE j = l
        BY <3>1, <1>w, <1>3, <1>5, <1>6 DEF Becomes
      <3>2. CASE j \in tasks
        <4>1. j.thread \in Worker
          BY <3>2, <2>1 DEF Invariant, Typed, StoresTyped, Tasks
        <4>2. call[j.thread].op = "delete" /\ call[j.thread].node = j.node
          BY <3>2, <2>1 DEF Invariant, Assigned
        <4>3. j.thread # w
          BY <4>2, <1>0
        <4>. QED
          BY <4>1, <4>2, <4>3, <1>6, NodeFacts DEF Becomes
      <3>. QED
        BY <3>1, <3>2, <1>3
    <2>2. ASSUME NEW v \in Worker, call'[v].op = "delete" PROVE \E j \in tasks' : j.thread = v
      <3>1. CASE v = w
        BY <3>1, <1>3
      <3>2. CASE v # w
        <4>1. call[v].op = "delete" /\ v # Absent
          BY <3>2, <2>2, <1>6, NodeFacts DEF Becomes
        <4>2. PICK j \in tasks : j.thread = v
          BY <4>1 DEF Invariant, Assigned
        <4>3. j \in tasks'
          BY <4>1, <4>2, <1>0, <1>3
        <4>. QED
          BY <4>2, <4>3
      <3>. QED
        BY <3>1, <3>2
    <2>. QED
      BY <2>1, <2>2 DEF Assigned
  <1>13. Excludes'
    BY <1>w, <1>c, <1>6, KeepsExcludes DEF Invariant
  <1>14. Removing'
    BY <1>w, <1>c, <1>6, <1>7, KeepsRemoving DEF Invariant
  <1>15. Numbered'
    <2>1. \A n \in Node : filed[n] <= filed'[n] /\ filed'[n] \in Nat
      BY <1>7 DEF Invariant, Typed, StoresTyped
    <2>. QED
      BY <1>w, <1>c, <1>6, <1>7, <2>1, KeepsNumbered DEF Invariant
  <1>16. Kept'
    BY <1>w, <1>c, <1>6, <1>7, KeepsKept DEF Invariant
  <1>17. Listed'
    BY <1>w, <1>c, <1>6, <1>10, <1>11, KeepsListed DEF Invariant
  <1>18. Emptied'
    <2>1. \A j \in tasks' : \E i \in tasks : i.node = j.node
      BY <1>3
    <2>. QED
      BY <1>w, <1>c, <1>5, <1>6, <1>8, <1>10, <2>1, KeepsEmptied DEF Invariant
  <1>19. Parented'
    BY <1>7, <1>8, <1>10, KeepsParented DEF Invariant, Typed
  <1>20. Checked'
    BY <1>w, <1>c, <1>6, <1>7, KeepsChecked DEF Invariant
  <1>21. Distinct'
    BY <1>w, <1>7, KeepsDistinct DEF Invariant
  <1>. QED
    BY <1>9, <1>12, <1>13, <1>14, <1>15, <1>16, <1>17, <1>18, <1>19, <1>20, <1>21 DEF Invariant

-----------------------------------------------------------------------------
(***************************************************************************)
(* The invariant holds                                                     *)
(***************************************************************************)

LEMMA InitKeeps == Init => Invariant
  <1>. SUFFICES ASSUME Init PROVE Invariant
    OBVIOUS
  <1>0. /\ up \in [Node -> Folder \cup {Absent}] /\ up[Root] = Root /\ Namesakes(up) = {}
        /\ \A n \in Live : up[n] \in Live
    BY FolderTreeAssumptions DEF Init, Rooted, Live
  <1>1. /\ archives = {} /\ filed = [n \in Node |-> 0] /\ tasks = {} /\ budget = Budget
        /\ trees = [f \in Folder |-> Uncached] /\ call = [t \in Thread |-> Rest] /\ made = Live
        /\ destroyed = {} /\ strays = {} /\ failed = {} /\ brought = {} /\ raced = {} /\ crossed = {}
    BY DEF Init
  <1>2. \A t \in Thread : call[t] = Rest
    BY <1>1
  <1>3. StoresTyped
    <2>1. filed \in [Node -> Nat] /\ trees \in [Folder -> {Uncached} \cup SUBSET Movable]
      BY <1>1
    <2>2. made \subseteq Node
      BY <1>1 DEF Live
    <2>3. budget \in 0 .. Budget
      BY <1>1, FolderTreeAssumptions
    <2>. QED
      BY <1>0, <1>1, <2>1, <2>2, <2>3 DEF StoresTyped
  <1>4. CallsTyped
    <2>1. call = [t \in Thread |-> call[t]]
      BY <1>1
    <2>. QED
      BY <2>1, <1>2, RestOK, NodeFacts DEF CallsTyped
  <1>c. /\ ~IsWriting(Rest) /\ ~IsLooking(Rest) /\ ~IsDeleting(Rest) /\ ~IsComing(Rest)
        /\ ~IsRemoving(Rest) /\ Rest.op # "deleteTree" /\ \A a : ~Drops(Rest, a)
    BY RestOK DEF IsWriting, IsLooking, IsDeleting, IsComing, IsRemoving, Drops
  <1>5. Assigned /\ Excludes /\ Removing
    BY <1>1, <1>2, <1>c, RestOK, NodeFacts DEF Assigned, Excludes, Removing
  <1>6. Numbered /\ Kept
    BY <1>1, <1>2, <1>c DEF Numbered, Kept, Dropped
  <1>7. Listed /\ Emptied
    BY <1>1, <1>2, <1>c, NodeFacts DEF Listed, ListedBy, Emptied
  <1>8. Parented /\ Checked
    BY <1>0, <1>2, <1>c DEF Parented, Checked
  <1>9. Distinct
    <2>. SUFFICES ASSUME NEW n \in Movable, NEW m \in Movable, up[n] = up[m], up[n] # Absent,
                         n # m, NameOf[n] = NameOf[m]
                  PROVE  FALSE
      BY DEF Distinct, Namesake
    <2>1. <<n, m>> \in Namesakes(up)
      BY DEF Namesakes, Movable
    <2>. QED
      BY <2>1, <1>0
  <1>. QED
    BY <1>3, <1>4, <1>5, <1>6, <1>7, <1>8, <1>9 DEF Invariant, Typed

LEMMA SendAnyKeeps ==
  ASSUME Invariant, NEW u \in User, SendAny(u)
  PROVE  Invariant'
  <1>1. CASE \E n \in Node \ {Root}, f \in Folder : SendCreate(u, n, f) \/ SendMove(u, n, f)
    BY <1>1, SendCreateKeeps, SendMoveKeeps
  <1>2. CASE \E n \in Node : SendDelete(u, n)
    BY <1>2, SendDeleteKeeps
  <1>3. CASE \E f \in Folder : SendTree(u, f) \/ SendLook(u, f)
    BY <1>3, SendTreeKeeps, SendLookKeeps
  <1>4. CASE \E a \in archives : SendRestore(u, a) \/ DestroyArchive(u, a)
    BY <1>4, SendRestoreKeeps, DestroyKeeps
  <1>. QED
    BY <1>1, <1>2, <1>3, <1>4 DEF SendAny

LEMMA StepKeeps ==
  ASSUME Invariant, NEW u \in User, Step(u)
  PROVE  Invariant'
  BY WriteKeeps, ListKeeps, LookKeeps, LockKeeps, TreeKeeps, PutKeeps, EnterKeeps, ClimbKeeps,
     AwaitKeeps, ListRestoredKeeps, CloseKeeps, WalkKeeps, GivesUpKeeps, RestoreFolderKeeps,
     RestoreDocumentKeeps DEF Step

LEMMA DeleteKeeps ==
  ASSUME Invariant, NEW t \in Thread, Delete(t)
  PROVE  Invariant'
  BY LockDeletionKeeps, CheckKeeps, ArchiveKeeps, RemoveKeeps, ThrowsKeeps DEF Delete

LEMMA StutterKeeps ==
  ASSUME Invariant, UNCHANGED vars
  PROVE  Invariant'
  <1>0. UNCHANGED <<up, archives, filed, trees, call, tasks, budget, made, destroyed, strays, failed,
                    brought, raced, crossed>>
    BY DEF vars, history
  <1>1. Typed'
    BY <1>0 DEF Invariant, Typed, StoresTyped, CallsTyped
  <1>2. Assigned' /\ Excludes'
    BY <1>0 DEF Invariant, Assigned, Excludes
  <1>3. Removing' /\ Numbered'
    BY <1>0 DEF Invariant, Removing, Numbered, Dropped, Live
  <1>4. Kept'
    BY <1>0 DEF Invariant, Kept, Safe, Dropped, Live
  <1>5. Listed' /\ Emptied'
    BY <1>0 DEF Invariant, Listed, Emptied
  <1>6. Parented' /\ Checked' /\ Distinct'
    BY <1>0 DEF Invariant, Parented, Checked, Distinct, NameExcused, Live
  <1>. QED
    BY <1>1, <1>2, <1>3, <1>4, <1>5, <1>6 DEF Invariant

LEMMA NextKeeps == Invariant /\ [Next]_vars => Invariant'
  <1>. SUFFICES ASSUME Invariant, [Next]_vars PROVE Invariant'
    OBVIOUS
  <1>1. CASE \E u \in User : SendAny(u) \/ Step(u)
    BY <1>1, SendAnyKeeps, StepKeeps
  <1>2. CASE \E t \in Thread : Miss(t) \/ Delete(t)
    BY <1>2, MissKeeps, DeleteKeeps
  <1>3. CASE \E w \in Worker : Take(w)
    BY <1>3, TakeKeeps
  <1>4. CASE \E f \in Folder : Expire(f)
    BY <1>4, ExpireKeeps
  <1>5. CASE UNCHANGED vars
    BY <1>5, StutterKeeps
  <1>. QED
    BY <1>1, <1>2, <1>3, <1>4, <1>5 DEF Next

\* The invariant holds in every state of every run of the folder tree: of its
\* calls, its locks, its cached trees, the tasks of deleteTree and the archive.
THEOREM FolderTreeInvariant == Spec => []Invariant
  BY InitKeeps, NextKeeps, PTL DEF Spec

\* Each variable has its type, and who is moving or deleting a node (moveObject,
\* deleteObjectInternal) is alone with it.
THEOREM FolderTypes == Spec => []TypeOK
  <1>1. Invariant => TypeOK
    <2>. SUFFICES ASSUME Invariant PROVE TypeOK
      OBVIOUS
    <2>1. \A a \in archives : a.node \in Node /\ a.up \in Folder /\ a.with \in BOOLEAN /\ a.by \in Node
      BY DEF Invariant, Typed, StoresTyped, Archived, Movable
    <2>2. trees \in [Folder -> {Uncached} \cup SUBSET Node]
      BY DEF Invariant, Typed, StoresTyped, Movable
    <2>3. ASSUME NEW t \in Thread
          PROVE  /\ call[t].node \in Node /\ call[t].to \in Folder
                 /\ call[t].read \in {Uncached} \cup SUBSET Node
                 /\ Writes(t) => MayWrite(t, call[t].node)
      <3>1. /\ call[t].node \in Node /\ call[t].to \in Folder
            /\ call[t].read \in {Uncached} \cup SUBSET Movable
        BY DEF Invariant, Typed, CallsTyped, CallOK, CallFields
      <3>2. call[t].read \in {Uncached} \cup SUBSET Node
        BY <3>1 DEF Movable
      <3>3. Writes(t) => MayWrite(t, call[t].node)
        BY DEF Invariant, Excludes, Writes, MayWrite, At, IsWriting, IsLooking
      <3>. QED
        BY <3>1, <3>2, <3>3
    <2>4. \A k \in tasks : k.node \in Folder \cup Document /\ k.thread \in Worker \cup {Absent}
      BY DEF Invariant, Typed, StoresTyped, Tasks
    <2>. QED
      BY <2>1, <2>2, <2>3, <2>4 DEF TypeOK, Invariant, Typed, StoresTyped
  <1>. QED
    BY <1>1, FolderTreeInvariant, PTL

\* Every folder and document is in a folder that exists, in the middle of a
\* deleteTree (ContentServiceImpl) or of a restore too, unless the node came into
\* a folder that was going or that did not list it, or its deletion failed.
THEOREM NodesKeepParents == Spec => []Parented
  <1>1. Invariant => Parented
    BY DEF Invariant
  <1>. QED
    BY <1>1, FolderTreeInvariant, PTL

\* What was created exists, or is archived, or its archive was destroyed, at
\* every moment of every call: createArchive comes before delete, and a restore
\* drops an archive after its node is back.
THEOREM NoNodeIsLost == Spec => []NothingLost
  <1>1. Invariant => NothingLost
    BY DEF Invariant, Kept, Safe, NothingLost
  <1>. QED
    BY <1>1, FolderTreeInvariant, PTL

\* Two children of a folder have the same name only if one is an item, was
\* restored, or had its name checked (nameConstraintViolation) while the other was
\* on its way to the folder.
THEOREM NamesStayDistinct == Spec => []NamesDistinct
  <1>1. Invariant => NamesDistinct
    <2>. SUFFICES ASSUME Invariant, NEW p \in Namesakes(up)
                  PROVE  \E i \in {1, 2} : p[i] \in Item \cup brought \cup raced
      BY DEF NamesDistinct
    <2>1. /\ p[1] \in Movable /\ p[2] \in Movable /\ p[1] # p[2] /\ up[p[1]] = up[p[2]]
          /\ up[p[1]] # Absent /\ NameOf[p[1]] = NameOf[p[2]]
      BY DEF Namesakes, Movable
    <2>2. p[1] \in NameExcused \/ p[2] \in NameExcused
      BY <2>1 DEF Invariant, Distinct, Namesake
    <2>. QED
      BY <2>2 DEF NameExcused
  <1>. QED
    BY <1>1, FolderTreeInvariant, PTL

-----------------------------------------------------------------------------
(***************************************************************************)
(* The cached trees list the children                                      *)
(***************************************************************************)

\* A move that has changed the cached trees has its node where it is going.
Puts(c, n) == c.op = "move" /\ c.step = "write" /\ c.node = n
Belongs(n, f) ==
  IF \E t \in Thread : Puts(call[t], n) THEN \E t \in Thread : Puts(call[t], n) /\ call[t].to = f
  ELSE up[n] = f

\* What a folder holds and its cached tree may not list, or not yet.
ToList(c, n, f) == c.op \in {"create", "restore"} /\ c.step = "list" /\ c.node = n /\ c.to = f
Unlisted(n, f) == n \in brought \cap Folder \/ \E t \in Thread : ToList(call[t], n, f)

\* A cached tree lists the children, at every moment.
FitAt(n, f, tree) ==
  /\ n \in tree => Belongs(n, f)
  /\ Belongs(n, f) => n \in tree \/ Unlisted(n, f)
Fit(f, tree) == \A n \in Movable : FitAt(n, f, tree)
Mirror == \A f \in Folder \ crossed : trees[f] # Uncached => Fit(f, trees[f])

\* What is moved exists, and changes parents.
Moves(c) == c.op = "move" /\ c.step \in {"tree", "write"}
Moved == \A t \in Thread : Moves(call[t]) =>
  call[t].node \in Live /\ (call[t].step = "tree" => call[t].to # up[call[t].node])

\* What is created has not been there before.
Fresh ==
  /\ Live \subseteq made /\ \A a \in archives : a.node \in made
  /\ \A t \in Thread : call[t].op = "create" =>
       /\ call[t].step = "write" => call[t].node \notin made
       /\ \A o \in Thread \ {t} : call[o].op = "create" => call[o].node # call[t].node

Cached == Mirror /\ Moved /\ Fresh

LEMMA BelongsFacts ==
  ASSUME Excludes, NEW n, NEW f
  PROVE  /\ \A t \in Thread : Puts(call[t], n) => (Belongs(n, f) <=> call[t].to = f)
         /\ (\A t \in Thread : ~Puts(call[t], n)) => (Belongs(n, f) <=> up[n] = f)
  <1>1. ASSUME NEW t \in Thread, NEW o \in Thread, Puts(call[t], n), Puts(call[o], n) PROVE t = o
    BY <1>1 DEF Excludes, IsWriting, Puts
  <1>. QED
    BY <1>1 DEF Belongs

LEMMA GoesBecomes ==
  ASSUME Invariant, NEW t \in Thread, NEW c, Goes(t, c)
  PROVE  Becomes(t, c)
  BY DEF Invariant, Typed, CallsTyped, Goes, Becomes

LEMMA StepBecomes ==
  ASSUME Invariant, NEW t \in Thread, NEW s, GoesTo(t, s)
  PROVE  \E c : Becomes(t, c) /\ AtStep(c, call[t], s)
  <1>1. PICK c : c = [call[t] EXCEPT !.step = s, !.read = Uncached]
    OBVIOUS
  <1>2. call[t] \in CallFields
    BY DEF Invariant, Typed, CallsTyped, CallOK
  <1>3. AtStep(c, call[t], s)
    BY <1>1, <1>2 DEF CallFields, AtStep
  <1>. QED
    BY <1>1, <1>3, GoesBecomes DEF GoesTo

LEMMA OnlyCallersMove ==
  ASSUME Invariant, NEW w \in Thread, call[w].op \notin {"none", "delete"}
  PROVE  w \in User
  BY DEF Invariant, Typed, CallsTyped, Thread

\* What a call holds of a cached tree, if it was not read across a change, fits.
LEMMA HeldFits ==
  ASSUME Invariant, Mirror, NEW t \in Thread, Holds(t), Crosses(t), TreeOf(t) \notin crossed'
  PROVE  Fit(TreeOf(t), Held(t))
  <1>. DEFINE f == TreeOf(t)
  <1>1. CASE call[t].read = Uncached
    BY <1>1 DEF Held, Holds, Crosses, Late, Mirror
  <1>2. CASE call[t].read # Uncached
    <2>1. ~Late(t)
      BY DEF Crosses
    <2>2. Held(t) = Children(f) /\ ~Moving(f)
      BY <1>2, <2>1 DEF Late, Held
    <2>3. ASSUME NEW n \in Movable PROVE FitAt(n, f, Held(t))
      <3>1. n \in Held(t) <=> up[n] = f
        BY <2>2 DEF Children, Movable
      <3>2. CASE \A o \in Thread : ~Puts(call[o], n)
        BY <3>1, <3>2 DEF Belongs, FitAt
      <3>3. ASSUME NEW o \in Thread, Puts(call[o], n) PROVE FitAt(n, f, Held(t))
        <4>1. \A v \in Thread : Puts(call[v], n) => call[v].to # f /\ up[n] # f
          BY <2>2, OnlyCallersMove DEF Puts, Moving, At
        <4>. QED
          BY <3>1, <3>3, <4>1 DEF Belongs, FitAt
      <3>. QED
        BY <3>2, <3>3
    <2>. QED
      BY <2>3 DEF Fit
  <1>. QED
    BY <1>1, <1>2

\* Where nodes belong, and which are unlisted, does not change in f.
SameIn(f, n) == (Belongs(n, f)' <=> Belongs(n, f)) /\ (Unlisted(n, f) => Unlisted(n, f)')
Undisturbed == \A f \in Folder : \A n \in Movable : SameIn(f, n)

LEMMA KeepsMirror ==
  ASSUME Mirror, Undisturbed,
         \A f \in Folder : f \notin crossed' /\ trees'[f] # Uncached =>
           f \notin crossed /\ trees'[f] = trees[f]
  PROVE  Mirror'
  BY DEF Mirror, Undisturbed, SameIn, Fit, FitAt

\* The cached tree of f is what it was, or has become tree.
LEMMA HeldKeepsMirror ==
  ASSUME Invariant, Mirror, Undisturbed, NEW t \in Thread, Holds(t), Crosses(t), Keeps(t, Held(t))
  PROVE  Mirror'
  <1>1. /\ TreeOf(t) \in Folder
        /\ \A g \in Folder : trees'[g] = IF g = TreeOf(t) THEN Held(t) ELSE trees[g]
    BY DEF Holds, Keeps, Invariant, Typed, StoresTyped
  <1>2. \A g \in Folder : g # TreeOf(t) /\ g \notin crossed' => g \notin crossed
    BY DEF Crosses
  <1>3. ASSUME NEW g \in Folder, g \notin crossed', trees'[g] # Uncached PROVE Fit(g, trees'[g])
    <2>1. CASE g = TreeOf(t)
      BY <1>1, <1>3, <2>1, HeldFits
    <2>2. CASE g # TreeOf(t)
      BY <1>1, <1>2, <1>3, <2>2 DEF Mirror
    <2>. QED
      BY <2>1, <2>2
  <1>. QED
    BY <1>3 DEF Mirror, Undisturbed, SameIn, Fit, FitAt

\* A call that puts what it put, lists what it was to list, and neither starts
\* to move nor to create.
SameCourse(c, b) ==
  /\ \A n : Puts(c, n) <=> Puts(b, n)
  /\ \A n, f : ToList(b, n, f) => ToList(c, n, f)
  /\ Moves(c) => Moves(b) /\ c.node = b.node /\ c.to = b.to /\ (c.step = "tree" => b.step = "tree")
  /\ c.op = "create" => b.op = "create" /\ c.node = b.node /\ (c.step = "write" => b.step = "write")

\* The nodes stay where they are.
SameNodes ==
  /\ UNCHANGED <<up, brought, made>>
  /\ \A a \in archives' : a \in archives \/ a.node \in Live

LEMMA KeepsMoved ==
  ASSUME Moved, NEW t \in Thread, NEW c, Becomes(t, c),
         \A o \in Thread : o # t /\ Moves(call[o]) => up'[call[o].node] = up[call[o].node],
         Moves(c) => c.node \in Live' /\ (c.step = "tree" => c.to # up'[c.node])
  PROVE  Moved'
  BY DEF Moved, Becomes, Live

LEMMA KeepsFresh ==
  ASSUME Fresh, NEW t \in Thread, NEW c, Becomes(t, c),
         Live' \subseteq made', \A a \in archives' : a.node \in made',
         \A n \in made' : n \in made \/ (call[t].op = "create" /\ call[t].node = n),
         c.op = "create" =>
           /\ c.step = "write" => c.node \notin made'
           /\ \A o \in Thread \ {t} : call[o].op = "create" => call[o].node # c.node
  PROVE  Fresh'
  BY DEF Fresh, Becomes

LEMMA SteadyStep ==
  ASSUME Invariant, Moved, Fresh, NEW t \in Thread, NEW c, Becomes(t, c), SameCourse(c, call[t]), SameNodes
  PROVE  Undisturbed /\ Moved' /\ Fresh'
  <1>1. Live' = Live
    BY DEF SameNodes, Live
  <1>2. Undisturbed
    <2>. SUFFICES ASSUME NEW f \in Folder, NEW n \in Movable PROVE SameIn(f, n)
      BY DEF Undisturbed
    <2>1. \A o \in Thread : Puts(call'[o], n) <=> Puts(call[o], n)
      BY DEF Becomes, SameCourse
    <2>2. \A o \in Thread : Puts(call[o], n) => call'[o].to = call[o].to
      BY DEF Becomes, SameCourse, Puts, Moves
    <2>3. \A o \in Thread : ToList(call[o], n, f) => ToList(call'[o], n, f)
      BY DEF Becomes, SameCourse
    <2>4. Belongs(n, f)' <=> Belongs(n, f)
      BY <2>1, <2>2 DEF SameNodes, Belongs
    <2>5. Unlisted(n, f) => Unlisted(n, f)'
      BY <2>3 DEF SameNodes, Unlisted
    <2>. QED
      BY <2>4, <2>5 DEF SameIn
  <1>3. Moved'
    <2>1. Moves(c) => c.node \in Live' /\ (c.step = "tree" => c.to # up'[c.node])
      BY <1>1 DEF SameCourse, SameNodes, Moved
    <2>. QED
      BY <2>1, KeepsMoved DEF SameNodes
  <1>4. Fresh'
    <2>1. Live' \subseteq made' /\ \A a \in archives' : a.node \in made'
      BY <1>1 DEF SameNodes, Fresh
    <2>2. c.op = "create" =>
           /\ c.step = "write" => c.node \notin made'
           /\ \A o \in Thread \ {t} : call[o].op = "create" => call[o].node # c.node
      BY DEF SameCourse, SameNodes, Fresh
    <2>. QED
      BY <2>1, <2>2, KeepsFresh DEF SameNodes
  <1>. QED
    BY <1>2, <1>3, <1>4


\* Steps that leave the nodes and the cached trees as they are.
LEMMA SteadyKeeps ==
  ASSUME Invariant, Cached, NEW t \in Thread, NEW c, Becomes(t, c), SameCourse(c, call[t]), SameNodes,
         UNCHANGED <<trees, crossed>>
  PROVE  Cached'
  <1>1. Undisturbed /\ Moved' /\ Fresh'
    BY SteadyStep DEF Cached
  <1>2. Mirror'
    BY <1>1, KeepsMirror DEF Cached
  <1>. QED
    BY <1>1, <1>2 DEF Cached

\* Steps that leave the nodes as they are, and a cached tree as they found it.
LEMMA SteadyHeldKeeps ==
  ASSUME Invariant, Cached, NEW t \in Thread, NEW c, Becomes(t, c), SameCourse(c, call[t]), SameNodes,
         Holds(t), Crosses(t), Keeps(t, Held(t))
  PROVE  Cached'
  <1>1. Undisturbed /\ Moved' /\ Fresh'
    BY SteadyStep DEF Cached
  <1>2. Mirror'
    BY <1>1, HeldKeepsMirror DEF Cached
  <1>. QED
    BY <1>1, <1>2 DEF Cached

\* The calls that neither move nor create nor list.
Idle(c) == c.op \in {"none", "look", "delete", "deleteTree"} \/ (c.op = "restore" /\ c.step = "climb")
LEMMA IdleCourse ==
  ASSUME NEW c, NEW b, Idle(c), Idle(b)
  PROVE  SameCourse(c, b)
  BY DEF Idle, SameCourse, Puts, ToList, Moves

LEMMA RestIdle == Idle(Rest)
  BY DEF Idle, Rest

\* A call that changes its operation, or goes on with it.
LEMMA CallFacts ==
  ASSUME Invariant, NEW t \in Thread
  PROVE  CallOK(call[t]) /\ call[t] \in CallFields
  BY DEF Invariant, Typed, CallsTyped, CallOK

LEMMA SendsCached ==
  ASSUME Invariant, Cached, NEW u \in User, NEW c, Becomes(u, c), ~Busy(u), SameNodes,
         UNCHANGED <<trees, crossed>>, Idle(c) \/ (c.op = "move" /\ c.step = "lock")
  PROVE  Cached'
  <1>1. SameCourse(c, call[u])
    BY DEF Busy, Idle, SameCourse, Puts, ToList, Moves
  <1>. QED
    BY <1>1, SteadyKeeps, NodeFacts

LEMMA SendCreateCached ==
  ASSUME Invariant, Cached, NEW u \in User, NEW n \in Movable, NEW f \in Folder, SendCreate(u, n, f)
  PROVE  Cached'
  <1>u. u \in Thread
    BY NodeFacts
  <1>1. PICK c : c = [Rest EXCEPT !.op = "create", !.step = "write", !.node = n, !.to = f]
    OBVIOUS
  <1>2. c.op = "create" /\ c.step = "write" /\ c.node = n
    BY <1>1 DEF Rest
  <1>3. Becomes(u, c)
    BY <1>u, <1>1, GoesBecomes DEF SendCreate, Send
  <1>4. SameNodes /\ UNCHANGED <<trees, crossed>> /\ Live' = Live
    BY DEF SendCreate, Send, SameNodes, Live
  <1>5. call[u].op = "none"
    BY DEF SendCreate, Send, Busy
  <1>6. Undisturbed
    <2>. SUFFICES ASSUME NEW g \in Folder, NEW m \in Movable PROVE SameIn(g, m)
      BY DEF Undisturbed
    <2>1. \A o \in Thread : /\ Puts(call'[o], m) <=> Puts(call[o], m)
                            /\ Puts(call[o], m) => call'[o].to = call[o].to
                            /\ ToList(call[o], m, g) => ToList(call'[o], m, g)
      BY <1>2, <1>3, <1>5 DEF Becomes, Puts, ToList
    <2>2. (Belongs(m, g)' <=> Belongs(m, g)) /\ (Unlisted(m, g) => Unlisted(m, g)')
      BY <2>1, <1>4 DEF Belongs, Unlisted, SameNodes
    <2>. QED
      BY <2>2 DEF SameIn
  <1>7. Moved'
    BY <1>u, <1>2, <1>3, <1>4, KeepsMoved DEF Cached, SameNodes, Moves
  <1>8. Fresh'
    <2>1. n \notin made /\ \A o \in Thread : call[o].op = "create" => call[o].node # n
      BY OnlyCallersMove DEF SendCreate
    <2>2. Live' \subseteq made' /\ \A a \in archives' : a.node \in made'
      BY <1>4 DEF Cached, Fresh, SameNodes
    <2>. QED
      BY <1>u, <1>2, <1>3, <1>4, <2>1, <2>2, KeepsFresh DEF Cached, SameNodes
  <1>. QED
    BY <1>4, <1>6, <1>7, <1>8, KeepsMirror DEF Cached

LEMMA SendAnyCached ==
  ASSUME Invariant, Cached, NEW u \in User, SendAny(u)
  PROVE  Cached'
  <1>1. ASSUME NEW n \in Node \ {Root}, NEW f \in Folder, SendMove(u, n, f) PROVE Cached'
    <2>1. PICK c : c = [Rest EXCEPT !.op = "move", !.step = "lock", !.node = n, !.to = f]
      OBVIOUS
    <2>2. c.op = "move" /\ c.step = "lock"
      BY <2>1 DEF Rest
    <2>. QED
      BY <1>1, <2>1, <2>2, SendsCached, GoesBecomes, NodeFacts DEF SendMove, Send, SameNodes
  <1>2. ASSUME NEW n \in Node, SendDelete(u, n) PROVE Cached'
    <2>1. PICK c : c = [Rest EXCEPT !.op = "delete", !.step = "lock", !.node = n, !.by = n]
      OBVIOUS
    <2>2. Idle(c)
      BY <2>1 DEF Rest, Idle
    <2>. QED
      BY <1>2, <2>1, <2>2, SendsCached, GoesBecomes, NodeFacts DEF SendDelete, Send, SameNodes
  <1>3. ASSUME NEW f \in Folder, SendTree(u, f) PROVE Cached'
    <2>1. PICK c : c = [Rest EXCEPT !.op = "deleteTree", !.step = "enter", !.to = f, !.by = f]
      OBVIOUS
    <2>2. Idle(c)
      BY <2>1 DEF Rest, Idle
    <2>. QED
      BY <1>3, <2>1, <2>2, SendsCached, GoesBecomes, NodeFacts DEF SendTree, Send, SameNodes
  <1>4. ASSUME NEW f \in Folder, SendLook(u, f) PROVE Cached'
    <2>1. PICK c : c = [Rest EXCEPT !.op = "look", !.step = "list", !.node = f, !.to = f]
      OBVIOUS
    <2>2. Idle(c)
      BY <2>1 DEF Rest, Idle
    <2>. QED
      BY <1>4, <2>1, <2>2, SendsCached, GoesBecomes, NodeFacts DEF SendLook, Send, SameNodes
  <1>5. ASSUME NEW a \in archives, SendRestore(u, a) PROVE Cached'
    <2>1. PICK c : c = [Rest EXCEPT !.op = "restore", !.step = "climb",
                                    !.stack = <<[of |-> Absent, todo |-> {a}]>>]
      OBVIOUS
    <2>2. Idle(c)
      BY <2>1 DEF Rest, Idle
    <2>. QED
      BY <1>5, <2>1, <2>2, SendsCached, GoesBecomes, NodeFacts DEF SendRestore, Send, SameNodes
  <1>6. ASSUME NEW a \in archives, DestroyArchive(u, a) PROVE Cached'
    <2>1. Becomes(u, call[u]) /\ UNCHANGED <<up, trees, crossed, made, brought, call>>
      BY <1>6, NodeFacts DEF DestroyArchive, Becomes
    <2>2. SameNodes
      BY <1>6 DEF DestroyArchive, SameNodes
    <2>3. SameCourse(call[u], call[u])
      BY DEF SameCourse
    <2>. QED
      BY <2>1, <2>2, <2>3, SteadyKeeps, NodeFacts
  <1>. QED
    BY <1>1, <1>2, <1>3, <1>4, <1>5, <1>6, SendCreateCached DEF SendAny, Movable


LEMMA MissCached ==
  ASSUME Invariant, Cached, NEW t \in Thread, Miss(t)
  PROVE  Cached'
  <1>1. PICK c : c = [call[t] EXCEPT !.read = Children(TreeOf(t))]
    OBVIOUS
  <1>2. Becomes(t, c)
    BY <1>1, GoesBecomes DEF Miss
  <1>3. AtStep(c, call[t], call[t].step)
    BY <1>1, CallFacts DEF CallFields, AtStep
  <1>4. SameCourse(c, call[t])
    BY <1>3 DEF AtStep, SameCourse, Puts, ToList, Moves
  <1>. QED
    BY <1>2, <1>4, SteadyKeeps DEF Miss, history, SameNodes

LEMMA ExpireCached ==
  ASSUME Invariant, Cached, NEW f \in Folder, Expire(f)
  PROVE  Cached'
  <1>0. UNCHANGED <<up, archives, call, made, brought>>
    BY DEF Expire, history
  <1>1. \A g \in Folder : trees'[g] = IF g = f THEN Uncached ELSE trees[g]
    BY DEF Expire, Invariant, Typed, StoresTyped
  <1>2. \A g \in Folder : g \notin crossed' /\ trees'[g] # Uncached =>
          g \notin crossed /\ trees'[g] = trees[g]
    BY <1>1 DEF Expire
  <1>3. Undisturbed
    BY <1>0 DEF Undisturbed, SameIn, Belongs, Unlisted
  <1>4. Moved' /\ Fresh'
    BY <1>0 DEF Cached, Moved, Fresh, Live
  <1>. QED
    BY <1>2, <1>3, <1>4, KeepsMirror DEF Cached

LEMMA IdleSteps ==
  ASSUME Invariant, Cached, NEW u \in User,
         \/ Climb(u) \/ Await(u) \/ Close(u) \/ GivesUp(u)
         \/ Walk(u)
  PROVE  Cached'
  <1>u. u \in Thread /\ CallOK(call[u])
    BY NodeFacts, CallFacts
  <1>1. Idle(call[u]) /\ SameNodes /\ UNCHANGED <<trees, crossed>>
    BY DEF Climb, Await, Close, GivesUp, Walk, At, Idle, SameNodes, history
  <1>2. ASSUME NEW c, Goes(u, c), Idle(c) PROVE Cached'
    BY <1>u, <1>1, <1>2, GoesBecomes, IdleCourse, SteadyKeeps
  <1>3. CASE Climb(u)
    <2>1. PICK c : c = [call[u] EXCEPT !.stack = Tail(call[u].stack),
                           !.step = IF Tail(call[u].stack) = <<>> THEN "wait" ELSE "walk"]
      OBVIOUS
    <2>2. Goes(u, c)
      BY <1>3, <2>1 DEF Climb
    <2>3. c.op = "deleteTree"
      BY <1>u, <1>3, <2>1 DEF Climb, At, CallOK, CallFields
    <2>. QED
      BY <1>2, <2>2, <2>3 DEF Idle
  <1>4. CASE Await(u)
    BY <1>2, <1>4, RestIdle DEF Await, Ends
  <1>5. CASE Close(u)
    <2>1. CASE Ends(u)
      BY <1>2, <2>1, RestIdle DEF Ends
    <2>2. CASE Goes(u, [call[u] EXCEPT !.stack = Tail(@)])
      <3>1. PICK c : c = [call[u] EXCEPT !.stack = Tail(@)]
        OBVIOUS
      <3>2. c.op = "restore" /\ c.step = "climb"
        BY <1>u, <1>5, <3>1 DEF Close, At, CallOK, CallFields
      <3>. QED
        BY <1>2, <2>2, <3>1, <3>2 DEF Idle
    <2>. QED
      BY <1>5, <2>1, <2>2 DEF Close
  <1>6. CASE GivesUp(u)
    BY <1>2, <1>6, RestIdle DEF GivesUp, Ends
  <1>7. CASE Walk(u)
    <2>1. PICK n \in Top(u).todo : LET rest == [call[u] EXCEPT !.stack[1].todo = @ \ {n}] IN
            \/ Goes(u, rest)
            \/ Goes(u, [rest EXCEPT !.step = "wait", !.stack = <<>>])
            \/ Goes(u, [rest EXCEPT !.step = "enter", !.to = n])
      BY <1>7 DEF Walk
    <2>2. PICK rest : rest = [call[u] EXCEPT !.stack[1].todo = @ \ {n}]
      OBVIOUS
    <2>3. rest.op = "deleteTree" /\ DOMAIN rest = DOMAIN call[u]
      BY <1>u, <1>7, <2>2 DEF Walk, At, CallOK, CallFields
    <2>4. \/ Goes(u, rest)
          \/ Goes(u, [rest EXCEPT !.step = "wait", !.stack = <<>>])
          \/ Goes(u, [rest EXCEPT !.step = "enter", !.to = n])
      BY <2>1, <2>2
    <2>5. /\ rest.op = "deleteTree"
          /\ [rest EXCEPT !.step = "wait", !.stack = <<>>].op = "deleteTree"
          /\ [rest EXCEPT !.step = "enter", !.to = n].op = "deleteTree"
      BY <2>3
    <2>. QED
      BY <1>2, <2>4, <2>5 DEF Idle
  <1>. QED
    BY <1>3, <1>4, <1>5, <1>6, <1>7

LEMMA LookCached ==
  ASSUME Invariant, Cached, NEW u \in User, Look(u)
  PROVE  Cached'
  <1>1. u \in Thread /\ Becomes(u, Rest)
    BY GoesBecomes, NodeFacts DEF Look, Ends
  <1>2. SameCourse(Rest, call[u]) /\ SameNodes
    BY RestIdle, IdleCourse DEF Look, At, Idle, SameNodes, history
  <1>. QED
    BY <1>1, <1>2, SteadyHeldKeeps DEF Look

LEMMA EnterCached ==
  ASSUME Invariant, Cached, NEW u \in User, Enter(u)
  PROVE  Cached'
  <1>u. u \in Thread
    BY NodeFacts
  <1>1. PICK c : Goes(u, c) /\ c = [call[u] EXCEPT !.step = "walk", !.read = Uncached,
          !.stack = <<[of |-> call[u].to, todo |-> (Held(u) \cap Live) \ Item]>> \o @]
    BY DEF Enter
  <1>2. c.op = "deleteTree"
    BY <1>u, <1>1, CallFacts DEF Enter, At, CallFields
  <1>3. SameCourse(c, call[u]) /\ SameNodes
    BY <1>2, IdleCourse DEF Enter, At, Idle, SameNodes
  <1>4. Becomes(u, c)
    BY <1>u, <1>1, GoesBecomes
  <1>. QED
    BY <1>u, <1>3, <1>4, SteadyHeldKeeps DEF Enter

LEMMA TakeCached ==
  ASSUME Invariant, Cached, NEW w \in Worker, Take(w)
  PROVE  Cached'
  <1>w. w \in Thread
    BY NodeFacts
  <1>1. PICK k \in tasks : Goes(w, [Rest EXCEPT !.op = "delete", !.step = "lock", !.node = k.node, !.by = k.by,
                                  !.with = TRUE])
    BY DEF Take
  <1>2. PICK c : c = [Rest EXCEPT !.op = "delete", !.step = "lock", !.node = k.node, !.by = k.by,
                                  !.with = TRUE]
    OBVIOUS
  <1>3. c.op = "delete"
    BY <1>2 DEF Rest
  <1>4. SameCourse(c, call[w]) /\ SameNodes /\ UNCHANGED <<trees, crossed>>
    BY <1>3, IdleCourse DEF Take, Busy, Idle, SameNodes, history
  <1>. QED
    BY <1>w, <1>1, <1>2, <1>4, GoesBecomes, SteadyKeeps

\* The deletions that do not remove the node.
LEMMA DeletingCached ==
  ASSUME Invariant, Cached, NEW t \in Thread, LockDeletion(t) \/ Check(t) \/ Archive(t) \/ Throws(t)
  PROVE  Cached'
  <1>0. call[t].op = "delete" /\ Idle(call[t])
    BY DEF LockDeletion, Check, Archive, Throws, Deleting, At, Idle
  <1>1. ASSUME Ends(t) PROVE \E c : Becomes(t, c) /\ SameCourse(c, call[t])
    BY <1>0, <1>1, GoesBecomes, RestIdle, IdleCourse DEF Ends
  <1>2. ASSUME NEW s, GoesTo(t, s) PROVE \E c : Becomes(t, c) /\ SameCourse(c, call[t])
    BY <1>0, <1>2, StepBecomes, IdleCourse DEF AtStep, Idle
  <1>3. CASE Check(t)
    <2>1. \E c : Becomes(t, c) /\ SameCourse(c, call[t])
      BY <1>1, <1>2, <1>3 DEF Check
    <2>. QED
      BY <1>3, <2>1, SteadyHeldKeeps DEF Check, SameNodes
  <1>4. CASE LockDeletion(t) \/ Archive(t) \/ Throws(t)
    <2>1. \E c : Becomes(t, c) /\ SameCourse(c, call[t])
      BY <1>1, <1>2, <1>4 DEF LockDeletion, Archive, Throws, Finishes
    <2>2. UNCHANGED <<up, brought, made, trees, crossed>>
      BY <1>4 DEF LockDeletion, Archive, Throws, history
    <2>3. \A a \in archives' : a \in archives \/ a.node \in Live
      BY <1>4 DEF LockDeletion, Archive, Throws, history, NewArchive
    <2>. QED
      BY <2>1, <2>2, <2>3, SteadyKeeps DEF SameNodes
  <1>. QED
    BY <1>3, <1>4


\* Who is alone with a node: no other call is moving it.
LEMMA Alone ==
  ASSUME Invariant, NEW t \in Thread, IsWriting(call[t]) \/ MayWrite(t, call[t].node)
  PROVE  \A o \in Thread \ {t} : ~Puts(call[o], call[t].node) /\ (Moves(call[o]) => call[o].node # call[t].node)
  BY DEF Invariant, Excludes, IsWriting, MayWrite, Writes, Puts, Moves

\* Nodes other than n, and calls other than that of t, are where they were.
LEMMA OthersSame ==
  ASSUME NEW t \in Thread, NEW c, Becomes(t, c), NEW n, NEW m \in Movable, m # n, NEW f,
         up'[m] = up[m], brought \subseteq brought',
         Moves(c) => c.node = n, Moves(call[t]) => call[t].node = n,
         ToList(call[t], m, f) => ToList(c, m, f)
  PROVE  SameIn(f, m)
  <1>1. \A o \in Thread : /\ Puts(call'[o], m) <=> Puts(call[o], m)
                          /\ Puts(call[o], m) => call'[o] = call[o]
                          /\ ToList(call[o], m, f) => ToList(call'[o], m, f)
    BY DEF Becomes, Puts, Moves
  <1>2. Belongs(m, f)' <=> Belongs(m, f)
    BY <1>1 DEF Belongs
  <1>3. Unlisted(m, f) => Unlisted(m, f)'
    BY <1>1 DEF Unlisted
  <1>. QED
    BY <1>2, <1>3 DEF SameIn

LEMMA LockCached ==
  ASSUME Invariant, Cached, NEW u \in User, Lock(u)
  PROVE  Cached'
  <1>. DEFINE b == call[u]
  <1>u. u \in Thread /\ CallOK(b) /\ b.node \in Movable /\ b.to \in Folder
    BY NodeFacts, CallFacts DEF Lock, At, CallOK, CallFields, Movable
  <1>n. PICK n \in Movable, f \in Folder : n = b.node /\ f = b.to
    BY <1>u
  <1>0. b.op = "move" /\ b.step = "lock" /\ MayWrite(u, n) /\ SameNodes /\ UNCHANGED <<trees, crossed>>
    BY <1>n DEF Lock, At, SameNodes
  <1>1. CASE Ends(u)
    <2>1. SameCourse(Rest, b)
      BY <1>0 DEF SameCourse, Rest, Puts, ToList, Moves
    <2>. QED
      BY <1>u, <1>0, <1>1, <2>1, GoesBecomes, SteadyKeeps DEF Ends
  <1>2. ASSUME NEW s, s = IF f = up[n] THEN "write" ELSE "tree", GoesTo(u, s), n \in Live
        PROVE  Cached'
    <2>1. PICK c : Becomes(u, c) /\ AtStep(c, b, s)
      BY <1>u, <1>2, StepBecomes
    <2>2. c.op = "move" /\ c.step = s /\ c.node = n /\ c.to = f
      BY <1>n, <1>0, <2>1 DEF AtStep
    <2>3. Undisturbed
      <3>. SUFFICES ASSUME NEW g \in Folder, NEW m \in Movable PROVE SameIn(g, m)
        BY DEF Undisturbed
      <3>1. CASE m # n
        <4>1. up'[m] = up[m] /\ brought' = brought
          BY <1>0 DEF SameNodes
        <4>2. /\ Moves(c) => c.node = n
              /\ Moves(b) => b.node = n
              /\ ~ToList(b, m, g)
          BY <1>0, <1>n, <2>2 DEF Moves, ToList
        <4>. QED
          BY <1>u, <2>1, <3>1, <4>1, <4>2, OthersSame
      <3>2. CASE m = n
        <4>1. \A o \in Thread : ~Puts(call[o], n)
          BY <1>u, <1>n, <1>0, Alone DEF Puts
        <4>2. \A o \in Thread : Puts(call'[o], n) => o = u /\ call'[o].to = up[n]
          BY <1>2, <2>1, <2>2, <4>1 DEF Becomes, Puts
        <4>3. Belongs(n, g)' <=> Belongs(n, g)
          BY <4>1, <4>2, <1>0 DEF Belongs, SameNodes
        <4>4. Unlisted(n, g) => Unlisted(n, g)'
          BY <1>0, <2>1, <2>2 DEF Unlisted, Becomes, SameNodes, ToList
        <4>. QED
          BY <3>2, <4>3, <4>4 DEF SameIn
      <3>. QED
        BY <3>1, <3>2
    <2>4. Live' = Live
      BY <1>0 DEF SameNodes, Live
    <2>5. Moved'
      BY <1>u, <1>0, <1>2, <2>1, <2>2, <2>4, KeepsMoved DEF Cached, SameNodes
    <2>6. Fresh'
      BY <1>u, <1>0, <2>1, <2>2, <2>4, KeepsFresh DEF Cached, SameNodes, Fresh
    <2>. QED
      BY <1>0, <2>3, <2>5, <2>6, KeepsMirror DEF Cached
  <1>. QED
    BY <1>n, <1>1, <1>2 DEF Lock

LEMMA TreeCached ==
  ASSUME Invariant, Cached, NEW u \in User, Tree(u)
  PROVE  Cached'
  <1>. DEFINE b == call[u]
  <1>u. u \in Thread /\ CallOK(b) /\ b.node \in Movable /\ b.to \in Folder
    BY NodeFacts, CallFacts DEF Tree, At, CallOK, CallFields, Movable
  <1>n. PICK n \in Movable, f \in Folder : n = b.node /\ f = b.to
    BY <1>u
  <1>0. b.op = "move" /\ b.step = "tree" /\ Holds(u) /\ Crosses(u) /\ SameNodes /\ TreeOf(u) = f
    BY <1>n DEF Tree, At, SameNodes, history, TreeOf
  <1>1. PICK c : Becomes(u, c) /\ AtStep(c, b, "write")
    BY <1>u, StepBecomes DEF Tree
  <1>2. c.op = "move" /\ c.step = "write" /\ c.node = n /\ c.to = f
    BY <1>n, <1>0, <1>1 DEF AtStep
  <1>s. PICK s : s = up[n]
    OBVIOUS
  <1>3. n \in Live /\ f # s /\ s \in Folder
    BY <1>u, <1>n, <1>s, <1>0 DEF Cached, Moved, Moves, Live, Invariant, Typed, StoresTyped
  <1>4. \A g \in Folder : trees'[g] = IF g = f THEN Held(u) \cup {n}
                                      ELSE IF g = s /\ trees[g] # Uncached THEN trees[g] \ {n} ELSE trees[g]
    BY <1>u, <1>n, <1>s, <1>3 DEF Tree, Invariant, Typed, StoresTyped
  <1>5. Moved'
    BY <1>u, <1>s, <1>0, <1>1, <1>2, <1>3, KeepsMoved DEF Cached, SameNodes, Live
  <1>6. Fresh'
    <2>1. Live' = Live
      BY <1>0 DEF SameNodes, Live
    <2>. QED
      BY <1>u, <1>n, <1>0, <1>1, <1>2, <2>1, KeepsFresh DEF Cached, SameNodes, Fresh
  <1>7. ASSUME NEW g \in Folder, NEW m \in Movable, m # n PROVE SameIn(g, m)
    <2>1. up'[m] = up[m] /\ brought' = brought
      BY <1>0 DEF SameNodes
    <2>2. c.node = n /\ b.node = n /\ ~ToList(b, m, g)
      BY <1>n, <1>0, <1>2 DEF ToList
    <2>. QED
      BY <1>u, <1>1, <1>7, <2>1, <2>2, OthersSame
  <1>8. ASSUME NEW g \in Folder PROVE (Belongs(n, g) <=> g = s) /\ (Belongs(n, g)' <=> g = f)
    <2>1. \A o \in Thread : ~Puts(call[o], n)
      BY <1>u, <1>n, <1>0, Alone DEF Puts, IsWriting
    <2>2. \A o \in Thread : Puts(call'[o], n) <=> o = u
      BY <1>u, <1>1, <1>2, <2>1 DEF Becomes, Puts
    <2>3. call'[u].to = f
      BY <1>u, <1>1, <1>2 DEF Becomes
    <2>4. Belongs(n, g) <=> g = s
      BY <1>s, <2>1 DEF Belongs
    <2>5. Belongs(n, g)' <=> g = f
      BY <1>u, <2>2, <2>3 DEF Belongs
    <2>. QED
      BY <2>4, <2>5
  <1>9. ASSUME NEW g \in Folder, g \notin crossed', trees'[g] # Uncached, NEW m \in Movable
        PROVE  FitAt(m, g, trees[g])' 
    <2>1. g # f => g \notin crossed
      BY <1>0, <1>9 DEF Crosses
    <2>2. CASE g = f
      <3>1. FitAt(m, f, Held(u))
        <4>1. TreeOf(u) \notin crossed' /\ Mirror
          BY <1>0, <1>9, <2>2 DEF Cached
        <4>2. Fit(TreeOf(u), Held(u))
          BY <1>u, <1>0, <4>1, HeldFits
        <4>. QED
          BY <1>0, <1>9, <4>2 DEF Fit
      <3>2. CASE m = n
        BY <1>4, <1>8, <2>2, <3>2 DEF FitAt
      <3>3. CASE m # n
        BY <1>4, <1>7, <2>2, <3>1, <3>3 DEF FitAt, SameIn
      <3>. QED
        BY <3>2, <3>3
    <2>3. CASE g # f
      <3>1. trees[g] # Uncached /\ FitAt(m, g, trees[g])
        BY <1>4, <1>9, <2>1, <2>3 DEF Cached, Mirror, Fit
      <3>2. CASE m = n
        BY <1>4, <1>8, <2>3, <3>1, <3>2 DEF FitAt
      <3>3. CASE m # n
        BY <1>4, <1>7, <2>3, <3>1, <3>3 DEF FitAt, SameIn
      <3>. QED
        BY <3>2, <3>3
    <2>. QED
      BY <2>2, <2>3
  <1>10. Mirror'
    BY <1>9 DEF Mirror, Fit
  <1>. QED
    BY <1>5, <1>6, <1>10 DEF Cached

LEMMA PutCached ==
  ASSUME Invariant, Cached, NEW u \in User, Put(u)
  PROVE  Cached'
  <1>. DEFINE b == call[u]
  <1>u. u \in Thread /\ CallOK(b) /\ b.node \in Movable /\ b.to \in Folder
    BY NodeFacts, CallFacts DEF Put, At, CallOK, CallFields, Movable
  <1>n. PICK n \in Movable, f \in Folder : n = b.node /\ f = b.to
    BY <1>u
  <1>0. /\ b.op = "move" /\ b.step = "write" /\ Becomes(u, Rest)
        /\ UNCHANGED <<archives, trees, crossed, made, brought>>
    BY <1>u, GoesBecomes DEF Put, At, Ends
  <1>1. \A m \in Node : up'[m] = IF m = n THEN f ELSE up[m]
    BY <1>n DEF Put, Invariant, Typed, StoresTyped
  <1>2. Live' = Live
    BY <1>u, <1>n, <1>0, <1>1, NodeFacts DEF Live, Cached, Moved, Moves
  <1>r. Rest.op = "none"
    BY DEF Rest
  <1>3. Undisturbed
    <2>. SUFFICES ASSUME NEW g \in Folder, NEW m \in Movable PROVE SameIn(g, m)
      BY DEF Undisturbed
    <2>1. CASE m # n
      <3>1. up'[m] = up[m]
        BY <1>1, <2>1 DEF Movable
      <3>. QED
        <4>1. ~Moves(Rest) /\ b.node = n /\ ~ToList(b, m, g)
          BY <1>n, <1>0, <1>r DEF Moves, ToList
        <4>2. brought' = brought
          BY <1>0
        <4>. QED
          BY <1>u, <1>0, <2>1, <3>1, <4>1, <4>2, OthersSame
    <2>2. CASE m = n
      <3>1. \A o \in Thread : Puts(call[o], n) <=> o = u
        BY <1>u, <1>n, <1>0, Alone DEF Puts, IsWriting
      <3>2. \A o \in Thread : ~Puts(call'[o], n)
        BY <1>0, <1>r, <3>1 DEF Becomes, Puts
      <3>3. up'[n] = f
        BY <1>u, <1>1 DEF Movable
      <3>4. Belongs(n, g)' <=> Belongs(n, g)
        BY <1>u, <1>n, <3>1, <3>2, <3>3 DEF Belongs
      <3>5. Unlisted(n, g) => Unlisted(n, g)'
        BY <1>0, <1>r DEF Unlisted, Becomes, ToList
      <3>. QED
        BY <2>2, <3>4, <3>5 DEF SameIn
    <2>. QED
      BY <2>1, <2>2
  <1>4. Moved'
    <2>1. \A o \in Thread : o # u /\ Moves(call[o]) => up'[call[o].node] = up[call[o].node]
      <3>1. ASSUME NEW o \in Thread, o # u, Moves(call[o]) PROVE call[o].node # n /\ call[o].node \in Node
        BY <1>u, <1>n, <1>0, <3>1, Alone, CallFacts DEF IsWriting, CallFields
      <3>. QED
        BY <1>1, <3>1
    <2>. QED
      BY <1>u, <1>0, <1>r, <2>1, KeepsMoved DEF Cached, Moves
  <1>5. Fresh'
    BY <1>u, <1>0, <1>r, <1>2, KeepsFresh DEF Cached, Fresh
  <1>. QED
    BY <1>0, <1>3, <1>4, <1>5, KeepsMirror DEF Cached


\* A node comes into a folder, whose cached tree is going to list it, or need not.
LEMMA ArrivesCached ==
  ASSUME Invariant, Mirror, Moved, NEW t \in Thread, NEW c, Becomes(t, c),
         NEW n \in Movable, NEW f \in Folder, n \notin Live, ~Moves(c), ~Moves(call[t]),
         up' = [up EXCEPT ![n] = f], brought \subseteq brought', Unlisted(n, f)',
         \A m, g : ~ToList(call[t], m, g), UNCHANGED <<trees, crossed>>
  PROVE  Mirror' /\ Moved' /\ Live' = Live \cup {n}
  <1>1. \A m \in Node : up'[m] = IF m = n THEN f ELSE up[m]
    BY DEF Invariant, Typed, StoresTyped
  <1>2. Live' = Live \cup {n}
    BY <1>1, NodeFacts DEF Live, Movable
  <1>3. Moved'
    <2>1. ASSUME NEW o \in Thread, Moves(call[o]) PROVE up'[call[o].node] = up[call[o].node]
      BY <1>1, <2>1 DEF Moved, Live
    <2>. QED
      BY <2>1, KeepsMoved
  <1>4. ASSUME NEW g \in Folder PROVE ~Belongs(n, g) /\ (Belongs(n, g)' <=> g = f)
    <2>1. \A o \in Thread : ~Puts(call[o], n) /\ ~Puts(call'[o], n)
      BY DEF Moved, Puts, Moves, Becomes
    <2>2. up[n] = Absent /\ up'[n] = f
      BY <1>1 DEF Live, Movable
    <2>. QED
      BY <2>1, <2>2, NodeFacts DEF Belongs
  <1>5. ASSUME NEW g \in Folder, g \notin crossed', trees'[g] # Uncached, NEW m \in Movable
        PROVE  FitAt(m, g, trees[g])'
    <2>1. FitAt(m, g, trees[g])
      BY <1>5 DEF Mirror, Fit
    <2>2. CASE m = n
      BY <1>4, <2>1, <2>2 DEF FitAt
    <2>3. CASE m # n
      <3>1. up'[m] = up[m]
        BY <1>1, <2>3 DEF Movable
      <3>2. SameIn(g, m)
        BY <2>3, <3>1, OthersSame
      <3>. QED
        BY <2>1, <3>2 DEF FitAt, SameIn
    <2>. QED
      BY <2>2, <2>3
  <1>6. Mirror'
    BY <1>5 DEF Mirror, Fit
  <1>. QED
    BY <1>2, <1>3, <1>6

LEMMA WriteCached ==
  ASSUME Invariant, Cached, NEW u \in User, Write(u)
  PROVE  Cached'
  <1>. DEFINE b == call[u]
  <1>u. u \in Thread /\ CallOK(b) /\ b.node \in Movable /\ b.to \in Folder
    BY NodeFacts, CallFacts DEF Write, At, CallOK, CallFields, Movable
  <1>n. PICK n \in Movable, f \in Folder : n = b.node /\ f = b.to
    BY <1>u
  <1>0. /\ b.op = "create" /\ b.step = "write" /\ up' = [up EXCEPT ![n] = f]
        /\ made' = made \cup {n} /\ UNCHANGED <<archives, trees, crossed, brought>>
    BY <1>n DEF Write, At
  <1>1. PICK c : Becomes(u, c) /\ AtStep(c, b, "list")
    BY <1>u, StepBecomes DEF Write
  <1>2. c.op = "create" /\ c.step = "list" /\ c.node = n /\ c.to = f
    BY <1>n, <1>0, <1>1 DEF AtStep
  <1>3. n \notin made /\ n \notin Live
    BY <1>u, <1>n, <1>0 DEF Cached, Fresh
  <1>4. Unlisted(n, f)'
    BY <1>u, <1>1, <1>2 DEF Unlisted, ToList, Becomes
  <1>5. Mirror' /\ Moved' /\ Live' = Live \cup {n}
    <2>1. ~Moves(c) /\ ~Moves(b) /\ \A m, g : ~ToList(b, m, g)
      BY <1>0, <1>2 DEF Moves, ToList
    <2>. QED
      BY <1>u, <1>0, <1>1, <1>3, <1>4, <2>1, ArrivesCached DEF Cached
  <1>6. Fresh'
    <2>1. Live' \subseteq made' /\ \A a \in archives' : a.node \in made'
      BY <1>0, <1>5 DEF Cached, Fresh
    <2>2. \A m \in made' : m \in made \/ (b.op = "create" /\ b.node = m)
      BY <1>n, <1>0
    <2>3. \A o \in Thread \ {u} : call[o].op = "create" => call[o].node # c.node
      BY <1>u, <1>n, <1>0, <1>2 DEF Cached, Fresh
    <2>. QED
      BY <1>u, <1>1, <1>2, <2>1, <2>2, <2>3, KeepsFresh DEF Cached
  <1>. QED
    BY <1>5, <1>6 DEF Cached

LEMMA RestoreFolderCached ==
  ASSUME Invariant, Cached, NEW u \in User, RestoreFolder(u)
  PROVE  Cached'
  <1>u. u \in Thread /\ call[u] \in CallFields
    BY NodeFacts, CallFacts
  <1>1. PICK a \in Top(u).todo \cap archives :
          /\ At(u, "restore", "climb") /\ a.node \in Folder \ Live /\ Revive(u, a)
          /\ Goes(u, [Popped(u, a) EXCEPT !.stack = <<[of |-> a, todo |-> ChildArchives(a.node)]>> \o @])
          /\ UNCHANGED <<archives, trees, crossed, made>>
    BY DEF RestoreFolder
  <1>2. PICK c : c = [Popped(u, a) EXCEPT !.stack = <<[of |-> a, todo |-> ChildArchives(a.node)]>> \o @]
    OBVIOUS
  <1>3. c.op = "restore" /\ c.step = "climb"
    BY <1>u, <1>1, <1>2 DEF Popped, At, CallFields
  <1>4. Becomes(u, c)
    BY <1>u, <1>1, <1>2, GoesBecomes
  <1>5. a.node \in Movable /\ a.up \in Folder
    BY DEF Invariant, Typed, StoresTyped, Archived
  <1>6. Mirror' /\ Moved' /\ Live' = Live \cup {a.node}
    <2>1. ~Moves(c) /\ ~Moves(call[u]) /\ \A m, g : ~ToList(call[u], m, g)
      BY <1>1, <1>3 DEF Moves, ToList, At
    <2>2. brought \subseteq brought' /\ up' = [up EXCEPT ![a.node] = a.up] /\ Unlisted(a.node, a.up)'
      BY <1>1 DEF Revive, Unlisted
    <2>. QED
      BY <1>u, <1>1, <1>4, <1>5, <2>1, <2>2, ArrivesCached DEF Cached
  <1>7. Fresh'
    <2>1. Live' \subseteq made' /\ \A d \in archives' : d.node \in made'
      BY <1>1, <1>6 DEF Cached, Fresh
    <2>. QED
      BY <1>u, <1>1, <1>3, <1>4, <2>1, KeepsFresh DEF Cached
  <1>. QED
    BY <1>6, <1>7 DEF Cached

LEMMA RestoreDocumentCached ==
  ASSUME Invariant, Cached, NEW u \in User, RestoreDocument(u)
  PROVE  Cached'
  <1>u. u \in Thread /\ call[u] \in CallFields
    BY NodeFacts, CallFacts
  <1>1. PICK a \in Top(u).todo \cap archives :
          /\ At(u, "restore", "climb") /\ a.node \in Document
          /\ IF a.node \in Live
             THEN Goes(u, Popped(u, a)) /\ UNCHANGED <<up, brought, strays>>
             ELSE /\ Revive(u, a)
                  /\ Goes(u, [Popped(u, a) EXCEPT !.step = "list", !.node = a.node, !.to = a.up, !.of = a])
          /\ UNCHANGED <<archives, trees, crossed, made>>
    BY DEF RestoreDocument
  <1>2. PICK p : p = Popped(u, a)
    OBVIOUS
  <1>3. p.op = "restore" /\ p.step = "climb" /\ DOMAIN p = DOMAIN call[u]
    BY <1>u, <1>1, <1>2 DEF Popped, At, CallFields
  <1>4. CASE a.node \in Live
    <2>1. Becomes(u, p) /\ SameNodes
      BY <1>u, <1>1, <1>2, <1>4, GoesBecomes DEF SameNodes
    <2>2. SameCourse(p, call[u])
      BY <1>1, <1>3, IdleCourse DEF Idle, At
    <2>. QED
      BY <1>u, <1>1, <2>1, <2>2, SteadyKeeps
  <1>5. CASE a.node \notin Live
    <2>1. PICK c : c = [p EXCEPT !.step = "list", !.node = a.node, !.to = a.up, !.of = a]
      OBVIOUS
    <2>2. c.op = "restore" /\ c.step = "list" /\ c.node = a.node /\ c.to = a.up
      BY <1>u, <1>3, <2>1 DEF CallFields
    <2>3. Becomes(u, c) /\ Revive(u, a)
      BY <1>u, <1>1, <1>2, <1>5, <2>1, GoesBecomes
    <2>4. a.node \in Movable /\ a.up \in Folder
      BY DEF Invariant, Typed, StoresTyped, Archived
    <2>5. Mirror' /\ Moved' /\ Live' = Live \cup {a.node}
      <3>1. ~Moves(c) /\ ~Moves(call[u]) /\ \A m, g : ~ToList(call[u], m, g)
        BY <1>1, <2>2 DEF Moves, ToList, At
      <3>2. brought \subseteq brought' /\ up' = [up EXCEPT ![a.node] = a.up]
        BY <2>3 DEF Revive
      <3>3. Unlisted(a.node, a.up)'
        BY <1>u, <2>2, <2>3 DEF Unlisted, ToList, Becomes
      <3>. QED
        BY <1>u, <1>1, <1>5, <2>3, <2>4, <3>1, <3>2, <3>3, ArrivesCached DEF Cached
    <2>6. Fresh'
      <3>1. Live' \subseteq made' /\ \A d \in archives' : d.node \in made'
        BY <1>1, <2>5 DEF Cached, Fresh
      <3>. QED
        BY <1>u, <1>1, <2>2, <2>3, <3>1, KeepsFresh DEF Cached
    <2>. QED
      BY <2>5, <2>6 DEF Cached
  <1>. QED
    BY <1>4, <1>5


\* A cached tree comes to list the node, or lists it late.
LEMMA ListsCached ==
  ASSUME Invariant, Cached, NEW u \in User, NEW c, Becomes(u, c), Idle(c),
         NEW n \in Movable, NEW f \in Folder, n = call[u].node, f = call[u].to,
         call[u].op \in {"create", "restore"}, TreeOf(u) = f, Holds(u), ListsLate(u), SameNodes,
         NEW tree, Keeps(u, tree), Held(u) \subseteq tree, tree \subseteq Held(u) \cup {n},
         n \in Live => n \in tree
  PROVE  Cached'
  <1>u. u \in Thread
    BY NodeFacts
  <1>1. ~Moves(c) /\ ~Moves(call[u]) /\ c.op # "create"
    BY DEF Moves, Idle
  <1>2. Moved'
    BY <1>u, <1>1, KeepsMoved DEF Cached, SameNodes
  <1>3. Fresh'
    <2>1. Live' \subseteq made' /\ \A a \in archives' : a.node \in made'
      BY DEF Cached, Fresh, SameNodes, Live
    <2>. QED
      BY <1>u, <1>1, <2>1, KeepsFresh DEF Cached, SameNodes
  <1>4. \A g \in Folder : trees'[g] = IF g = f THEN tree ELSE trees[g]
    BY DEF Keeps, Invariant, Typed, StoresTyped
  <1>5. ASSUME NEW g \in Folder, NEW m \in Movable PROVE Belongs(m, g)' <=> Belongs(m, g)
    <2>1. \A o \in Thread : /\ Puts(call'[o], m) <=> Puts(call[o], m)
                            /\ Puts(call[o], m) => call'[o] = call[o]
      BY <1>1 DEF Becomes, Puts, Moves
    <2>. QED
      BY <2>1 DEF Belongs, SameNodes
  <1>6. ASSUME NEW g \in Folder, NEW m \in Movable, m # n \/ g # f PROVE SameIn(g, m)
    <2>1. \A o \in Thread : ToList(call[o], m, g) => ToList(call'[o], m, g)
      BY <1>u, <1>6 DEF Becomes, ToList
    <2>2. Unlisted(m, g) => Unlisted(m, g)'
      BY <2>1 DEF Unlisted, SameNodes
    <2>. QED
      BY <1>5, <2>2 DEF SameIn
  <1>7. ASSUME f \notin crossed' PROVE Fit(f, Held(u)) /\ n \in tree /\ Belongs(n, f)
    <2>1. up[n] = f /\ ~Moving(f) /\ Crosses(u)
      BY <1>7 DEF ListsLate
    <2>2. n \in Live
      BY <2>1, NodeFacts DEF Live, Movable
    <2>3. \A o \in Thread : ~Puts(call[o], n)
      BY <2>1, OnlyCallersMove DEF Puts, Moving, At
    <2>4. Belongs(n, f)
      BY <2>1, <2>3 DEF Belongs
    <2>5. Fit(f, Held(u))
      BY <1>u, <1>7, <2>1, HeldFits DEF Cached
    <2>. QED
      BY <2>2, <2>4, <2>5
  <1>8. ASSUME NEW g \in Folder, g \notin crossed', trees'[g] # Uncached, NEW m \in Movable
        PROVE  FitAt(m, g, trees[g])'
    <2>1. CASE g = f
      <3>1. FitAt(m, f, Held(u))
        BY <1>7, <1>8, <2>1 DEF Fit
      <3>2. CASE m = n
        BY <1>4, <1>5, <1>7, <1>8, <2>1, <3>2 DEF FitAt
      <3>3. CASE m # n
        <4>1. m \in tree <=> m \in Held(u)
          BY <3>3
        <4>. QED
          BY <1>4, <1>6, <2>1, <3>1, <3>3, <4>1 DEF FitAt, SameIn
      <3>. QED
        BY <3>2, <3>3
    <2>2. CASE g # f
      <3>1. g \notin crossed
        BY <1>8, <2>2 DEF ListsLate, Crosses
      <3>2. FitAt(m, g, trees[g]) /\ trees'[g] = trees[g]
        BY <1>4, <1>8, <2>2, <3>1 DEF Cached, Mirror, Fit
      <3>. QED
        BY <1>6, <2>2, <3>2 DEF FitAt, SameIn
    <2>. QED
      BY <2>1, <2>2
  <1>9. Mirror'
    BY <1>8 DEF Mirror, Fit
  <1>. QED
    BY <1>2, <1>3, <1>9 DEF Cached

LEMMA ListCached ==
  ASSUME Invariant, Cached, NEW u \in User, List(u)
  PROVE  Cached'
  <1>u. u \in Thread /\ CallOK(call[u]) /\ call[u].node \in Movable /\ call[u].to \in Folder
    BY NodeFacts, CallFacts DEF List, At, CallOK, CallFields, Movable
  <1>n. PICK n \in Movable, f \in Folder : n = call[u].node /\ f = call[u].to
    BY <1>u
  <1>1. call[u].op = "create" /\ TreeOf(u) = f /\ SameNodes /\ Becomes(u, Rest)
    BY <1>u, <1>n, GoesBecomes DEF List, At, TreeOf, SameNodes, history, Ends
  <1>2. PICK tree : tree = Held(u) \cup ({n} \ (Document \ Live))
    OBVIOUS
  <1>3. Keeps(u, tree) /\ Holds(u) /\ ListsLate(u)
    BY <1>n, <1>2 DEF List
  <1>4. Held(u) \subseteq tree /\ tree \subseteq Held(u) \cup {n} /\ (n \in Live => n \in tree)
    BY <1>2
  <1>. QED
    BY <1>n, <1>1, <1>3, <1>4, RestIdle, ListsCached

LEMMA ListRestoredCached ==
  ASSUME Invariant, Cached, NEW u \in User, ListRestored(u)
  PROVE  Cached'
  <1>u. u \in Thread /\ CallOK(call[u]) /\ call[u].node \in Movable /\ call[u].to \in Folder
    BY NodeFacts, CallFacts DEF ListRestored, At, CallOK, CallFields, Movable
  <1>n. PICK n \in Movable, f \in Folder : n = call[u].node /\ f = call[u].to
    BY <1>u
  <1>1. call[u].op = "restore" /\ call[u].step = "list" /\ TreeOf(u) = f /\ SameNodes /\ Holds(u)
    BY <1>n DEF ListRestored, At, TreeOf, SameNodes, history
  <1>2. CASE n \in Live
    <2>1. Keeps(u, Held(u) \cup {n}) /\ ListsLate(u) /\ GoesTo(u, "climb")
      BY <1>n, <1>2 DEF ListRestored
    <2>2. PICK c : Becomes(u, c) /\ AtStep(c, call[u], "climb")
      BY <1>u, <2>1, StepBecomes
    <2>3. Idle(c)
      BY <1>1, <2>2 DEF AtStep, Idle
    <2>4. PICK tree : tree = Held(u) \cup {n}
      OBVIOUS
    <2>. QED
      BY <1>n, <1>1, <2>1, <2>2, <2>3, <2>4, ListsCached
  <1>3. CASE n \notin Live
    <2>1. Becomes(u, Rest) /\ UNCHANGED <<trees, crossed>>
      BY <1>u, <1>n, <1>3, GoesBecomes DEF ListRestored, Ends
    <2>r. Rest.op = "none"
      BY DEF Rest
    <2>2. Moved'
      BY <1>u, <1>1, <2>1, <2>r, KeepsMoved DEF Cached, SameNodes, Moves
    <2>3. Fresh'
      <3>1. Live' \subseteq made' /\ \A a \in archives' : a.node \in made'
        BY <1>1 DEF Cached, Fresh, SameNodes, Live
      <3>. QED
        BY <1>u, <1>1, <2>1, <2>r, <3>1, KeepsFresh DEF Cached, SameNodes
    <2>4. ASSUME NEW g \in Folder, NEW m \in Movable
          PROVE  (Belongs(m, g)' <=> Belongs(m, g)) /\ (m # n => (Unlisted(m, g) => Unlisted(m, g)'))
      <3>1. \A o \in Thread : /\ Puts(call'[o], m) <=> Puts(call[o], m)
                              /\ Puts(call[o], m) => call'[o] = call[o]
                              /\ m # n /\ ToList(call[o], m, g) => ToList(call'[o], m, g)
        BY <1>n, <1>1, <2>1, <2>r DEF Becomes, Puts, ToList
      <3>. QED
        BY <1>1, <3>1 DEF Belongs, Unlisted, SameNodes
    <2>5. ASSUME NEW g \in Folder PROVE ~Belongs(n, g)
      <3>1. \A o \in Thread : ~Puts(call[o], n)
        BY <1>3 DEF Cached, Moved, Moves, Puts
      <3>2. up[n] = Absent
        BY <1>3 DEF Live, Movable
      <3>. QED
        BY <3>1, <3>2, NodeFacts DEF Belongs
    <2>6. ASSUME NEW g \in Folder, g \notin crossed', trees'[g] # Uncached, NEW m \in Movable
          PROVE  FitAt(m, g, trees[g])'
      <3>1. FitAt(m, g, trees[g]) /\ trees'[g] = trees[g]
        BY <2>1, <2>6 DEF Cached, Mirror, Fit
      <3>. QED
        BY <2>4, <2>5, <3>1 DEF FitAt
    <2>7. Mirror'
      BY <2>6 DEF Mirror, Fit
    <2>. QED
      BY <2>2, <2>3, <2>7 DEF Cached
  <1>. QED
    BY <1>2, <1>3

LEMMA RemoveCached ==
  ASSUME Invariant, Cached, NEW t \in Thread, Remove(t)
  PROVE  Cached'
  <1>u. CallOK(call[t]) /\ call[t].node \in Movable
    BY CallFacts DEF Remove, Deleting, At, CallOK, CallFields, Movable
  <1>n. PICK n \in Movable : n = call[t].node
    BY <1>u
  <1>s. PICK s : s = up[n]
    OBVIOUS
  <1>0. /\ call[t].op = "delete" /\ call[t].step = "remove" /\ TreeOf(t) = s /\ Becomes(t, Rest)
        /\ up' = [up EXCEPT ![n] = Absent] /\ UNCHANGED <<archives, made, brought>>
        /\ Holds(t) /\ Crosses(t) /\ Keeps(t, Held(t) \ {n})
    BY <1>n, <1>s, GoesBecomes DEF Remove, Deleting, At, TreeOf, Finishes, Ends, history
  <1>r. Rest.op = "none"
    BY DEF Rest
  <1>1. s \in Folder
    BY <1>0 DEF Holds
  <1>2. \A m \in Node : up'[m] = IF m = n THEN Absent ELSE up[m]
    BY <1>0 DEF Invariant, Typed, StoresTyped
  <1>3. Live' \subseteq Live
    BY <1>2 DEF Live
  <1>4. \A o \in Thread \ {t} : ~Puts(call[o], n) /\ (Moves(call[o]) => call[o].node # n)
    BY <1>n, <1>0, Alone DEF IsWriting
  <1>5. Moved'
    <2>1. ASSUME NEW o \in Thread, o # t, Moves(call[o]) PROVE up'[call[o].node] = up[call[o].node]
      <3>1. call[o].node # n /\ call[o].node \in Node
        BY <1>4, <2>1, CallFacts DEF CallFields
      <3>. QED
        BY <1>2, <3>1
    <2>. QED
      BY <1>0, <1>r, <2>1, KeepsMoved DEF Cached, Moves
  <1>6. Fresh'
    <2>1. Live' \subseteq made' /\ \A a \in archives' : a.node \in made'
      BY <1>0, <1>3 DEF Cached, Fresh
    <2>. QED
      BY <1>0, <1>r, <2>1, KeepsFresh DEF Cached
  <1>7. ASSUME NEW g \in Folder PROVE (Belongs(n, g) <=> g = s) /\ ~Belongs(n, g)'
    <2>1. \A o \in Thread : ~Puts(call[o], n) /\ ~Puts(call'[o], n)
      BY <1>0, <1>r, <1>4 DEF Puts, Becomes
    <2>2. up'[n] = Absent
      BY <1>2 DEF Movable
    <2>. QED
      BY <1>s, <2>1, <2>2, NodeFacts DEF Belongs
  <1>8. ASSUME NEW g \in Folder, NEW m \in Movable, m # n PROVE SameIn(g, m)
    <2>1. up'[m] = up[m]
      BY <1>2, <1>8 DEF Movable
    <2>2. ~Moves(Rest) /\ ~Moves(call[t]) /\ ~ToList(call[t], m, g)
      BY <1>0, <1>r DEF Moves, ToList
    <2>3. brought' = brought /\ Becomes(t, Rest)
      BY <1>0
    <2>. QED
      BY <1>8, <2>1, <2>2, <2>3, OthersSame
  <1>9. \A g \in Folder : trees'[g] = IF g = s THEN Held(t) \ {n} ELSE trees[g]
    BY <1>0, <1>1 DEF Keeps, Invariant, Typed, StoresTyped
  <1>10. ASSUME NEW g \in Folder, g \notin crossed', trees'[g] # Uncached, NEW m \in Movable
         PROVE  FitAt(m, g, trees[g])'
    <2>1. PICK tree : FitAt(m, g, tree) /\ trees'[g] = (IF g = s THEN tree \ {n} ELSE tree)
      <3>1. CASE g = s
        <4>1. Fit(s, Held(t))
          BY <1>0, <1>10, <3>1, HeldFits DEF Cached
        <4>. QED
          BY <1>9, <3>1, <4>1 DEF Fit
      <3>2. CASE g # s
        <4>1. g \notin crossed /\ trees'[g] = trees[g]
          BY <1>0, <1>9, <1>10, <3>2 DEF Crosses
        <4>2. FitAt(m, g, trees[g])
          BY <1>10, <4>1 DEF Cached, Mirror, Fit
        <4>. QED
          BY <3>2, <4>1, <4>2
      <3>. QED
        BY <3>1, <3>2
    <2>2. CASE m = n
      BY <1>7, <2>1, <2>2 DEF FitAt
    <2>3. CASE m # n
      BY <1>8, <2>1, <2>3 DEF FitAt, SameIn
    <2>. QED
      BY <2>2, <2>3
  <1>11. Mirror'
    BY <1>10 DEF Mirror, Fit
  <1>. QED
    BY <1>5, <1>6, <1>11 DEF Cached

LEMMA InitCached == Init => Cached
  <1>. SUFFICES ASSUME Init PROVE Cached
    OBVIOUS
  <1>1. \A t \in Thread : call[t].op = "none"
    BY DEF Init, Rest
  <1>2. \A f \in Folder : trees[f] = Uncached
    BY DEF Init
  <1>. QED
    BY <1>1, <1>2 DEF Init, Cached, Mirror, Moved, Moves, Fresh

LEMMA NextCached == Invariant /\ Cached /\ [Next]_vars => Cached'
  <1>. SUFFICES ASSUME Invariant, Cached, [Next]_vars PROVE Cached'
    OBVIOUS
  <1>1. ASSUME NEW u \in User, Step(u) PROVE Cached'
    BY <1>1, WriteCached, ListCached, LookCached, LockCached, TreeCached, PutCached, EnterCached,
       IdleSteps, ListRestoredCached, RestoreFolderCached, RestoreDocumentCached DEF Step
  <1>2. ASSUME NEW t \in Thread, Delete(t) PROVE Cached'
    BY <1>2, DeletingCached, RemoveCached DEF Delete
  <1>3. CASE UNCHANGED vars
    <2>1. UNCHANGED <<up, archives, trees, call, made, brought, crossed>>
      BY <1>3 DEF vars, history
    <2>2. Mirror'
      BY <2>1 DEF Cached, Mirror, Fit, FitAt, Belongs, Unlisted
    <2>3. Moved' /\ Fresh'
      BY <2>1 DEF Cached, Moved, Fresh, Live
    <2>. QED
      BY <2>2, <2>3 DEF Cached
  <1>. QED
    BY <1>1, <1>2, <1>3, SendAnyCached, MissCached, TakeCached, ExpireCached DEF Next

\* Between calls, a cached tree (addToTreeCache, moveTreeCache) lists the children
\* its folder has and no other node that exists, unless it was read across a
\* change; only a folder that a restore brought back may be missing, as
\* restoreFolder leaves the parent's cached tree as it is.
THEOREM CachedTreesListChildren == Spec => []ListsChildren
  <1>1. Invariant /\ Cached => ListsChildren
    <2>. SUFFICES ASSUME Invariant, Cached, Quiet, tasks = {}, NEW f \in Folder \ crossed,
                         trees[f] # Uncached
                  PROVE  /\ trees[f] \cap Live \subseteq Children(f)
                         /\ Children(f) \ trees[f] \subseteq brought \cap Folder
      BY DEF ListsChildren
    <2>1. \A n \in Movable : FitAt(n, f, trees[f])
      BY DEF Cached, Mirror, Fit
    <2>2. \A n, t : t \in Thread => ~Puts(call[t], n) /\ ~ToList(call[t], n, f)
      BY DEF Quiet, Puts, ToList
    <2>3. \A n \in Movable : /\ Belongs(n, f) <=> n \in Children(f)
                             /\ Unlisted(n, f) <=> n \in brought \cap Folder
      BY <2>2 DEF Belongs, Unlisted, Children, Movable
    <2>4. trees[f] \subseteq Movable /\ Children(f) \subseteq Movable
      BY DEF Invariant, Typed, StoresTyped, Children, Movable
    <2>. QED
      BY <2>1, <2>3, <2>4 DEF FitAt
  <1>. QED
    BY <1>1, InitKeeps, NextKeeps, InitCached, NextCached, PTL DEF Spec

=============================================================================
