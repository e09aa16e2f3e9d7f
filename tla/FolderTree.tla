------------------------------ MODULE FolderTree ------------------------------
(***************************************************************************)
(* The folder tree: the folders, documents and items of a repository under *)
(* their parents, the cached trees that list the children of a folder, and *)
(* the archive records of what was deleted.  Callers create, move, delete  *)
(* and list nodes, delete a folder with all it holds, restore and destroy  *)
(* archives; the tasks of deleteTree run on the threads of its pools.      *)
(*                                                                         *)
(* One action is what a thread does between two points where another can   *)
(* come in: a lock, a database call, a use of a cached tree.               *)
(*                                                                         *)
(* Abstractions: a document has one version (VersionThreads has the        *)
(* others) and no attachment; a node keeps its name; an item is not moved  *)
(* (the code changes the cached object and stores nothing), nor is the     *)
(* root; permissions and types, change events and the cache of contents    *)
(* are left out; nodes do not share a lock stripe.                         *)
(***************************************************************************)
EXTENDS Integers, Sequences

CONSTANTS
  Folder, Document, Item,   \* ids, used once each
  Root,       \* the root folder
  NameOf,     \* the name of each node
  User,       \* callers: one call at a time
  Worker,     \* threads of the pools of deleteTree
  Absent,     \* the parent of a node that does not exist
  Uncached,   \* no cached tree
  Faulty,     \* whether a deletion may fail half-way, once
  Start,      \* the trees a run starts from
  Budget      \* bound on the number of calls and of expiries

Node == Folder \cup Document \cup Item
Thread == User \cup Worker

\* A tree of some of the nodes, without two children of one name.
Rooted(p) ==
  LET live == {n \in Node : p[n] # Absent} IN
  /\ p[Root] = Root /\ \A n \in live : p[n] \in live
  /\ \A s \in SUBSET (live \ {Root}) : s # {} => \E n \in s : p[n] \notin s
Namesakes(p) == {s \in (Node \ {Root}) \X (Node \ {Root}) :
  s[1] # s[2] /\ p[s[1]] = p[s[2]] /\ p[s[1]] # Absent /\ NameOf[s[1]] = NameOf[s[2]]}

ASSUME FolderTreeAssumptions ==
  /\ Root \in Folder /\ Absent \notin Node \cup Thread
  /\ Folder \cap Document = {} /\ Folder \cap Item = {} /\ Document \cap Item = {}
  /\ User \cap Worker = {}
  /\ Start \subseteq {p \in [Node -> Folder \cup {Absent}] : Rooted(p) /\ Namesakes(p) = {}}
  /\ Faulty \in BOOLEAN /\ Budget \in Nat

VARIABLES
  up,        \* the repository: the parent of each node, the root's is itself
  archives,  \* the archive: what was deleted
  filed,     \* the archive records each node has had: an id is not used again
  trees,     \* the tree cache: the children a folder is said to have
  call,      \* what each thread is doing
  tasks,     \* the DeleteTasks submitted and not ended
  budget,    \* calls left
  made,      \* history: the nodes created so far
  destroyed, \* history: the nodes whose archive was destroyed
  strays,    \* history: nodes put under a folder that was being removed, or gone
  failed,    \* history: nodes whose deletion failed half-way
  brought,   \* history: nodes brought back by a restore
  raced,     \* history: nodes whose name was checked while another call was
             \* putting one of that name in that folder
  crossed    \* history: folders whose cached tree was read across a change

history == <<made, destroyed, strays, failed, brought, raced>>
vars == <<up, archives, filed, trees, call, tasks, budget, crossed, history>>

-----------------------------------------------------------------------------
(***************************************************************************)
(* The tree and calls in progress                                          *)
(***************************************************************************)

Live == {n \in Node : up[n] # Absent}
Children(f) == {n \in Node \ {Root} : up[n] = f}

\* No call.
Rest == [op |-> "none", step |-> "end", node |-> Root, to |-> Root, read |-> Uncached,
         with |-> FALSE, by |-> Root, of |-> Absent, stack |-> <<>>]

Busy(t) == call[t].op # "none"
At(t, op, step) == call[t].op = op /\ call[t].step = step
Goes(t, c) == call' = [call EXCEPT ![t] = c]
GoesTo(t, step) == Goes(t, [call[t] EXCEPT !.step = step, !.read = Uncached])
Ends(t) == Goes(t, Rest)

\* getWriteLock: the move and the deletion of a node; getReadLock: its listing.
Writes(t) == call[t].op \in {"move", "delete"} /\ call[t].step # "lock"
MayWrite(t, n) ==
  \A o \in Thread \ {t} : call[o].node = n => ~Writes(o) /\ ~At(o, "look", "list")
MayRead(t, n) == \A o \in Thread \ {t} : call[o].node = n => ~Writes(o)

-----------------------------------------------------------------------------
(***************************************************************************)
(* The tree cache                                                          *)
(***************************************************************************)

\* The folder whose cached tree the next step of a call uses.
TreeOf(t) ==
  CASE call[t].step \in {"list", "tree", "enter"} -> call[t].to
    [] call[t].step = "check" -> call[t].node
    [] call[t].step = "remove" -> up[call[t].node]
    [] OTHER -> Absent

\* getOrCreateTreeCache: the cached tree, or else what was read from the database.
Held(t) == IF call[t].read # Uncached THEN call[t].read ELSE trees[TreeOf(t)]
Holds(t) == TreeOf(t) \in Folder /\ Held(t) # Uncached

\* getOrCreateTreeCache on a miss: reads the children.
Miss(t) ==
  /\ TreeOf(t) \in Folder /\ Held(t) = Uncached
  /\ Goes(t, [call[t] EXCEPT !.read = Children(TreeOf(t))])
  /\ UNCHANGED <<up, archives, filed, trees, tasks, budget, crossed, history>>

\* The cached tree is what t holds, changed to what it makes of it.
Keeps(t, tree) == trees' = [trees EXCEPT ![TreeOf(t)] = tree]

\* A move to or from f has changed the cached trees and not yet the node.
Moving(f) == \E t \in User : At(t, "move", "write") /\ f \in {call[t].to, up[call[t].node]}

\* What t holds was read before a change, or between the two halves of a move.
Late(t) ==
  call[t].read # Uncached /\ (call[t].read # Children(TreeOf(t)) \/ Moving(TreeOf(t)))
Crosses(t) == crossed' =
  IF Late(t) THEN crossed \cup {TreeOf(t)}
  ELSE IF call[t].read # Uncached THEN crossed \ {TreeOf(t)} ELSE crossed

\* A cached tree expires, or is evicted.
Expire(f) ==
  /\ trees[f] # Uncached /\ budget > 0 /\ budget' = budget - 1
  /\ trees' = [trees EXCEPT ![f] = Uncached] /\ crossed' = crossed \ {f}
  /\ UNCHANGED <<up, archives, filed, call, tasks, history>>

-----------------------------------------------------------------------------
(***************************************************************************)
(* Calls                                                                   *)
(***************************************************************************)

\* What a caller may ask for.  The checks of a create are made here, those of
\* a move or a deletion under its lock, those of a restore at each archive.
Send(u, c) ==
  /\ ~Busy(u) /\ budget > 0 /\ budget' = budget - 1
  /\ Goes(u, c)
  /\ UNCHANGED <<up, archives, filed, trees, tasks, crossed, made, destroyed, strays, failed,
                 brought>>

\* The mistake NamesDistinct would catch: only documents are compared.
NameOfDocument(f, n) == n \notin Item /\ \E m \in Children(f) \cap Document : NameOf[m] = NameOf[n]
\* nameConstraintViolation: a child of that name; createItem does not ask.
NameTaken(f, n) == n \notin Item /\ \E m \in Children(f) : NameOf[m] = NameOf[n]

\* Another call is putting a node of that name there.
Races(u, f, n) == raced' =
  IF \E o \in User \ {u} : /\ At(o, "create", "write") \/ At(o, "move", "tree") \/ At(o, "move", "write")
                           /\ call[o].to = f /\ NameOf[call[o].node] = NameOf[n]
  THEN raced \cup {n} ELSE raced

\* f is gone, or is going whatever comes into it: its deletion has found it
\* empty, or deleteTree has listed it.
Leaving(f) ==
  \/ f \notin Live
  \/ \E t \in Thread : call[t].op = "delete" /\ call[t].node = f /\ call[t].step \in {"archive", "remove"}
  \/ \E u \in User : call[u].op = "deleteTree" /\ \E i \in DOMAIN call[u].stack : call[u].stack[i].of = f
  \/ \E k \in tasks : k.node = f

SendCreate(u, n, f) ==
  /\ n \notin made /\ \A o \in User : call[o].op = "create" => call[o].node # n
  /\ f \in Live /\ ~NameTaken(f, n)
  /\ Send(u, [Rest EXCEPT !.op = "create", !.step = "write", !.node = n, !.to = f])
  /\ Races(u, f, n)

SendMove(u, n, f) ==
  /\ n \in Live \ (Item \cup {Root})
  /\ Send(u, [Rest EXCEPT !.op = "move", !.step = "lock", !.node = n, !.to = f])
  /\ UNCHANGED raced

SendDelete(u, n) ==
  /\ n \in Live \ {Root}
  /\ Send(u, [Rest EXCEPT !.op = "delete", !.step = "lock", !.node = n, !.by = n])
  /\ UNCHANGED raced

SendTree(u, f) ==
  /\ f \in Live \ {Root}
  /\ Send(u, [Rest EXCEPT !.op = "deleteTree", !.step = "enter", !.to = f, !.by = f])
  /\ UNCHANGED raced

SendLook(u, f) ==
  /\ f \in Live /\ MayRead(u, f)
  /\ Send(u, [Rest EXCEPT !.op = "look", !.step = "list", !.node = f, !.to = f])
  /\ UNCHANGED raced

SendRestore(u, a) ==
  /\ a.node \notin Item
  /\ Send(u, [Rest EXCEPT !.op = "restore", !.step = "climb",
                          !.stack = <<[of |-> Absent, todo |-> {a}]>>])
  /\ UNCHANGED raced

\* createDocument, createFolder, createItem: the node, then its parent's cached
\* tree; no lock is taken on the parent.
Write(u) ==
  LET n == call[u].node  f == call[u].to IN
  /\ At(u, "create", "write")
  /\ up' = [up EXCEPT ![n] = f] /\ made' = made \cup {n}
  /\ strays' = IF Leaving(f) THEN strays \cup {n} ELSE strays
  /\ GoesTo(u, "list")
  /\ UNCHANGED <<archives, filed, trees, tasks, budget, crossed, destroyed, failed, brought, raced>>

\* The node that is listed has moved on meanwhile.
ListsLate(u) ==
  IF up[call[u].node] # call[u].to \/ Moving(call[u].to)
  THEN crossed' = crossed \cup {call[u].to} ELSE Crosses(u)

\* addToTreeCache, after a create; a document is looked up among its versions.
List(u) ==
  LET n == call[u].node IN
  /\ At(u, "create", "list") /\ Holds(u)
  /\ Keeps(u, Held(u) \cup ({n} \ (Document \ Live)))
  /\ ListsLate(u) /\ Ends(u)
  /\ UNCHANGED <<up, archives, filed, tasks, budget, history>>

\* getChildren: what exists of the cached tree.
Look(u) ==
  /\ At(u, "look", "list") /\ Holds(u)
  /\ Keeps(u, Held(u)) /\ Crosses(u) /\ Ends(u)
  /\ UNCHANGED <<up, archives, filed, tasks, budget, history>>

\* moveObject: the lock, the target, the name.  Nothing keeps a folder from
\* being moved under itself.
Lock(u) ==
  LET n == call[u].node  f == call[u].to IN
  /\ At(u, "move", "lock") /\ MayWrite(u, n)
  /\ IF {n, f} \subseteq Live /\ ~NameTaken(f, n)
     THEN GoesTo(u, IF f = up[n] THEN "write" ELSE "tree") /\ Races(u, f, n)
     ELSE Ends(u) /\ UNCHANGED raced
  /\ UNCHANGED <<up, archives, filed, trees, tasks, budget, crossed, made, destroyed, strays, failed,
                 brought>>

\* The mistake ListsChildren would catch: the source keeps the node.
TreeKept(u) ==
  LET n == call[u].node IN
  /\ At(u, "move", "tree") /\ Holds(u)
  /\ Keeps(u, Held(u) \cup {n}) /\ Crosses(u) /\ GoesTo(u, "write")
  /\ UNCHANGED <<up, archives, filed, tasks, budget, history>>

\* moveTreeCache: out of the source's cached tree, into the target's.
Tree(u) ==
  LET n == call[u].node  f == call[u].to IN
  /\ At(u, "move", "tree") /\ Holds(u)
  /\ trees' = [trees EXCEPT ![f] = Held(u) \cup {n},
                            ![up[n]] = IF @ = Uncached THEN @ ELSE @ \ {n}]
  /\ Crosses(u) /\ GoesTo(u, "write")
  /\ UNCHANGED <<up, archives, filed, tasks, budget, history>>

\* The node's new parent.
Put(u) ==
  LET n == call[u].node  f == call[u].to IN
  /\ At(u, "move", "write")
  /\ up' = [up EXCEPT ![n] = f]
  /\ strays' = IF Leaving(f) THEN strays \cup {n} ELSE strays
  /\ Ends(u)
  /\ UNCHANGED <<archives, filed, trees, tasks, budget, crossed, made, destroyed, failed, brought,
                 raced>>

-----------------------------------------------------------------------------
(***************************************************************************)
(* deleteObjectInternal, by the caller of deleteObject or by a DeleteTask  *)
(***************************************************************************)

Deleting(t, step) == At(t, "delete", step)

\* The end of a deletion, of its task too.
Finishes(t) ==
  /\ Ends(t)
  /\ tasks' = {k \in tasks : k.thread # t}

\* The mistake TypeOK would catch: the lock is not taken.
LockNothing(t) ==
  /\ Deleting(t, "lock") /\ GoesTo(t, IF call[t].node \in Folder THEN "check" ELSE "archive")
  /\ UNCHANGED <<up, archives, filed, trees, tasks, budget, crossed, history>>

LockDeletion(t) ==
  LET n == call[t].node IN
  /\ Deleting(t, "lock") /\ MayWrite(t, n)
  /\ GoesTo(t, IF n \in Folder THEN "check" ELSE "archive")
  /\ UNCHANGED <<up, archives, filed, trees, tasks, budget, crossed, history>>

\* A folder that lists children is refused, unless deleteTree took care of them.
Refused(t) == ~call[t].with /\ Held(t) \cap Live # {}
Check(t) ==
  /\ Deleting(t, "check") /\ Holds(t)
  /\ Keeps(t, Held(t)) /\ Crosses(t)
  /\ IF Refused(t)
     THEN Ends(t) /\ UNCHANGED strays
     ELSE GoesTo(t, "archive") /\ strays' = strays \cup (IF call[t].with THEN {} ELSE Children(call[t].node) \ Held(t))
  /\ UNCHANGED <<up, archives, filed, tasks, budget, made, destroyed, failed, brought, raced>>

\* createArchive; a node that is gone is left alone.
NewArchive(t) ==
  LET n == call[t].node
  IN [node |-> n, up |-> up[n], with |-> call[t].with, by |-> call[t].by, no |-> filed[n] + 1]
\* The mistake NothingLost would catch: only what is deleted by itself is archived.
ArchiveAlone(t) ==
  /\ Deleting(t, "archive")
  /\ IF call[t].node \in Live
     THEN /\ archives' = archives \cup (IF call[t].with THEN {} ELSE {NewArchive(t)})
          /\ filed' = [filed EXCEPT ![call[t].node] = @ + 1]
          /\ GoesTo(t, "remove") /\ UNCHANGED tasks
     ELSE Finishes(t) /\ UNCHANGED <<archives, filed>>
  /\ UNCHANGED <<up, trees, budget, crossed, history>>

Archive(t) ==
  /\ Deleting(t, "archive")
  /\ IF call[t].node \in Live
     THEN /\ archives' = archives \cup {NewArchive(t)}
          /\ filed' = [filed EXCEPT ![call[t].node] = @ + 1]
          /\ GoesTo(t, "remove") /\ UNCHANGED tasks
     ELSE Finishes(t) /\ UNCHANGED <<archives, filed>>
  /\ UNCHANGED <<up, trees, budget, crossed, history>>

\* delete: the node, and its entry in the parent's cached tree.
Remove(t) ==
  LET n == call[t].node IN
  /\ Deleting(t, "remove") /\ Holds(t)
  /\ Keeps(t, Held(t) \ {n}) /\ Crosses(t)
  /\ up' = [up EXCEPT ![n] = Absent]
  /\ Finishes(t)
  /\ UNCHANGED <<archives, filed, budget, history>>

\* A database call of a deletion throws; the task of a deleteTree notes it.
Throws(t) ==
  /\ Faulty /\ failed = {} /\ (Deleting(t, "archive") \/ Deleting(t, "remove"))
  /\ call[t].node \in Live
  /\ failed' = {call[t].node} /\ Finishes(t)
  /\ UNCHANGED <<up, archives, filed, trees, budget, crossed, made, destroyed, strays, brought, raced>>

-----------------------------------------------------------------------------
(***************************************************************************)
(* deleteTree                                                              *)
(***************************************************************************)

Top(u) == Head(call[u].stack)
Submit(u, n, pool) ==
  tasks' = tasks \cup {[node |-> n, pool |-> pool, by |-> call[u].by, user |-> u, thread |-> Absent]}

\* A folder, and the children it lists; items are passed over.
Enter(u) ==
  LET f == call[u].to
      listed == Held(u) \cap Live
  IN
  /\ At(u, "deleteTree", "enter") /\ Holds(u)
  /\ Keeps(u, Held(u)) /\ Crosses(u)
  /\ Goes(u, [call[u] EXCEPT !.step = "walk", !.read = Uncached,
                             !.stack = <<[of |-> f, todo |-> listed \ Item]>> \o @])
  /\ strays' = strays \cup (Children(f) \ (listed \ Item))
  /\ UNCHANGED <<up, archives, filed, tasks, budget, made, destroyed, failed, brought, raced>>

\* The next child: a document is a task of the folder's pool, a folder is
\* entered.  A folder that is its own ancestor is never done with: the stack
\* overflows, and what is submitted goes on without the caller.
Walk(u) == \E n \in Top(u).todo :
  /\ At(u, "deleteTree", "walk")
  /\ LET rest == [call[u] EXCEPT !.stack[1].todo = @ \ {n}] IN
     \/ n \in Document /\ Goes(u, rest) /\ Submit(u, n, Top(u).of)
     \/ /\ n \in Folder
        /\ IF \E i \in DOMAIN call[u].stack : call[u].stack[i].of = n
           THEN Goes(u, [rest EXCEPT !.step = "wait", !.stack = <<>>])
           ELSE Goes(u, [rest EXCEPT !.step = "enter", !.to = n])
        /\ UNCHANGED tasks
  /\ UNCHANGED <<up, archives, filed, trees, budget, crossed, history>>

\* The mistake Parented would catch: the folder does not wait for what it held.
AwaitedNever(u) == u \in User

\* awaitTermination, then the folder itself, in the pool it was found in.
Awaited(u) == \A k \in tasks : k.user = u => k.pool # Top(u).of
Climb(u) ==
  /\ At(u, "deleteTree", "walk") /\ Top(u).todo = {} /\ Awaited(u)
  /\ LET rest == Tail(call[u].stack) IN
     /\ Submit(u, Top(u).of, IF rest = <<>> THEN Absent ELSE Head(rest).of)
     /\ Goes(u, [call[u] EXCEPT !.stack = rest, !.step = IF rest = <<>> THEN "wait" ELSE "walk"])
  /\ UNCHANGED <<up, archives, filed, trees, budget, crossed, history>>

\* The results of the tasks.
Await(u) ==
  /\ At(u, "deleteTree", "wait") /\ \A k \in tasks : k.user # u
  /\ Ends(u)
  /\ UNCHANGED <<up, archives, filed, trees, tasks, budget, crossed, history>>

\* A pool thread takes a task.
Take(w) == \E k \in tasks :
  /\ ~Busy(w) /\ k.thread = Absent
  /\ Goes(w, [Rest EXCEPT !.op = "delete", !.step = "lock", !.node = k.node, !.by = k.by,
                          !.with = TRUE])
  /\ tasks' = (tasks \ {k}) \cup {[k EXCEPT !.thread = w]}
  /\ UNCHANGED <<up, archives, filed, trees, budget, crossed, history>>

-----------------------------------------------------------------------------
(***************************************************************************)
(* Archives                                                                *)
(***************************************************************************)

\* What deleteTree deleted out of a folder.
ChildArchives(f) == {a \in archives : a.up = f /\ a.with /\ a.node \notin Item}

\* The call without the archive it goes on with.
Popped(u, a) == [call[u] EXCEPT !.stack[1].todo = @ \ {a}]

\* The node is back in the database.
Revive(u, a) ==
  /\ up' = [up EXCEPT ![a.node] = a.up]
  /\ brought' = brought \cup {a.node}
  /\ strays' = IF Leaving(a.up) THEN strays \cup {a.node} ELSE strays

\* restoreArchive: the archive is gone, or the parent; a folder that exists
\* conflicts.  The exception ends the restores this one is part of.
GivesUp(u) == \E a \in Top(u).todo :
  /\ At(u, "restore", "climb")
  /\ a \notin archives \/ a.up \notin Live \/ (a.node \in Folder /\ a.node \in Live)
  /\ Ends(u)
  /\ UNCHANGED <<up, archives, filed, trees, tasks, budget, crossed, history>>

\* restoreFolder: the node, then what was deleted with it.  The cached tree of
\* the parent is left as it is.
RestoreFolder(u) == \E a \in Top(u).todo \cap archives :
  /\ At(u, "restore", "climb") /\ a.node \in Folder \ Live /\ a.up \in Live
  /\ Revive(u, a)
  /\ Goes(u, [Popped(u, a) EXCEPT !.stack = <<[of |-> a, todo |-> ChildArchives(a.node)]>> \o @])
  /\ UNCHANGED <<archives, filed, trees, tasks, budget, crossed, made, destroyed, failed, raced>>

\* restoreDocument; one that exists conflicts, and is left with its archive.
RestoreDocument(u) == \E a \in Top(u).todo \cap archives :
  /\ At(u, "restore", "climb") /\ a.node \in Document /\ a.up \in Live
  /\ IF a.node \in Live
     THEN Goes(u, Popped(u, a)) /\ UNCHANGED <<up, brought, strays>>
     ELSE /\ Revive(u, a)
          /\ Goes(u, [Popped(u, a) EXCEPT !.step = "list", !.node = a.node, !.to = a.up, !.of = a])
  /\ UNCHANGED <<archives, filed, trees, tasks, budget, crossed, made, destroyed, failed, raced>>

\* addToTreeCache, then the archive is dropped; if the document is gone again
\* its change event cannot be written.
ListRestored(u) ==
  LET n == call[u].node IN
  /\ At(u, "restore", "list") /\ Holds(u)
  /\ archives' = archives \ {call[u].of}
  /\ IF n \in Live
     THEN Keeps(u, Held(u) \cup {n}) /\ ListsLate(u) /\ GoesTo(u, "climb")
     ELSE Ends(u) /\ UNCHANGED <<trees, crossed>>
  /\ UNCHANGED <<up, filed, tasks, budget, history>>

\* The end of a folder: its archive is dropped.
Close(u) ==
  /\ At(u, "restore", "climb") /\ Top(u).todo = {}
  /\ IF Top(u).of = Absent
     THEN Ends(u) /\ UNCHANGED archives
     ELSE /\ archives' = archives \ {Top(u).of}
          /\ IF Top(u).of.node \in Live
             THEN Goes(u, [call[u] EXCEPT !.stack = Tail(@)])
             ELSE Ends(u)
  /\ UNCHANGED <<up, filed, trees, tasks, budget, crossed, history>>

\* destroyFolder: the archive, and those of all that was deleted under it,
\* together with it or not.  One step stands for the whole call.
Beneath(a) ==
  LET closed == {s \in SUBSET archives : a \in s /\
        \A b \in archives : b.node \notin Item /\ (\E c \in s : c.node = b.up) => b \in s}
  IN {b \in archives : \A s \in closed : b \in s}
DestroyArchive(u, a) ==
  /\ ~Busy(u) /\ budget > 0 /\ budget' = budget - 1 /\ a.node \notin Item
  /\ archives' = archives \ Beneath(a)
  /\ destroyed' = destroyed \cup {b.node : b \in Beneath(a)}
  /\ UNCHANGED <<up, filed, trees, call, tasks, crossed, made, strays, failed, brought, raced>>

-----------------------------------------------------------------------------
Init ==
  /\ up \in Start
  /\ archives = {} /\ filed = [n \in Node |-> 0] /\ tasks = {} /\ budget = Budget
  /\ trees = [f \in Folder |-> Uncached]
  /\ call = [t \in Thread |-> Rest]
  /\ made = Live
  /\ destroyed = {} /\ strays = {} /\ failed = {} /\ brought = {} /\ raced = {} /\ crossed = {}

SendAny(u) ==
  \/ \E n \in Node \ {Root}, f \in Folder : SendCreate(u, n, f) \/ SendMove(u, n, f)
  \/ \E n \in Node : SendDelete(u, n)
  \/ \E f \in Folder : SendTree(u, f) \/ SendLook(u, f)
  \/ \E a \in archives : SendRestore(u, a) \/ DestroyArchive(u, a)

Step(u) ==
  \/ Write(u) \/ List(u) \/ Look(u) \/ Lock(u) \/ Tree(u) \/ Put(u)
  \/ Enter(u) \/ Climb(u) \/ Await(u) \/ ListRestored(u) \/ Close(u)
  \/ (call[u].stack # <<>> /\ (Walk(u) \/ GivesUp(u) \/ RestoreFolder(u) \/ RestoreDocument(u)))

Delete(t) == LockDeletion(t) \/ Check(t) \/ Archive(t) \/ Remove(t) \/ Throws(t)

Next ==
  \/ \E u \in User : SendAny(u) \/ Step(u)
  \/ \E t \in Thread : Miss(t) \/ Delete(t)
  \/ \E w \in Worker : Take(w)
  \/ \E f \in Folder : Expire(f)

Spec == Init /\ [][Next]_vars

-----------------------------------------------------------------------------
(***************************************************************************)
(* Properties                                                              *)
(***************************************************************************)

\* Each variable has its type.
TypeOK ==
  /\ up \in [Node -> Folder \cup {Absent}] /\ up[Root] = Root
  /\ \A a \in archives : a.node \in Node /\ a.up \in Folder /\ a.with \in BOOLEAN /\ a.by \in Node
  /\ trees \in [Folder -> {Uncached} \cup SUBSET Node]
  /\ \A t \in Thread :
       /\ call[t].node \in Node /\ call[t].to \in Folder
       /\ call[t].read \in {Uncached} \cup SUBSET Node
       /\ Writes(t) => MayWrite(t, call[t].node)
  /\ \A k \in tasks : k.node \in Folder \cup Document /\ k.thread \in Worker \cup {Absent}
  /\ made \cup destroyed \cup strays \cup failed \cup brought \cup raced \subseteq Node
  /\ crossed \subseteq Folder /\ budget \in 0 .. Budget

\* Every folder and document is in a folder that exists, at every moment of a
\* deleteTree or a restore too: a node loses its parent only if it came into a
\* folder that was being removed or did not list it, if deleteTree passes it
\* over, or if its own deletion failed.
Parented == \A n \in Live : up[n] \in Live \/ n \in strays \cup failed

\* What was created exists or is archived, until its archive is destroyed.
NothingLost == made \subseteq Live \cup {a.node : a \in archives} \cup destroyed

\* Between calls a cached tree lists the children of its folder, except folders
\* that a restore brought back, unless it was read across a change.
Quiet == \A t \in Thread : call[t].op \in {"none", "look"}
ListsChildren == Quiet /\ tasks = {} => \A f \in Folder \ crossed :
  trees[f] # Uncached =>
    /\ trees[f] \cap Live \subseteq Children(f)
    /\ Children(f) \ trees[f] \subseteq brought \cap Folder

\* Two children of a folder have the same name only if one is an item, was
\* restored, or was checked while the other was on its way.
NamesDistinct == \A p \in Namesakes(up) :
  \E i \in {1, 2} : p[i] \in Item \cup brought \cup raced

\* Contradicted: a restore brings back, with a folder, what was deleted with it.
RestoresWhatWentTogether == [][\A u \in User :
  At(u, "restore", "climb") /\ Top(u).of # Absent =>
    \A n \in Live' \ Live : \A a \in archives :
      a \in Top(u).todo /\ a.node = n => a.by = Top(u).of.by]_vars

=============================================================================
