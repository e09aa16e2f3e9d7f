------------------------------- MODULE AclCache -------------------------------
(***************************************************************************)
(* The access control of a folder tree: the local ACL of each node, what a *)
(* node inherits from its ancestors, the cache of the ACLs calculated from *)
(* them, and the tasks that clear this cache after an applyAcl, which find *)
(* the children of a folder in its cached tree.                            *)
(*                                                                         *)
(* One action is what a thread does between two points where another can   *)
(* come in.  A calculation reads one node of the chain at a time, and puts *)
(* its result in the cache in a step of its own.                           *)
(*                                                                         *)
(* Abstractions: one principal, since entries of different principals are  *)
(* merged independently, and what it may do is one value; the nodes that a *)
(* calculation reads are those of the content cache, taken to be right     *)
(* (ContentCache has what can go wrong there); a move, a deletion, a       *)
(* restore and a use of a cached tree are one step (FolderTree has theirs, *)
(* and the deleteTree and the restore that are made of them); a task that  *)
(* was submitted twice and not yet run counts once.                        *)
(***************************************************************************)
EXTENDS Integers

CONSTANTS
  Folder, Document,  \* the nodes
  Root,              \* the root folder
  Tree,              \* the parent of each node before any call, the root's is itself
  User,              \* callers: one call at a time
  Manager,           \* those whose permissions let them change nodes and ACLs
  Ace,               \* what a local ACL can grant the principal
  NoAce,             \* a local ACL that does not name it
  Unset,             \* a node that does not say whether it inherits
  TopInherits,       \* whether it then does in the root folder
  Uncached,          \* no cached ACL, no cached tree
  Budget             \* bound on the number of calls, of expiries and of failures

Node == Folder \cup Document

ASSUME AclCacheAssumptions ==
  /\ Root \in Folder /\ Folder \cap Document = {}
  /\ Tree \in [Node -> Folder] /\ Tree[Root] = Root
  /\ Uncached \notin Ace \cup {NoAce} /\ NoAce \notin Ace
  /\ Manager \subseteq User /\ Unset \notin BOOLEAN /\ TopInherits \in BOOLEAN
  /\ Budget \in Nat

VARIABLES
  up,       \* the parent of each node
  gone,     \* the nodes that are in the archive
  local,    \* the local ACL of each node
  inherits, \* whether it inherits that of its parent
  cached,   \* the ACL cache
  trees,    \* the tree cache: the children a folder is said to have
  call,     \* what each caller is doing
  tasks,    \* the tasks submitted and not run
  budget,   \* calls left
  late,     \* history: the cached ACL was out of date when it was put
  moved,    \* history: the node, or one above it, has been moved, deleted or
            \* restored since
  missed    \* history: a clearing that failed, or did not find the node or one
            \* above it in a cached tree, has left it out of date

nodes == <<up, gone, local, inherits>>
history == <<late, moved, missed>>
vars == <<nodes, cached, trees, call, tasks, budget, history>>

-----------------------------------------------------------------------------
(***************************************************************************)
(* The tree and its ACLs                                                   *)
(***************************************************************************)

Children(f) == {n \in Node \ ({Root} \cup gone) : up[n] = f}

\* getAclInheritedWithDefault.
Inherits(n) ==
  /\ n # Root
  /\ IF inherits[n] = Unset THEN TopInherits \/ up[n] # Root ELSE inherits[n]

\* Whose parent a calculation goes on to; one that is gone is passed over.
Inheriting == {n \in Node : Inherits(n) /\ up[n] \notin gone}

\* n, and the nodes one gets to from n by going up from those in S: a set that
\* has n and leaves one of them out has a step up that leads out of it.
Line(n, S) ==
  {m \in Node : \A L \in SUBSET (Node \ {m}) : n \in L => \E k \in L \cap S : up[k] \notin L}

\* calculateAcl: the local entry, or else the inherited one.  mergeAcl keeps
\* the entry of the node for a principal that both name.
Undecided == {n \in Inheriting : local[n] = NoAce}
Effective(n) == CHOOSE ace \in {local[m] : m \in Line(n, Undecided) \ Undecided} : TRUE

\* n and the nodes under it.
Beneath(n) == {m \in Node : n \in Line(m, Node)}

\* The cached ACL of a node is what it and its ancestors say now.
Right(n) == cached[n] \in {Uncached, Effective(n)}

-----------------------------------------------------------------------------
(***************************************************************************)
(* The cached trees                                                        *)
(***************************************************************************)

\* getChildren: the cached tree of a folder, or else what the database has,
\* which becomes the cached tree.
Listing(f) == IF f \in Folder /\ trees[f] # Uncached THEN trees[f] ELSE Children(f)
Lists(f) == trees' = [g \in Folder |-> IF g = f THEN Listing(f) ELSE trees[g]]

\* The children an applyAcl to f is for: those that inherit.
Heirs(f) == {c \in Children(f) : Inherits(c)}

\* A clearing does not get to the nodes of S, nor to what inherits from them.
Misses(S) ==
  missed' = missed \cup
    {n \in Node : ~Right(n) /\ \E c \in S : c \in Line(n, Inheriting)}

\* The cached ACLs from n downwards no longer fit the tree.
Cached(n) == {m \in Beneath(n) : cached[m] # Uncached}

-----------------------------------------------------------------------------
(***************************************************************************)
(* Calls in progress                                                       *)
(***************************************************************************)

\* No call.
Rest == [op |-> "none", node |-> Root, at |-> Root, ace |-> NoAce]
Busy(u) == call[u].op # "none"
Goes(u, c) == call' = [call EXCEPT ![u] = c]
Spends == budget > 0 /\ budget' = budget - 1
Starts(u) == ~Busy(u) /\ Spends

\* A move and a deletion lock the node for writing; an applyAcl to it holds its
\* lock for reading.
MayWrite(n) == \A u \in User : call[u].op = "clear" => call[u].node # n

-----------------------------------------------------------------------------
(***************************************************************************)
(* Calculations                                                            *)
(***************************************************************************)

\* calculateAcl, for getAcl or a permission check, when the cache has nothing;
\* a hit changes nothing.
Calculate(u, n) ==
  /\ Starts(u) /\ n \notin gone /\ cached[n] = Uncached
  /\ Goes(u, [op |-> "calculate", node |-> n, at |-> n, ace |-> NoAce])
  /\ UNCHANGED <<nodes, cached, trees, tasks, history>>

\* The mistake TypeOK would catch: takes the parent's cached ACL, there or not.
ReadParents(u) ==
  LET a == call[u].at IN
  /\ call[u].op = "calculate"
  /\ Goes(u, [call[u] EXCEPT !.op = "put",
                             !.ace = IF a \in Undecided THEN cached[up[a]] ELSE local[a]])
  /\ UNCHANGED <<nodes, cached, trees, tasks, budget, history>>

\* calculateAclInternal: one node of the chain.
Read(u) ==
  LET a == call[u].at IN
  /\ call[u].op = "calculate"
  /\ Goes(u, IF a \in Undecided
             THEN [call[u] EXCEPT !.at = up[a]]
             ELSE [call[u] EXCEPT !.op = "put", !.ace = local[a]])
  /\ UNCHANGED <<nodes, cached, trees, tasks, budget, history>>

\* aclCache.put.
Put(u) ==
  LET n == call[u].node IN
  /\ call[u].op = "put"
  /\ cached' = [cached EXCEPT ![n] = call[u].ace]
  /\ late' = IF call[u].ace = Effective(n) THEN late \ {n} ELSE late \cup {n}
  /\ moved' = moved \ {n} /\ missed' = missed \ {n}
  /\ Goes(u, Rest)
  /\ UNCHANGED <<nodes, trees, tasks, budget>>

\* A cached ACL, or a cached tree, expires or is evicted.
Drop(n) ==
  /\ cached' = [cached EXCEPT ![n] = Uncached]
  /\ late' = late \ {n} /\ moved' = moved \ {n} /\ missed' = missed \ {n}
Expire(n) ==
  /\ cached[n] # Uncached /\ Spends
  /\ Drop(n)
  /\ UNCHANGED <<nodes, trees, call, tasks>>
ExpireTree(f) ==
  /\ trees[f] # Uncached /\ Spends
  /\ trees' = [trees EXCEPT ![f] = Uncached]
  /\ UNCHANGED <<nodes, cached, call, tasks, history>>

-----------------------------------------------------------------------------
(***************************************************************************)
(* applyAcl                                                                *)
(***************************************************************************)

\* applyAcl: the node gets its ACL; its lock is a read lock, which keeps out
\* neither calculations nor another applyAcl.  The flag is stored if it differs
\* from what holds without it.
ApplyAcl(u, n, ace, inherited) ==
  /\ Starts(u) /\ n \notin gone
  /\ local' = [local EXCEPT ![n] = ace]
  /\ inherits' = [inherits EXCEPT ![n] = IF Inherits(n) = inherited THEN @ ELSE inherited]
  /\ Goes(u, [Rest EXCEPT !.op = "clear", !.node = n])
  /\ UNCHANGED <<up, gone, cached, trees, tasks, history>>

\* clearCachesRecursively: the node, and the children that it lists and that
\* inherit from it.
Task == [op : {"clear", "descend"}, node : Node]
\* The mistake Heals would catch: only the children are cleared.
SubmittedChildren(n) ==
  {[op |-> "clear", node |-> c] : c \in Heirs(n) \cap Listing(n)}
\* The mistake OutdatedIsDue would catch: the children are left out.
SubmittedAlone(n) == {[op |-> "clear", node |-> m] : m \in {n}}
Submitted(n) ==
  {[op |-> "clear", node |-> n]} \cup
  {[op |-> "descend", node |-> c] : c \in Heirs(n) \cap Listing(n)}

\* applyAcl submits the tasks, waits for none, and answers with getAcl.
Clear(u) ==
  LET n == call[u].node IN
  /\ call[u].op = "clear"
  /\ tasks' = tasks \cup Submitted(n)
  /\ Lists(n) /\ Misses(Heirs(n) \ Listing(n))
  /\ Goes(u, IF cached[n] = Uncached THEN [call[u] EXCEPT !.op = "calculate", !.at = n] ELSE Rest)
  /\ UNCHANGED <<nodes, cached, budget, late, moved>>

\* An exception after the node is written: nothing is cleared if it comes from
\* the change event, and the node alone if it comes from getChildren.
ClearFails(u) ==
  LET n == call[u].node IN
  /\ call[u].op = "clear" /\ Spends
  /\ \/ UNCHANGED tasks /\ Misses({n})
     \/ /\ n \in Folder
        /\ tasks' = tasks \cup {[op |-> "clear", node |-> n]} /\ Misses(Heirs(n))
  /\ Goes(u, Rest)
  /\ UNCHANGED <<nodes, cached, trees, late, moved>>

\* A ClearCacheTask.
RunClear(k) ==
  /\ k \in tasks /\ k.op = "clear"
  /\ Drop(k.node) /\ tasks' = tasks \ {k}
  /\ UNCHANGED <<nodes, trees, call, budget>>

\* A ClearCachesRecursivelyTask; the pool keeps the exception of one that fails.
RunDescend(k) ==
  /\ k \in tasks /\ k.op = "descend"
  /\ tasks' = (tasks \ {k}) \cup Submitted(k.node)
  /\ Lists(k.node) /\ Misses(Heirs(k.node) \ Listing(k.node))
  /\ UNCHANGED <<nodes, cached, call, budget, late, moved>>
DescendFails(k) ==
  /\ k \in tasks /\ k.op = "descend" /\ k.node \in Folder /\ Spends
  /\ tasks' = (tasks \ {k}) \cup {[op |-> "clear", node |-> k.node]}
  /\ Misses(Heirs(k.node))
  /\ UNCHANGED <<nodes, cached, trees, call, late, moved>>

-----------------------------------------------------------------------------
(***************************************************************************)
(* Moves, deletions and restores                                           *)
(***************************************************************************)

\* moveObject: the cached ACLs of what moves stay.  A move that would make a
\* folder its own ancestor, which the code does not refuse, is left out.
Move(u, n, f) ==
  /\ Starts(u)
  /\ n \notin gone \cup {Root} /\ f \notin gone /\ MayWrite(n)
  /\ f # up[n] /\ f \notin Beneath(n)
  /\ up' = [up EXCEPT ![n] = f]
  /\ trees' = [trees EXCEPT ![f] = Listing(f) \cup {n},
                            ![up[n]] = IF @ = Uncached THEN @ ELSE @ \ {n}]
  /\ moved' = moved \cup Cached(n)
  /\ UNCHANGED <<gone, local, inherits, cached, call, tasks, late, missed>>

\* deleteObject, of a node that lists no child: out of the cached tree of its
\* parent.  Children that it does not list stay, under nothing.
Delete(u, n) ==
  /\ Starts(u)
  /\ n \notin gone \cup {Root} /\ MayWrite(n)
  /\ Listing(n) \ gone = {}
  /\ gone' = gone \cup {n}
  /\ cached' = [cached EXCEPT ![n] = Uncached]
  /\ trees' = [f \in Folder |-> IF f = up[n] THEN Listing(f) \ {n}
                                ELSE IF f = n THEN Listing(n) ELSE trees[f]]
  /\ late' = late \ {n} /\ moved' = (moved \cup Cached(n)) \ {n} /\ missed' = missed \ {n}
  /\ UNCHANGED <<up, local, inherits, call, tasks>>

\* restoreArchive, of one node, with the ACL it had; a folder does not come back
\* into the cached tree of its parent.
Restore(u, n) ==
  /\ Starts(u)
  /\ n \in gone /\ up[n] \notin gone
  /\ gone' = gone \ {n}
  /\ trees' = IF n \in Document THEN [trees EXCEPT ![up[n]] = Listing(up[n]) \cup {n}] ELSE trees
  /\ moved' = moved \cup Cached(n)
  /\ UNCHANGED <<up, local, inherits, cached, call, tasks, late, missed>>

-----------------------------------------------------------------------------
\* Folders may have been restored before, since their parent's tree was cached.
Init ==
  /\ up = Tree /\ gone = {}
  /\ local \in [Node -> Ace \cup {NoAce}] /\ \A n \in Node : local[n] # NoAce => n = Root
  /\ inherits = [n \in Node |-> Unset]
  /\ cached = [n \in Node |-> Uncached]
  /\ \E back \in SUBSET (Folder \ {Root}) :
       trees = [f \in Folder |-> IF Children(f) \cap back = {} THEN Uncached ELSE Children(f) \ back]
  /\ call = [u \in User |-> Rest]
  /\ tasks = {} /\ budget = Budget /\ late = {} /\ moved = {} /\ missed = {}

Step(u) == Read(u) \/ Put(u) \/ Clear(u)
Run == \E k \in tasks : RunClear(k) \/ RunDescend(k)

Manage(u, n) ==
  \/ \E ace \in Ace \cup {NoAce}, inherited \in BOOLEAN : ApplyAcl(u, n, ace, inherited)
  \/ \E f \in Folder : Move(u, n, f)
  \/ Delete(u, n) \/ Restore(u, n)

Next ==
  \/ \E u \in Manager, n \in Node : Manage(u, n)
  \/ \E u \in User, n \in Node : Calculate(u, n)
  \/ \E u \in User : Step(u) \/ ClearFails(u)
  \/ \E n \in Node : Expire(n)
  \/ \E f \in Folder : ExpireTree(f)
  \/ Run
  \/ \E k \in tasks : DescendFails(k)

Spec == Init /\ [][Next]_vars

\* A call that was begun goes on, and the pool runs its tasks.
Fairness == (\A u \in User : WF_vars(Step(u))) /\ WF_vars(Run)
FairSpec == Spec /\ Fairness

-----------------------------------------------------------------------------
(***************************************************************************)
(* Properties                                                              *)
(***************************************************************************)

\* Each variable has its type, and the root folder stays where it is.
TypeOK ==
  /\ up \in [Node -> Folder] /\ up[Root] = Root
  /\ gone \subseteq Node \ {Root}
  /\ local \in [Node -> Ace \cup {NoAce}] /\ inherits \in [Node -> BOOLEAN \cup {Unset}]
  /\ cached \in [Node -> Ace \cup {NoAce, Uncached}]
  /\ trees \in [Folder -> {Uncached} \cup SUBSET Node]
  /\ call \in [User -> [op : {"none", "calculate", "put", "clear"}, node : Node, at : Node,
                        ace : Ace \cup {NoAce}]]
  /\ tasks \subseteq Task /\ budget \in 0 .. Budget
  /\ late \subseteq Node /\ moved \subseteq Node /\ missed \subseteq Node

\* What the code leaves out of date: see late, moved and missed.
Excused == gone \cup late \cup moved \cup missed

\* A cached ACL is what the node and its ancestors say now, unless a task, or an
\* applyAcl yet to submit its tasks, is on its way to the node down the nodes that
\* inherit, or its calculation ended after the clearing, or the node was moved,
\* deleted or restored, or a clearing failed or did not find it listed.
\* Once all tasks have run nothing is on its way any more.
Due(n) ==
  \/ [op |-> "clear", node |-> n] \in tasks
  \/ \E m \in Line(n, Inheriting) :
       \/ [op |-> "descend", node |-> m] \in tasks
       \/ \E u \in User : call[u].op = "clear" /\ call[u].node = m
OutdatedIsDue == \A n \in Node \ Excused : Right(n) \/ Due(n)

\* Again and again the cache is right, but for those exceptions: no outdated ACL
\* that applyAcl has to clear stays in it.
Heals == []<>(\A n \in Node \ Excused : Right(n))

=============================================================================
