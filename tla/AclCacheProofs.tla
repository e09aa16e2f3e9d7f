---------------------------- MODULE AclCacheProofs ----------------------------
(***************************************************************************)
(* Proofs about AclCache, for every tree, number of callers and of calls.  *)
(***************************************************************************)
EXTENDS AclCache, TLAPS

USE AclCacheAssumptions DEF nodes, history

-----------------------------------------------------------------------------
(***************************************************************************)
(* Lines                                                                   *)
(***************************************************************************)

\* Line, for any assignment of parents.
From(p, n, S) ==
  {m \in Node : \A L \in SUBSET (Node \ {m}) : n \in L => \E k \in L \cap S : p[k] \notin L}

LEMMA FromHas ==
  ASSUME NEW p, NEW n \in Node, NEW S
  PROVE  n \in From(p, n, S)
BY DEF From

LEMMA FromGoesOn ==
  ASSUME NEW p, NEW n, NEW S, NEW m \in From(p, n, S), m \in S, p[m] \in Node
  PROVE  p[m] \in From(p, n, S)
<1> SUFFICES ASSUME NEW L \in SUBSET (Node \ {p[m]}), n \in L
             PROVE  \E k \in L \cap S : p[k] \notin L
  BY DEF From
<1>1. CASE m \in L
  BY <1>1
<1>2. CASE m \notin L
  BY <1>2 DEF From
<1> QED  BY <1>1, <1>2

LEMMA FromIsLeast ==
  ASSUME NEW p, NEW n, NEW S, NEW C \in SUBSET Node, n \in C,
         \A k \in C \cap S : p[k] \in C
  PROVE  From(p, n, S) \subseteq C
<1> SUFFICES ASSUME NEW m \in From(p, n, S), m \notin C
             PROVE  FALSE
  OBVIOUS
<1>1. C \in SUBSET (Node \ {m})
  OBVIOUS
<1> QED  BY <1>1 DEF From

LEMMA FromIsNodes ==
  ASSUME NEW p, NEW n, NEW S
  PROVE  From(p, n, S) \subseteq Node
BY DEF From

\* A line is the same in another tree where nothing on it differs.
LEMMA FromStays ==
  ASSUME NEW n \in Node, NEW p \in [Node -> Node], NEW q \in [Node -> Node], NEW S, NEW T,
         \A k \in From(p, n, S) : p[k] = q[k] /\ (k \in S <=> k \in T)
  PROVE  From(q, n, T) = From(p, n, S)
<1> DEFINE A == From(p, n, S)
           B == From(q, n, T)
<1>1. A \in SUBSET Node /\ B \in SUBSET Node /\ n \in A /\ n \in B
  BY FromIsNodes, FromHas
<1>2. /\ \A k \in A : k \in S => p[k] \in A
      /\ \A k \in B : k \in T => q[k] \in B
  BY <1>1, FromGoesOn
<1>3. B \subseteq A
  <2>1. \A k \in A \cap T : q[k] \in A
    BY <1>2
  <2> HIDE DEF A
  <2> QED  BY <1>1, <2>1, FromIsLeast
<1>4. A \subseteq A \cap B
  <2> DEFINE C == A \cap B
  <2>1. C \in SUBSET Node /\ n \in C /\ \A k \in C \cap S : p[k] \in C
    BY <1>1, <1>2
  <2> HIDE DEF C
  <2>2. From(p, n, S) \subseteq C
    BY <2>1, FromIsLeast
  <2> QED  BY <2>2 DEF C
<1> QED  BY <1>3, <1>4

LEMMA FromGrows ==
  ASSUME NEW n \in Node, NEW p \in [Node -> Node], NEW S, NEW T, S \subseteq T
  PROVE  From(p, n, S) \subseteq From(p, n, T)
<1> DEFINE B == From(p, n, T)
<1>1. B \in SUBSET Node /\ n \in B
  BY FromIsNodes, FromHas
<1>2. \A k \in B \cap S : p[k] \in B
  BY <1>1, FromGoesOn
<1> HIDE DEF B
<1>3. From(p, n, S) \subseteq B
  BY <1>1, <1>2, FromIsLeast
<1> QED  BY <1>3 DEF B

\* What is on a line, but for where it starts, is the parent of what is on it.
LEMMA FromBelow ==
  ASSUME NEW n \in Node, NEW p \in [Node -> Node], NEW S, NEW m \in From(p, n, S), m # n
  PROVE  \E k \in From(p, n, S) \cap S : p[k] = m
<1> DEFINE A == From(p, n, S)
<1>1. A \in SUBSET Node /\ n \in A /\ m \in A
  BY FromIsNodes, FromHas
<1>2. \A k \in A : k \in S => p[k] \in A
  BY <1>1, FromGoesOn
<1> SUFFICES ASSUME \A k \in A \cap S : p[k] # m
             PROVE  FALSE
  OBVIOUS
<1>3. \A k \in (A \ {m}) \cap S : p[k] \in A \ {m}
  BY <1>2
<1>4. A \ {m} \in SUBSET Node /\ n \in A \ {m}
  BY <1>1
<1>5. A \subseteq A \ {m}
  <2> DEFINE C == A \ {m}
  <2>1. C \in SUBSET Node /\ n \in C /\ \A k \in C \cap S : p[k] \in C
    BY <1>3, <1>4
  <2> HIDE DEF C
  <2>2. From(p, n, S) \subseteq C
    BY <2>1, FromIsLeast
  <2> QED  BY <2>2 DEF C
<1> QED  BY <1>1, <1>5

LEMMA LineIs ==
  ASSUME NEW p, NEW n, NEW S
  PROVE  (p = up => Line(n, S) = From(p, n, S)) /\ (p = up' => Line(n, S)' = From(p, n, S))
BY DEF Line, From

-----------------------------------------------------------------------------
(***************************************************************************)
(* The ACLs of the nodes a step has nothing to do with                     *)
(***************************************************************************)

LEMMA TypesMakeTree ==
  ASSUME TypeOK
  PROVE  up \in [Node -> Node] /\ Undecided \subseteq Inheriting /\ Inheriting \subseteq Node
BY DEF TypeOK, Node, Undecided, Inheriting

\* What a node inherits, and the tasks that get to it, depend on its line only.
LEMMA EffectiveStays ==
  ASSUME TypeOK, TypeOK', NEW n \in Node,
         \A k \in Line(n, Inheriting) :
           /\ up'[k] = up[k] /\ local'[k] = local[k] /\ inherits'[k] = inherits[k]
           /\ up[k] \in gone' <=> up[k] \in gone
  PROVE  Line(n, Inheriting)' = Line(n, Inheriting) /\ Effective(n)' = Effective(n)
<1>1. PICK p, q, I, J, U, V :
        p = up /\ q = up' /\ I = Inheriting /\ J = Inheriting' /\ U = Undecided /\ V = Undecided'
  OBVIOUS
<1>2. p \in [Node -> Node] /\ q \in [Node -> Node] /\ U \subseteq I
  BY <1>1, TypesMakeTree DEF TypeOK, Node
<1>3. /\ Line(n, Inheriting) = From(p, n, I) /\ Line(n, Undecided) = From(p, n, U)
      /\ Line(n, Inheriting)' = From(q, n, J) /\ Line(n, Undecided)' = From(q, n, V)
  <2>1. \A S : Line(n, S) = From(p, n, S)
    BY <1>1 DEF Line, From
  <2>2. Line(n, Inheriting)' = From(q, n, J) /\ Line(n, Undecided)' = From(q, n, V)
    BY <1>1 DEF Line, From
  <2> QED  BY <1>1, <2>1, <2>2
<1>4. From(p, n, U) \subseteq From(p, n, I) /\ From(p, n, I) \subseteq Node
  BY <1>2, FromGrows, FromIsNodes
<1>5. \A k \in From(p, n, I) :
         /\ p[k] = q[k] /\ local'[k] = local[k]
         /\ (k \in I <=> k \in J) /\ (k \in U <=> k \in V)
  BY <1>1, <1>3, <1>4 DEF Inheriting, Undecided, Inherits
<1>6. From(q, n, J) = From(p, n, I)
  BY <1>2, <1>5, FromStays
<1>7. From(q, n, V) = From(p, n, U)
  <2>1. \A k \in From(p, n, U) : p[k] = q[k] /\ (k \in U <=> k \in V)
    BY <1>4, <1>5
  <2> QED  BY <1>2, <2>1, FromStays
<1>8. Effective(n)' = Effective(n)
  <2>1. Line(n, Undecided)' \ Undecided' = Line(n, Undecided) \ Undecided
    BY <1>1, <1>3, <1>4, <1>5, <1>7
  <2>2. {local'[m] : m \in Line(n, Undecided)' \ Undecided'}
          = {local[m] : m \in Line(n, Undecided) \ Undecided}
    BY <1>3, <1>4, <1>5, <2>1
  <2> QED  BY <2>2 DEF Effective
<1> QED  BY <1>3, <1>6, <1>8

\* Where neither the tree nor the ACLs change.
LEMMA EffectiveQuiet ==
  ASSUME UNCHANGED nodes, NEW n \in Node
  PROVE  Line(n, Inheriting)' = Line(n, Inheriting) /\ Effective(n)' = Effective(n)
BY DEF Line, Inheriting, Inherits, Effective, Undecided

-----------------------------------------------------------------------------
(***************************************************************************)
(* Types                                                                   *)
(***************************************************************************)

LEMMA RestIsCall ==
  Rest \in [op : {"none", "calculate", "put", "clear"}, node : Node, at : Node,
            ace : Ace \cup {NoAce}]
BY DEF Rest, Node, AclCacheAssumptions

LEMMA SubmittedAreTasks ==
  ASSUME NEW n \in Node
  PROVE  Submitted(n) \subseteq Task
BY DEF Submitted, Task, Heirs, Children

LEMMA ListingIsTree ==
  ASSUME TypeOK
  PROVE  /\ \A f \in Folder : Listing(f) \in SUBSET Node
         /\ \A f : Lists(f) => trees' \in [Folder -> {Uncached} \cup SUBSET Node]
<1>1. ASSUME NEW f \in Folder  PROVE Listing(f) \in SUBSET Node
  BY <1>1 DEF Listing, Children, TypeOK
<1>2. ASSUME NEW f, Lists(f)  PROVE trees' \in [Folder -> {Uncached} \cup SUBSET Node]
  BY <1>1, <1>2 DEF Lists, TypeOK
<1> QED  BY <1>1, <1>2

LEMMA TypesStay ==
  ASSUME TypeOK, [Next]_vars
  PROVE  TypeOK'
<1> USE DEF TypeOK
<1>1. ASSUME NEW u \in User, NEW n \in Node, Calculate(u, n)
      PROVE  TypeOK'
  BY <1>1 DEF Calculate, Starts, Spends, Goes
<1>2. ASSUME NEW u \in User, NEW n \in Node, NEW ace \in Ace \cup {NoAce},
             NEW inherited \in BOOLEAN, ApplyAcl(u, n, ace, inherited)
      PROVE  TypeOK'
  <2>1. [Rest EXCEPT !.op = "clear", !.node = n]
          \in [op : {"none", "calculate", "put", "clear"}, node : Node, at : Node,
               ace : Ace \cup {NoAce}]
    BY RestIsCall
  <2> QED  BY <1>2, <2>1 DEF ApplyAcl, Starts, Spends, Goes
<1>3. ASSUME NEW u \in User, NEW n \in Node, NEW f \in Folder, Move(u, n, f)
      PROVE  TypeOK'
  <2>1. Cached(n) \subseteq Node
    BY DEF Cached, Beneath
  <2>2. trees' \in [Folder -> {Uncached} \cup SUBSET Node]
    <3>1. PICK X, Y : X = Listing(f) \cup {n} /\ Y = IF trees[up[n]] = Uncached
                                                    THEN trees[up[n]] ELSE trees[up[n]] \ {n}
      OBVIOUS
    <3>2. X \in SUBSET Node
      BY <3>1, ListingIsTree
    <3>3. up[n] \in Folder
      OBVIOUS
    <3>4. trees[up[n]] \in {Uncached} \cup SUBSET Node
      BY <3>3
    <3>5. Y \in {Uncached} \cup SUBSET Node
      BY <3>1, <3>4
    <3>6. trees' = [trees EXCEPT ![f] = X, ![up[n]] = Y]
      BY <1>3, <3>1 DEF Move
    <3> QED  BY <3>2, <3>5, <3>6
  <2>3. up' = [up EXCEPT ![n] = f] /\ n # Root /\ moved' = moved \cup Cached(n) /\ Spends
        /\ UNCHANGED <<gone, local, inherits, cached, call, tasks, late, missed>>
    BY <1>3 DEF Move, Starts
  <2>4. up' \in [Node -> Folder] /\ up'[Root] = Root /\ budget' \in 0 .. Budget
    BY <2>3 DEF Spends, Node
  <2> QED  BY <2>1, <2>2, <2>3, <2>4
<1>4. ASSUME NEW u \in User, NEW n \in Node, Delete(u, n)
      PROVE  TypeOK'
  <2>1. Cached(n) \subseteq Node
    BY DEF Cached, Beneath
  <2>2. trees' \in [Folder -> {Uncached} \cup SUBSET Node]
    BY <1>4, ListingIsTree DEF Delete
  <2> QED  BY <1>4, <2>1, <2>2 DEF Delete, Starts, Spends
<1>5. ASSUME NEW u \in User, NEW n \in Node, Restore(u, n)
      PROVE  TypeOK'
  <2>1. Cached(n) \subseteq Node
    BY DEF Cached, Beneath
  <2>2. trees' \in [Folder -> {Uncached} \cup SUBSET Node]
    BY <1>5, ListingIsTree DEF Restore
  <2> QED  BY <1>5, <2>1, <2>2 DEF Restore, Starts, Spends
<1>6. ASSUME NEW u \in User, Read(u)
      PROVE  TypeOK'
  <2>1. PICK c, a : c = call[u] /\ a = c.at
    OBVIOUS
  <2>2. a \in Node /\ up[a] \in Node /\ local[a] \in Ace \cup {NoAce}
    BY <2>1, TypesMakeTree
  <2>3. PICK x : x = IF a \in Undecided
                     THEN [c EXCEPT !.at = up[a]]
                     ELSE [c EXCEPT !.op = "put", !.ace = local[a]]
    OBVIOUS
  <2>4. x \in [op : {"none", "calculate", "put", "clear"}, node : Node, at : Node,
               ace : Ace \cup {NoAce}]
    <3>1. c \in [op : {"none", "calculate", "put", "clear"}, node : Node, at : Node,
                 ace : Ace \cup {NoAce}]
      BY <2>1
    <3> HIDE DEF TypeOK
    <3>2. x = [c EXCEPT !.at = up[a]] \/ x = [c EXCEPT !.op = "put", !.ace = local[a]]
      BY <2>3, Zenon
    <3>3. CASE x = [c EXCEPT !.at = up[a]]
      BY <2>2, <3>1, <3>3
    <3>4. CASE x = [c EXCEPT !.op = "put", !.ace = local[a]]
      BY <2>2, <3>1, <3>4
    <3> QED  BY <3>2, <3>3, <3>4
  <2>5. call' = [call EXCEPT ![u] = x]
    BY <1>6, <2>1, <2>3 DEF Read, Goes
  <2> QED  BY <1>6, <2>4, <2>5 DEF Read
<1>7. ASSUME NEW u \in User, Put(u)
      PROVE  TypeOK'
  BY <1>7, RestIsCall DEF Put, Goes
<1>8. ASSUME NEW u \in User, Clear(u)
      PROVE  TypeOK'
  <2>1. trees' \in [Folder -> {Uncached} \cup SUBSET Node]
    BY <1>8, ListingIsTree DEF Clear
  <2>2. missed' \subseteq Node
    BY <1>8 DEF Clear, Misses
  <2> QED  BY <1>8, <2>1, <2>2, RestIsCall, SubmittedAreTasks DEF Clear, Goes
<1>9. ASSUME NEW u \in User, ClearFails(u)
      PROVE  TypeOK'
  <2>1. missed' \subseteq Node
    BY <1>9 DEF ClearFails, Misses
  <2> QED  BY <1>9, <2>1, RestIsCall DEF ClearFails, Goes, Spends, Task
<1>10. ASSUME NEW n \in Node, Expire(n)
       PROVE  TypeOK'
  BY <1>10 DEF Expire, Drop, Spends
<1>11. ASSUME NEW f \in Folder, ExpireTree(f)
       PROVE  TypeOK'
  BY <1>11 DEF ExpireTree, Spends
<1>12. ASSUME NEW k \in tasks, RunClear(k)
       PROVE  TypeOK'
  BY <1>12 DEF RunClear, Drop, Task
<1>13. ASSUME NEW k \in tasks, RunDescend(k)
       PROVE  TypeOK'
  <2>1. trees' \in [Folder -> {Uncached} \cup SUBSET Node]
    BY <1>13, ListingIsTree DEF RunDescend
  <2>2. missed' \subseteq Node
    BY <1>13 DEF RunDescend, Misses
  <2> QED  BY <1>13, <2>1, <2>2, SubmittedAreTasks DEF RunDescend, Task
<1>14. ASSUME NEW k \in tasks, DescendFails(k)
       PROVE  TypeOK'
  <2>1. missed' \subseteq Node
    BY <1>14 DEF DescendFails, Misses
  <2> QED  BY <1>14, <2>1 DEF DescendFails, Spends, Task
<1>15. CASE UNCHANGED vars
  BY <1>15 DEF vars
<1> QED
  BY <1>1, <1>2, <1>3, <1>4, <1>5, <1>6, <1>7, <1>8, <1>9, <1>10, <1>11, <1>12, <1>13, <1>14,
     <1>15 DEF Next, Manage, Step, Run

-----------------------------------------------------------------------------
(***************************************************************************)
(* What is out of date is on its way to being cleared                      *)
(***************************************************************************)

\* A step that changes neither the tree nor the ACLs, and takes nothing that
\* is on its way away from n.
LEMMA QuietIsDue ==
  ASSUME UNCHANGED nodes, NEW n \in Node, Right(n) \/ Due(n),
         cached'[n] \in {cached[n], Uncached},
         [op |-> "clear", node |-> n] \in tasks => [op |-> "clear", node |-> n] \in tasks',
         \A m \in Node : [op |-> "descend", node |-> m] \in tasks
                           => [op |-> "descend", node |-> m] \in tasks',
         \A u \in User : call[u].op = "clear" => call'[u] = call[u]
  PROVE  Right(n)' \/ Due(n)'
<1>1. Line(n, Inheriting)' = Line(n, Inheriting) /\ Effective(n)' = Effective(n)
  BY EffectiveQuiet
<1>2. Line(n, Inheriting) \subseteq Node
  BY DEF Line
<1>3. CASE Right(n)
  BY <1>1, <1>3 DEF Right
<1>4. CASE Due(n)
  BY <1>1, <1>2, <1>4 DEF Due
<1> QED  BY <1>3, <1>4

\* The tasks that are submitted for a node get to all that it had a task for,
\* but for what the children are missed of.
LEMMA SubmittedGoOn ==
  ASSUME TypeOK, UNCHANGED nodes, NEW n \in Node \ gone, n \notin missed',
         NEW m \in Line(n, Inheriting), NEW S, Misses(S),
         [op |-> "clear", node |-> m] \in tasks',
         \A c \in Heirs(m) \ S : [op |-> "descend", node |-> c] \in tasks'
  PROVE  Right(n) \/ Due(n)'
<1>1. Line(n, Inheriting)' = Line(n, Inheriting)
  BY EffectiveQuiet
<1>2. CASE m = n
  BY <1>2 DEF Due
<1>3. CASE m # n
  <2>1. PICK p, I : p = up /\ I = Inheriting
    OBVIOUS
  <2>2. Line(n, Inheriting) = From(p, n, I)
    BY <2>1 DEF Line, From
  <2>3. p \in [Node -> Node]
    BY <2>1, TypesMakeTree
  <2>4. PICK k \in From(p, n, I) \cap I : p[k] = m
    BY <1>3, <2>2, <2>3, FromBelow
  <2>5. k \notin gone
    <3>1. CASE k = n
      BY <3>1
    <3>2. CASE k # n
      <4>1. PICK j \in From(p, n, I) \cap I : p[j] = k
        BY <2>3, <2>4, <3>2, FromBelow
      <4> QED  BY <2>1, <4>1 DEF Inheriting
    <3> QED  BY <3>1, <3>2
  <2>6. k \in Heirs(m)
    BY <2>1, <2>4, <2>5 DEF Inheriting, Inherits, Heirs, Children
  <2>7. k \in Line(n, Inheriting)
    BY <2>2, <2>4
  <2>8. CASE k \in S
    BY <2>7, <2>8 DEF Misses
  <2>9. CASE k \notin S
    BY <1>1, <2>6, <2>7, <2>9 DEF Due
  <2> QED  BY <2>8, <2>9
<1> QED  BY <1>2, <1>3

\* A step that has nothing to do with the ACLs.
LEMMA CalmIsDue ==
  ASSUME OutdatedIsDue, UNCHANGED <<nodes, cached, call, tasks, history>>
  PROVE  OutdatedIsDue'
<1> SUFFICES ASSUME NEW n \in Node, n \notin Excused' PROVE Right(n)' \/ Due(n)'
  BY DEF OutdatedIsDue
<1>1. Right(n) \/ Due(n)
  BY DEF OutdatedIsDue, Excused
<1> QED  BY <1>1, QuietIsDue

LEMMA CalculateIsDue ==
  ASSUME TypeOK, OutdatedIsDue, NEW u \in User, NEW m \in Node, Calculate(u, m)
  PROVE  OutdatedIsDue'
<1> SUFFICES ASSUME NEW n \in Node, n \notin Excused' PROVE Right(n)' \/ Due(n)'
  BY DEF OutdatedIsDue
<1>1. UNCHANGED <<nodes, cached, tasks, history>> /\ call[u].op = "none"
  BY DEF Calculate, Starts, Busy
<1>2. \A v \in User : call[v].op = "clear" => call'[v] = call[v]
  BY <1>1 DEF Calculate, Goes, TypeOK
<1>3. Right(n) \/ Due(n)
  BY <1>1 DEF OutdatedIsDue, Excused
<1> QED  BY <1>1, <1>2, <1>3, QuietIsDue

LEMMA ReadIsDue ==
  ASSUME TypeOK, OutdatedIsDue, NEW u \in User, Read(u)
  PROVE  OutdatedIsDue'
<1> SUFFICES ASSUME NEW n \in Node, n \notin Excused' PROVE Right(n)' \/ Due(n)'
  BY DEF OutdatedIsDue
<1>1. UNCHANGED <<nodes, cached, tasks, history>> /\ call[u].op = "calculate"
  BY DEF Read
<1>2. \A v \in User : call[v].op = "clear" => call'[v] = call[v]
  BY <1>1 DEF Read, Goes, TypeOK
<1>3. Right(n) \/ Due(n)
  BY <1>1 DEF OutdatedIsDue, Excused
<1> QED  BY <1>1, <1>2, <1>3, QuietIsDue

\* What is put is right, or counts as late.
LEMMA PutIsDue ==
  ASSUME TypeOK, OutdatedIsDue, NEW u \in User, Put(u)
  PROVE  OutdatedIsDue'
<1> SUFFICES ASSUME NEW n \in Node, n \notin Excused' PROVE Right(n)' \/ Due(n)'
  BY DEF OutdatedIsDue
<1>1. UNCHANGED <<nodes, tasks>> /\ call[u].op = "put"
  BY DEF Put
<1>2. \A v \in User : call[v].op = "clear" => call'[v] = call[v]
  BY <1>1 DEF Put, Goes, TypeOK
<1>3. CASE n = call[u].node
  <2>1. call[u].ace = Effective(n)
    BY <1>3 DEF Put, Excused
  <2>2. cached'[n] = Effective(n)
    BY <1>3, <2>1 DEF Put, TypeOK
  <2>3. Effective(n)' = Effective(n)
    BY <1>1, EffectiveQuiet
  <2> QED  BY <2>2, <2>3 DEF Right
<1>4. CASE n # call[u].node
  <2>1. n \notin Excused /\ cached'[n] = cached[n]
    BY <1>4 DEF Put, Excused, TypeOK
  <2>2. Right(n) \/ Due(n)
    BY <2>1 DEF OutdatedIsDue
  <2> QED  BY <1>1, <1>2, <2>1, <2>2, QuietIsDue
<1> QED  BY <1>3, <1>4

\* What is not in the cache is not out of date.
LEMMA DropIsDue ==
  ASSUME TypeOK, OutdatedIsDue, UNCHANGED <<nodes, call>>, NEW m \in Node, Drop(m),
         \A k \in tasks \ tasks' : k = [op |-> "clear", node |-> m]
  PROVE  OutdatedIsDue'
<1> SUFFICES ASSUME NEW n \in Node, n \notin Excused' PROVE Right(n)' \/ Due(n)'
  BY DEF OutdatedIsDue
<1>1. CASE n = m
  BY <1>1 DEF Drop, Right, TypeOK
<1>2. CASE n # m
  <2>1. n \notin Excused /\ cached'[n] = cached[n]
    BY <1>2 DEF Drop, Excused, TypeOK
  <2>2. Right(n) \/ Due(n)
    BY <2>1 DEF OutdatedIsDue
  <2>3. /\ [op |-> "clear", node |-> n] # [op |-> "clear", node |-> m]
        /\ \A k \in Node : [op |-> "descend", node |-> k] # [op |-> "clear", node |-> m]
    BY <1>2
  <2> QED  BY <2>1, <2>2, <2>3, QuietIsDue
<1> QED  BY <1>1, <1>2

LEMMA ClearIsDue ==
  ASSUME TypeOK, OutdatedIsDue, NEW u \in User, Clear(u) \/ ClearFails(u)
  PROVE  OutdatedIsDue'
<1> SUFFICES ASSUME NEW n \in Node, n \notin Excused' PROVE Right(n)' \/ Due(n)'
  BY DEF OutdatedIsDue
<1>1. /\ UNCHANGED <<nodes, cached, late, moved>>
      /\ tasks \subseteq tasks' /\ missed \subseteq missed'
  BY DEF Clear, ClearFails, Misses
<1>2. \A v \in User \ {u} : call'[v] = call[v]
  BY DEF Clear, ClearFails, Goes, TypeOK
<1>3. Right(n) \/ Due(n)
  BY <1>1 DEF OutdatedIsDue, Excused
<1>4. Line(n, Inheriting)' = Line(n, Inheriting) /\ Effective(n)' = Effective(n)
  BY <1>1, EffectiveQuiet
<1>5. CASE Right(n)
  BY <1>1, <1>4, <1>5 DEF Right
<1>6. CASE call[u].node \in Line(n, Inheriting)
  <2>1. n \notin gone /\ n \notin missed'
    BY <1>1 DEF Excused
  <2>2. CASE Clear(u)
    <3>1. /\ Misses(Heirs(call[u].node) \ Listing(call[u].node))
          /\ Submitted(call[u].node) \subseteq tasks'
      BY <2>2 DEF Clear
    <3> QED  BY <1>1, <1>5, <1>6, <2>1, <3>1, SubmittedGoOn DEF Submitted
  <2>3. CASE Misses({call[u].node})
    BY <1>5, <1>6, <2>1, <2>3 DEF Misses
  <2>4. CASE /\ [op |-> "clear", node |-> call[u].node] \in tasks'
             /\ Misses(Heirs(call[u].node))
    BY <1>1, <1>5, <1>6, <2>1, <2>4, SubmittedGoOn
  <2> QED  BY <2>2, <2>3, <2>4 DEF ClearFails
<1>7. CASE Due(n) /\ call[u].node \notin Line(n, Inheriting)
  BY <1>1, <1>2, <1>4, <1>7 DEF Due
<1> QED  BY <1>3, <1>5, <1>6, <1>7

LEMMA DescendIsDue ==
  ASSUME TypeOK, OutdatedIsDue, NEW k \in tasks, RunDescend(k) \/ DescendFails(k)
  PROVE  OutdatedIsDue'
<1> SUFFICES ASSUME NEW n \in Node, n \notin Excused' PROVE Right(n)' \/ Due(n)'
  BY DEF OutdatedIsDue
<1>1. /\ UNCHANGED <<nodes, cached, call, late, moved>> /\ k.op = "descend"
      /\ tasks \ {k} \subseteq tasks' /\ missed \subseteq missed'
  BY DEF RunDescend, DescendFails, Misses
<1>2. Right(n) \/ Due(n)
  BY <1>1 DEF OutdatedIsDue, Excused
<1>3. Line(n, Inheriting)' = Line(n, Inheriting) /\ Effective(n)' = Effective(n)
  BY <1>1, EffectiveQuiet
<1>4. CASE Right(n)
  BY <1>1, <1>3, <1>4 DEF Right
<1>5. CASE k.node \in Line(n, Inheriting)
  <2>1. n \notin gone /\ n \notin missed'
    BY <1>1 DEF Excused
  <2>2. CASE RunDescend(k)
    <3>1. PICK m, S : m = k.node /\ S = Heirs(m) \ Listing(m)
      OBVIOUS
    <3>2. Misses(S) /\ Submitted(m) \subseteq tasks'
      BY <2>2, <3>1 DEF RunDescend
    <3>3. /\ [op |-> "clear", node |-> m] \in tasks'
          /\ \A c \in Heirs(m) \ S : [op |-> "descend", node |-> c] \in tasks'
      BY <3>1, <3>2 DEF Submitted
    <3>4. m \in Line(n, Inheriting) /\ n \in Node \ gone /\ UNCHANGED nodes
      BY <1>1, <1>5, <2>1, <3>1
    <3>5. Right(n) \/ Due(n)'
      BY <2>1, <3>2, <3>3, <3>4, SubmittedGoOn
    <3> QED  BY <1>1, <1>3, <3>5 DEF Right
  <2>3. CASE DescendFails(k)
    <3>1. [op |-> "clear", node |-> k.node] \in tasks' /\ Misses(Heirs(k.node))
      BY <2>3 DEF DescendFails
    <3> QED  BY <1>1, <1>4, <1>5, <2>1, <3>1, SubmittedGoOn
  <2> QED  BY <2>2, <2>3
<1>6. CASE Due(n) /\ k.node \notin Line(n, Inheriting)
  <2>1. /\ [op |-> "clear", node |-> n] # k
        /\ \A m \in Line(n, Inheriting) : [op |-> "descend", node |-> m] # k
    BY <1>1, <1>6
  <2> QED  BY <1>1, <1>3, <1>6, <2>1 DEF Due
<1> QED  BY <1>2, <1>4, <1>5, <1>6

\* An applyAcl is on its way to all nodes it changes what is inherited by.
LEMMA ApplyAclIsDue ==
  ASSUME TypeOK, TypeOK', OutdatedIsDue, NEW u \in User, NEW m \in Node,
         NEW ace \in Ace \cup {NoAce}, NEW inherited \in BOOLEAN, ApplyAcl(u, m, ace, inherited)
  PROVE  OutdatedIsDue'
<1> SUFFICES ASSUME NEW n \in Node, n \notin Excused' PROVE Right(n)' \/ Due(n)'
  BY DEF OutdatedIsDue
<1>1. /\ UNCHANGED <<up, gone, cached, tasks, history>> /\ call[u].op = "none"
      /\ \A k \in Node \ {m} : local'[k] = local[k] /\ inherits'[k] = inherits[k]
  BY DEF ApplyAcl, Starts, Busy, TypeOK
<1>2. call'[u].op = "clear" /\ call'[u].node = m /\ \A v \in User \ {u} : call'[v] = call[v]
  BY DEF ApplyAcl, Goes, Rest, TypeOK
<1>3. CASE m \in Line(n, Inheriting)'
  BY <1>2, <1>3 DEF Due
<1>4. CASE m \notin Line(n, Inheriting)'
  <2>1. Line(n, Inheriting)' = Line(n, Inheriting)
    <3>1. PICK p, q, I, J : p = up /\ q = up' /\ I = Inheriting /\ J = Inheriting'
      OBVIOUS
    <3>2. Line(n, Inheriting) = From(p, n, I) /\ Line(n, Inheriting)' = From(q, n, J)
      BY <3>1 DEF Line, From
    <3>3. p \in [Node -> Node] /\ q = p
      BY <1>1, <3>1, TypesMakeTree
    <3>4. \A k \in From(q, n, J) : q[k] = p[k] /\ (k \in J <=> k \in I)
      <4>1. From(q, n, J) \subseteq Node \ {m}
        BY <1>4, <3>2, FromIsNodes
      <4> QED  BY <1>1, <3>1, <3>3, <4>1 DEF Inheriting, Inherits
    <3>5. From(p, n, I) = From(q, n, J)
      BY <3>3, <3>4, FromStays
    <3> QED  BY <3>2, <3>5
  <2>2. Line(n, Inheriting) \subseteq Node \ {m}
    BY <1>4, <2>1 DEF Line
  <2>3. \A k \in Line(n, Inheriting) :
          /\ up'[k] = up[k] /\ local'[k] = local[k] /\ inherits'[k] = inherits[k]
          /\ up[k] \in gone' <=> up[k] \in gone
    BY <1>1, <2>2
  <2>4. Effective(n)' = Effective(n)
    BY <2>3, EffectiveStays
  <2>5. Right(n) \/ Due(n)
    BY <1>1 DEF OutdatedIsDue, Excused
  <2>6. CASE Right(n)
    BY <1>1, <2>4, <2>6 DEF Right
  <2>7. CASE Due(n)
    BY <1>1, <1>2, <2>1, <2>7 DEF Due
  <2> QED  BY <2>5, <2>6, <2>7
<1> QED  BY <1>3, <1>4

\* A move, a deletion and a restore leave the line of what is not under the node
\* as it is; what is under it is no longer cached, or excused.
LEMMA MovedIsDue ==
  ASSUME TypeOK, TypeOK', OutdatedIsDue, NEW m \in Node,
         UNCHANGED <<local, inherits, call, tasks>>,
         \A k \in Node \ {m} : up'[k] = up[k] /\ (k \in gone' <=> k \in gone),
         \A n \in Beneath(m) : cached'[n] = Uncached \/ n \in moved',
         \A n \in Node \ Beneath(m) : cached'[n] = cached[n] /\ (n \in Excused => n \in Excused')
  PROVE  OutdatedIsDue'
<1> SUFFICES ASSUME NEW n \in Node, n \notin Excused' PROVE Right(n)' \/ Due(n)'
  BY DEF OutdatedIsDue
<1>1. CASE n \in Beneath(m)
  BY <1>1 DEF Excused, Right
<1>2. CASE n \notin Beneath(m)
  <2>1. \A k \in Line(n, Inheriting) : k \in Node \ {m} /\ up[k] \in Node \ {m}
    <3>1. PICK p, I : p = up /\ I = Inheriting
      OBVIOUS
    <3>2. Line(n, Inheriting) = From(p, n, I) /\ Line(n, Node) = From(p, n, Node)
      BY <3>1 DEF Line, From
    <3>3. p \in [Node -> Node] /\ I \subseteq Node
      BY <3>1, TypesMakeTree
    <3>4. From(p, n, I) \subseteq From(p, n, Node) /\ From(p, n, Node) \subseteq Node
      BY <3>3, FromGrows, FromIsNodes
    <3>5. \A k \in From(p, n, Node) : p[k] \in From(p, n, Node)
      BY <3>3, <3>4, FromGoesOn
    <3>6. m \notin Line(n, Node)
      BY <1>2 DEF Beneath
    <3> QED  BY <3>1, <3>2, <3>4, <3>5, <3>6
  <2>2. \A k \in Line(n, Inheriting) :
          /\ up'[k] = up[k] /\ local'[k] = local[k] /\ inherits'[k] = inherits[k]
          /\ up[k] \in gone' <=> up[k] \in gone
    BY <2>1
  <2>3. Line(n, Inheriting)' = Line(n, Inheriting) /\ Effective(n)' = Effective(n)
    BY <2>2, EffectiveStays
  <2>4. Right(n) \/ Due(n)
    BY <1>2 DEF OutdatedIsDue
  <2>5. CASE Right(n)
    BY <1>2, <2>3, <2>5 DEF Right
  <2>6. CASE Due(n)
    BY <2>3, <2>6 DEF Due
  <2> QED  BY <2>4, <2>5, <2>6
<1> QED  BY <1>1, <1>2

LEMMA MoveIsDue ==
  ASSUME TypeOK, TypeOK', OutdatedIsDue, NEW u \in User, NEW m \in Node, NEW f \in Folder,
         Move(u, m, f)
  PROVE  OutdatedIsDue'
<1>1. /\ UNCHANGED <<gone, local, inherits, cached, call, tasks, late, missed>>
      /\ moved' = moved \cup Cached(m)
      /\ \A k \in Node \ {m} : up'[k] = up[k]
  BY DEF Move, TypeOK
<1>2. \A n \in Beneath(m) : cached'[n] = Uncached \/ n \in moved'
  BY <1>1 DEF Cached
<1>3. Excused \subseteq Excused'
  BY <1>1 DEF Excused
<1> QED  BY <1>1, <1>2, <1>3, MovedIsDue

LEMMA RestoreIsDue ==
  ASSUME TypeOK, TypeOK', OutdatedIsDue, NEW u \in User, NEW m \in Node, Restore(u, m)
  PROVE  OutdatedIsDue'
<1>1. /\ UNCHANGED <<up, local, inherits, cached, call, tasks, late, missed>>
      /\ gone' = gone \ {m} /\ moved' = moved \cup Cached(m)
  BY DEF Restore
<1>2. \A n \in Beneath(m) : cached'[n] = Uncached \/ n \in moved'
  BY <1>1 DEF Cached
<1>3. \A n \in Node \ {m} : n \in Excused => n \in Excused'
  BY <1>1 DEF Excused
<1>4. m \in Beneath(m)
  BY DEF Beneath, Line
<1> QED  BY <1>1, <1>2, <1>3, <1>4, MovedIsDue

LEMMA DeleteIsDue ==
  ASSUME TypeOK, TypeOK', OutdatedIsDue, NEW u \in User, NEW m \in Node, Delete(u, m)
  PROVE  OutdatedIsDue'
<1>1. /\ UNCHANGED <<up, local, inherits, call, tasks>>
      /\ gone' = gone \cup {m} /\ moved' = (moved \cup Cached(m)) \ {m}
      /\ late' = late \ {m} /\ missed' = missed \ {m}
      /\ cached'[m] = Uncached /\ \A n \in Node \ {m} : cached'[n] = cached[n]
  BY DEF Delete, TypeOK
<1>2. \A n \in Beneath(m) : cached'[n] = Uncached \/ n \in moved'
  BY <1>1 DEF Cached, Beneath
<1>3. \A n \in Node \ {m} : n \in Excused => n \in Excused'
  BY <1>1 DEF Excused
<1>4. m \in Beneath(m)
  BY DEF Beneath, Line
<1> QED  BY <1>1, <1>2, <1>3, <1>4, MovedIsDue

LEMMA DueStays ==
  ASSUME TypeOK, TypeOK', OutdatedIsDue, [Next]_vars
  PROVE  OutdatedIsDue'
<1>1. ASSUME NEW u \in User, NEW n \in Node, Calculate(u, n)
      PROVE  OutdatedIsDue'
  BY <1>1, CalculateIsDue
<1>2. ASSUME NEW u \in Manager, NEW n \in Node, Manage(u, n)
      PROVE  OutdatedIsDue'
  <2>1. u \in User
    OBVIOUS
  <2>2. ASSUME NEW ace \in Ace \cup {NoAce}, NEW inherited \in BOOLEAN,
               ApplyAcl(u, n, ace, inherited)
        PROVE  OutdatedIsDue'
    BY <2>1, <2>2, ApplyAclIsDue
  <2>3. ASSUME NEW f \in Folder, Move(u, n, f)
        PROVE  OutdatedIsDue'
    BY <2>1, <2>3, MoveIsDue
  <2> QED  BY <1>2, <2>1, <2>2, <2>3, DeleteIsDue, RestoreIsDue DEF Manage
<1>3. ASSUME NEW u \in User, Step(u) \/ ClearFails(u)
      PROVE  OutdatedIsDue'
  BY <1>3, ReadIsDue, PutIsDue, ClearIsDue DEF Step
<1>4. ASSUME NEW n \in Node, Expire(n)
      PROVE  OutdatedIsDue'
  BY <1>4, DropIsDue DEF Expire
<1>5. ASSUME NEW f \in Folder, ExpireTree(f)
      PROVE  OutdatedIsDue'
  BY <1>5, CalmIsDue DEF ExpireTree
<1>6. ASSUME NEW k \in tasks, RunClear(k)
      PROVE  OutdatedIsDue'
  <2>1. k \in Task /\ k.op = "clear"
    BY <1>6 DEF TypeOK, RunClear
  <2>2. k.node \in Node /\ k = [op |-> "clear", node |-> k.node]
    BY <2>1 DEF Task
  <2>3. UNCHANGED <<nodes, call>> /\ Drop(k.node) /\ tasks' = tasks \ {k}
    BY <1>6 DEF RunClear
  <2> QED  BY <2>2, <2>3, DropIsDue
<1>7. ASSUME NEW k \in tasks, RunDescend(k) \/ DescendFails(k)
      PROVE  OutdatedIsDue'
  BY <1>7, DescendIsDue
<1>8. CASE UNCHANGED vars
  BY <1>8, CalmIsDue DEF vars
<1> QED  BY <1>1, <1>2, <1>3, <1>4, <1>5, <1>6, <1>7, <1>8 DEF Next, Run

-----------------------------------------------------------------------------
(***************************************************************************)
(* Theorems                                                                *)
(***************************************************************************)

\* The tree stays a tree of folders with the root on top, and the cache and the
\* tasks hold nothing but ACLs and nodes, whatever is applied and moved.
THEOREM AclTypesKept == Spec => []TypeOK
<1>1. ASSUME Init  PROVE TypeOK
  <2>1. trees \in [Folder -> {Uncached} \cup SUBSET Node]
    <3>1. PICK back \in SUBSET (Folder \ {Root}) :
            trees = [f \in Folder |-> IF Children(f) \cap back = {} THEN Uncached
                                      ELSE Children(f) \ back]
      BY <1>1 DEF Init
    <3> QED  BY <3>1 DEF Children
  <2>2. call \in [User -> [op : {"none", "calculate", "put", "clear"}, node : Node, at : Node,
                           ace : Ace \cup {NoAce}]]
    BY <1>1, RestIsCall DEF Init
  <2>3. up[Root] = Root /\ inherits \in [Node -> BOOLEAN \cup {Unset}]
        /\ cached \in [Node -> Ace \cup {NoAce, Uncached}]
    BY <1>1 DEF Init, Node
  <2> QED  BY <1>1, <2>1, <2>2, <2>3 DEF Init, TypeOK
<1>2. TypeOK /\ [Next]_vars => TypeOK'
  BY TypesStay
<1> QED  BY <1>1, <1>2, PTL DEF Spec

\* An ACL in the cache that is no longer what the node and its ancestors say has
\* a clearing on its way to it, in every tree, with whatever its cached trees leave
\* out, and for every number of callers and of applyAcl in progress: unless it was
\* put late, the node or one above it was moved, deleted or restored, or a clearing
\* failed or did not find one of them listed.
THEOREM OutdatedIsCleared == Spec => []OutdatedIsDue
<1>1. Init => OutdatedIsDue
  BY DEF Init, OutdatedIsDue, Right
<1>2. TypeOK /\ TypeOK' /\ OutdatedIsDue /\ [Next]_vars => OutdatedIsDue'
  BY DueStays
<1> QED  BY <1>1, <1>2, AclTypesKept, PTL DEF Spec

=============================================================================
