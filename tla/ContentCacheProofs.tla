-------------------------- MODULE ContentCacheProofs --------------------------
(***************************************************************************)
(* Proofs about ContentCache, for every number of callers and of calls.    *)
(***************************************************************************)
EXTENDS ContentCache, FiniteSetTheorems, FunctionTheorems, WellFoundedInduction, TLAPS

USE ContentCacheAssumptions

-----------------------------------------------------------------------------
(***************************************************************************)
(* The inductive invariants                                                *)
(***************************************************************************)

\* The steps of a call that changes the content, from the change on.
Changing == {"change", "write", "cache", "event", "latest", "note", "mark", "rewrite",
             "recache"}

\* Those at which it knows the number of its change event.
Numbered == {"latest", "note", "mark", "rewrite", "recache"}

StepsOf(op) ==
  IF op = "none" THEN {"end"}
  ELSE IF op = "ask" THEN {"ask", "latest", "note"}
  ELSE IF op = "other" THEN {"event", "latest", "note"}
  ELSE IF op = "look" THEN {"get", "put"}
  ELSE IF op = "getObject" THEN {"lock", "get", "put"}
  ELSE {"lock", "get", "put"} \cup Changing

\* What a call holds and knows at each step.
Knows(c) ==
  /\ c \in Call
  /\ c.op = "none" => c = Rest
  /\ c.step \in StepsOf(c.op)
  /\ c.object # NoObject <=> c.step = "put" \/ (c.op \in Recorders /\ c.step \in Changing)
  /\ c.result # NoObject <=> c.step \in {"cache", "recache"}
  /\ c.token <= events
  /\ c.op \in Recorders /\ c.step \in Numbered => c.event \in 1..events
  /\ c.step = "note" => c.change \in Nat

Typed ==
  /\ stored \in [value : Nat, token : Nat, rev : Nat]
  /\ Referred \subseteq DOMAIN heap /\ heap \in [DOMAIN heap -> Node]
  /\ cached \in Object \cup {NoObject}
  /\ events \in Nat /\ latest \in Nat \cup {NoChange}
  /\ call \in [User -> Call] /\ \A u \in User : Knows(call[u])
  /\ budget \in 0..Budget /\ last \in Nat /\ used \subseteq 0..events
  /\ <<mixed, crossed, failed>> \in BOOLEAN \X BOOLEAN \X BOOLEAN

\* The lock keeps an update apart from the other calls that take it.
Exclusive == \A u, v \in User : u # v /\ Writing(u) => ~Writing(v) /\ ~Reading(v)

\* Unless two calls have used the content at once, one that changes it is the
\* only one that has an object of it.
Holds(u)   == call[u].object # NoObject
Records(u) == Holds(u) /\ call[u].op \in Recorders

Apart == ~mixed => \A u, v \in User : u # v /\ Records(u) => ~Holds(v)

\* No token that can still be compared with, or given out, has been used.
Unused(o) == o # NoObject => heap[o].token \notin used

UnusedBy(c) ==
  /\ Unused(c.object) /\ Unused(c.result)
  /\ c.op = "updateProperties" /\ c.step \in Changing \ {"change"} => c.token \notin used
  /\ c.op \in Recorders /\ c.step \in Numbered => c.event \notin used
  /\ c.op = "updateProperties" /\ c.step \in Numbered => c.token < c.event
  /\ c.step = "rewrite" => heap[c.object].token = c.event
  /\ c.step = "recache" => heap[c.result].token = c.event /\ stored.token = c.event

TokensUnused ==
  ~mixed =>
    /\ stored.token \notin used /\ Unused(cached)
    /\ \A u \in User : UnusedBy(call[u])

\* As long as no call has ended half-way either, only a call that changes the
\* content lets the cache, or the token, differ from what the node says.
True(o) == o # NoObject => heap[o] = Says(stored)

Coherent == stored.token = last /\ True(cached)

Settled(c) ==
  /\ c.step \in {"put", "change", "cache"} => True(c.object)
  /\ c.step = "change" => cached \in {NoObject, c.object}
  /\ c.step \in {"cache", "recache"} => True(c.result)
  /\ c.step = "write" => heap[c.object].token = stored.token
  /\ c.step = "write" /\ c.op = "updateProperties" => c.token = stored.token
  /\ c.step = "recache" => stored.token = last
  /\ c.op \in Recorders /\ c.step \in {"latest", "note", "mark"} => c.event = last
  /\ c.step = "rewrite" => heap[c.object].token = last

Underway(u) == call[u].op \in Recorders /\ call[u].step \in Changing \ {"change"}

AllSettled ==
  ~mixed /\ ~failed =>
    /\ Coherent \/ \E u \in User : Underway(u)
    /\ \A u \in User : Settled(call[u])

\* Unless two calls have gone through the latest change at once, the cached
\* one is the latest, or about to be replaced by it.
Current ==
  ~crossed =>
    /\ \A u \in User : Goes(u, "note") => call[u].change = events
    /\ ~failed => \/ latest \in {events, NoChange}
                  \/ events > 0 /\ \E u \in User : call[u].step \in {"latest", "note"}

-----------------------------------------------------------------------------
(***************************************************************************)
(* There is always room for a new object                                   *)
(***************************************************************************)

\* What a function names is not more than what it is defined on.
LEMMA NamedIsFinite ==
  ASSUME NEW S, IsFiniteSet(S), NEW f, f = [s \in S |-> f[s]]
  PROVE  LET T == {f[s] : s \in S} IN IsFiniteSet(T) /\ Cardinality(T) <= Cardinality(S)
<1> DEFINE T == {f[s] : s \in S}
<1>1. f \in Surjection(S, T)
  BY DEF Surjection
<1> HIDE DEF T
<1>2. IsFiniteSet(T) /\ Cardinality(T) <= Cardinality(S)
  BY <1>1, FS_Surjection
<1> QED  BY <1>2 DEF T

\* Every non-empty set of numbers has a least one.
LEMMA LeastExists ==
  ASSUME NEW T, T \subseteq Nat, T # {}
  PROVE  \E o \in T : \A p \in T : o <= p
<1> DEFINE R == OpToRel(<, Nat)
<1>1. IsWellFoundedOn(R, Nat)
  BY NatLessThanWellFounded
<1>2. \A x, y \in Nat : x < y => <<x, y>> \in R
  BY DEF OpToRel
<1> HIDE DEF R
<1>3. PICK x \in T : \A y \in T : ~ (<<y, x>> \in R)
  BY <1>1, WFMin
<1>4. ASSUME NEW p \in T
      PROVE  x <= p
  <2>1. x \in Nat /\ p \in Nat
    OBVIOUS
  <2>2. ~ (p < x)
    BY <1>2, <1>3, <2>1, Zenon
  <2> QED  BY <2>1, <2>2
<1> QED  BY <1>4

\* What is referred to: one object in the cache, at most one that each call has
\* and at most one that each of the others has had from the database.
LEMMA RoomForOne ==
  ASSUME Typed, NEW u \in User, call[u].result = NoObject
  PROVE  NewObject \in Object \ Referred
<1> DEFINE Others  == User \ {u}
           held    == [v \in User |-> call[v].object]
           given   == [v \in Others |-> call[v].result]
           Helds   == {held[v] : v \in User}
           Givens  == {given[v] : v \in Others}
<1>1. IsFiniteSet(User) /\ Cardinality(User) \in Nat
  BY FS_CardinalityType DEF ContentCacheAssumptions
<1>2. IsFiniteSet(Others) /\ Cardinality(Others) = Cardinality(User) - 1
  BY <1>1, FS_RemoveElement
<1>3. IsFiniteSet(Helds) /\ Cardinality(Helds) <= Cardinality(User)
  BY <1>1, NamedIsFinite
<1>4. IsFiniteSet(Givens) /\ Cardinality(Givens) <= Cardinality(User) - 1
  BY <1>2, NamedIsFinite
<1>5. Referred \subseteq {cached} \cup (Helds \cup Givens)
  BY DEF Referred, Typed
<1> HIDE DEF Helds, Givens
<1>6. IsFiniteSet({cached}) /\ Cardinality({cached}) = 1
  BY FS_Singleton
<1>7. /\ IsFiniteSet(Helds \cup Givens)
      /\ Cardinality(Helds \cup Givens) = Cardinality(Helds) + Cardinality(Givens)
                                            - Cardinality(Helds \cap Givens)
  BY <1>3, <1>4, FS_Union
<1>8. Cardinality(Helds) \in Nat /\ Cardinality(Givens) \in Nat
        /\ Cardinality(Helds \cap Givens) \in Nat /\ Cardinality(Helds \cup Givens) \in Nat
  <2>1. IsFiniteSet(Helds \cap Givens)
    BY <1>3, FS_Subset, Helds \cap Givens \in SUBSET Helds
  <2> QED  BY <1>3, <1>4, <1>7, <2>1, FS_CardinalityType
<1>9. Cardinality(Helds \cup Givens) <= 2 * Cardinality(User) - 1
  BY <1>1, <1>3, <1>4, <1>7, <1>8
<1> DEFINE Both == Helds \cup Givens
<1> HIDE DEF Both
<1>10. /\ IsFiniteSet({cached} \cup Both)
       /\ Cardinality({cached} \cup Both) = 1 + Cardinality(Both) - Cardinality({cached} \cap Both)
  <2>1. IsFiniteSet(Both)
    BY <1>7 DEF Both
  <2> QED  BY <1>6, <2>1, FS_Union
<1>11. Cardinality({cached} \cap Both) \in Nat /\ Cardinality({cached} \cup Both) \in Nat
  <2>1. IsFiniteSet({cached} \cap Both)
    BY <1>6, FS_Subset, {cached} \cap Both \in SUBSET {cached}
  <2> QED  BY <1>10, <2>1, FS_CardinalityType
<1>12. Cardinality({cached} \cup Both) <= 2 * Cardinality(User)
  <2>1. Cardinality(Both) \in Nat /\ Cardinality(Both) <= 2 * Cardinality(User) - 1
    BY <1>8, <1>9 DEF Both
  <2> QED  BY <1>1, <1>10, <1>11, <2>1
<1>13. Object \ Referred # {}
  <2>1. SUFFICES ASSUME Object \subseteq {cached} \cup Both
                 PROVE  FALSE
    BY <1>5 DEF Both
  <2>2. IsFiniteSet(Object) /\ Cardinality(Object) <= Cardinality({cached} \cup Both)
    BY <1>10, <2>1, FS_Subset
  <2>3. Cardinality(Object) \in Nat /\ Cardinality(Object) > 2 * Cardinality(User)
    BY <2>2, FS_CardinalityType DEF ContentCacheAssumptions
  <2> QED  BY <1>1, <1>11, <1>12, <2>2, <2>3
<1>14. \E o \in Object \ Referred : \A p \in Object \ Referred : o <= p
  BY <1>13, LeastExists DEF ContentCacheAssumptions
<1> QED  BY <1>14 DEF NewObject

-----------------------------------------------------------------------------
(***************************************************************************)
(* One call moves on, the others stay                                      *)
(***************************************************************************)

Moves(u, x) == call' = [call EXCEPT ![u] = x]

LEMMA MovesOne ==
  ASSUME Typed, NEW u \in User, NEW x, Moves(u, x)
  PROVE  call'[u] = x /\ \A v \in User \ {u} : call'[v] = call[v]
BY DEF Moves, Typed

\* What a call knows stays true as more is recorded.
LEMMA KnowsLater ==
  ASSUME NEW c, Knows(c), events \in Nat, events' \in Nat, events <= events'
  PROVE  Knows(c)'
BY DEF Knows, Call

LEMMA TypedMoves ==
  ASSUME Typed, NEW u \in User, NEW x, Moves(u, x), Knows(x)',
         events' \in Nat, events <= events',
         Referred \subseteq DOMAIN heap', heap' \in [DOMAIN heap' -> Node],
         {cached', x.object, x.result} \subseteq DOMAIN heap' \cup {NoObject},
         cached' \in Object \cup {NoObject},
         stored' \in [value : Nat, token : Nat, rev : Nat],
         latest' \in Nat \cup {NoChange}, budget' \in 0..Budget, last' \in Nat,
         used' \subseteq 0..events',
         <<mixed', crossed', failed'>> \in BOOLEAN \X BOOLEAN \X BOOLEAN
  PROVE  Typed'
<1>1. call'[u] = x /\ \A v \in User \ {u} : call'[v] = call[v]
  BY MovesOne
<1>2. ASSUME NEW v \in User
      PROVE  Knows(call[v])'
  <2>1. CASE v = u
    <3>1. PICK d : d = x
      OBVIOUS
    <3>2. Knows(d)'
      BY <3>1
    <3>3. call'[v] = d
      BY <1>1, <2>1, <3>1
    <3> QED  BY <3>2, <3>3 DEF Knows
  <2>2. CASE v # u
    <3>1. PICK d : d = call[v]
      OBVIOUS
    <3>2. Knows(d)'
      <4>1. Knows(d) /\ events \in Nat
        BY <3>1 DEF Typed
      <4> QED  BY <4>1, KnowsLater
    <3>3. call'[v] = d
      BY <1>1, <2>2, <3>1
    <3> QED  BY <3>2, <3>3 DEF Knows
  <2> QED  BY <2>1, <2>2
<1>3. call' \in [User -> Call]
  <2>1. x \in Call
    BY DEF Knows
  <2> QED  BY <2>1 DEF Typed, Moves
<1>4. Referred' \subseteq Referred \cup {cached', x.object, x.result}
  BY <1>1 DEF Referred
<1>5. Referred' \subseteq DOMAIN heap'
  BY <1>4 DEF Referred
<1> QED  BY <1>2, <1>3, <1>5 DEF Typed

\* Most steps change neither the cache nor the objects.
LEMMA TypedQuiet ==
  ASSUME Typed, NEW u \in User, NEW c, c = call[u], NEW x, Moves(u, x), Knows(x)',
         UNCHANGED <<stored, heap, cached, used>>,
         events' \in Nat, events <= events',
         x.object \in {c.object, cached, NoObject}, x.result \in {c.result, NoObject},
         latest' \in Nat \cup {NoChange}, budget' \in 0..Budget, last' \in Nat,
         <<mixed', crossed', failed'>> \in BOOLEAN \X BOOLEAN \X BOOLEAN
  PROVE  Typed'
<1>1. c \in Call
  BY DEF Typed
<1>2. {cached, c.object, c.result} \subseteq Referred \cup {NoObject}
  BY <1>1 DEF Referred, Call, Typed
<1>3. Referred \subseteq DOMAIN heap' /\ heap' \in [DOMAIN heap' -> Node]
  BY DEF Typed
<1>4. {cached', x.object, x.result} \subseteq DOMAIN heap' \cup {NoObject}
  BY <1>2, <1>3
<1>5. used' \subseteq 0..events'
  BY DEF Typed
<1>6. cached' \in Object \cup {NoObject} /\ stored' \in [value : Nat, token : Nat, rev : Nat]
  BY DEF Typed
<1> QED  BY <1>3, <1>4, <1>5, <1>6, TypedMoves

LEMMA ExclusiveMoves ==
  ASSUME Typed, Exclusive, NEW u \in User, NEW c, c = call[u], NEW x, Moves(u, x),
         \/ x.op \notin Locking
         \/ x.step = "lock"
         \/ x.op = c.op /\ c.step # "lock"
  PROVE  Exclusive'
<1>1. call'[u] = x /\ \A v \in User \ {u} : call'[v] = call[v]
  BY MovesOne
<1>2. \A v \in User : (Writing(v)' => Writing(v)) /\ (Reading(v)' => Reading(v))
  BY <1>1 DEF Writing, Reading, Goes, Locking
<1> QED  BY <1>2 DEF Exclusive

LEMMA ApartMoves ==
  ASSUME Typed, Apart, NEW u \in User, NEW c, c = call[u], NEW x, Moves(u, x),
         mixed' = mixed, x.object = NoObject \/ (x.op = c.op /\ c.object # NoObject)
  PROVE  Apart'
<1>1. call'[u] = x /\ \A v \in User \ {u} : call'[v] = call[v]
  BY MovesOne
<1>2. \A v \in User : (Holds(v)' => Holds(v)) /\ (Records(v)' => Records(v))
  BY <1>1 DEF Holds, Records
<1> QED  BY <1>2 DEF Apart

\* A call that gets an object finds no other one that changes it, and no other
\* one at all if it changes it: the lock or mixed says so.
LEMMA ApartMeets ==
  ASSUME Typed, Exclusive, Apart, NEW u \in User, NEW c, c = call[u], NEW x, Moves(u, x),
         x.object # NoObject => x.op = c.op, c.step = "get", Meets(u)
  PROVE  Apart'
<1>1. call'[u] = x /\ \A v \in User \ {u} : call'[v] = call[v]
  BY MovesOne
<1>2. SUFFICES ASSUME ~mixed', NEW v \in User, NEW w \in User, v # w,
                      Records(v)', Holds(w)'
               PROVE  FALSE
  BY DEF Apart
<1>3. ~mixed /\ \A y \in User \ {u} : Holds(y) => 
                   LET ops == {call[u].op, call[y].op} IN
                   ops \cap Recorders = {} \/ (ops \subseteq Locking /\ "updateProperties" \in ops)
  BY <1>2 DEF Meets, Holds
<1>4. ASSUME NEW y \in User \ {u}, Holds(y)
      PROVE  {call[u].op, call[y].op} \cap Recorders = {}
  <2>1. SUFFICES ASSUME {call[u].op, call[y].op} \subseteq Locking,
                        "updateProperties" \in {call[u].op, call[y].op}
                 PROVE  FALSE
    BY <1>3, <1>4
  <2>2. call[y].step # "lock"
    BY <1>4 DEF Typed, Knows, Holds, Changing
  <2>3. Writing(u) \/ Reading(u)
    BY <2>1 DEF Writing, Reading, Goes, Locking
  <2>4. Writing(y) \/ Reading(y)
    BY <2>1, <2>2 DEF Writing, Reading, Goes, Locking
  <2>5. Writing(u) \/ Writing(y)
    BY <2>1, <2>2 DEF Writing, Goes
  <2> QED  BY <2>3, <2>4, <2>5 DEF Exclusive
<1>5. CASE v # u /\ w # u
  BY <1>1, <1>2, <1>3, <1>5 DEF Apart, Records, Holds
<1>6. CASE v = u
  BY <1>1, <1>2, <1>4, <1>6 DEF Records, Holds
<1>7. CASE w = u
  BY <1>1, <1>2, <1>4, <1>7 DEF Records, Holds
<1> QED  BY <1>5, <1>6, <1>7

LEMMA OthersHaveNone ==
  ASSUME Apart, ~mixed, NEW u \in User, Records(u)
  PROVE  \A v \in User \ {u} : call[v].object = NoObject
BY DEF Apart, Holds

\* Only calls that change the content go through these steps, and they have it.
LEMMA ChangersOnly ==
  ASSUME NEW c, Knows(c),
         c.step \in {"change", "write", "cache", "mark", "rewrite", "recache"}
  PROVE  c.op \in Recorders /\ c.step \in Changing /\ c.object # NoObject
<1>1. c.op \in Recorders
  BY DEF Knows, StepsOf, Changing, Recorders, Call, AllCalls, Locking
<1>2. c.step \in Changing
  BY DEF Changing
<1> QED  BY <1>1, <1>2 DEF Knows

\* A call without an object has made nothing that could be undone.
LEMMA IdleSteps ==
  ASSUME NEW c, Knows(c), c.object = NoObject
  PROVE  /\ c.step \notin {"put", "change", "write", "cache", "mark", "rewrite", "recache"}
         /\ ~ (c.op \in Recorders /\ c.step \in Changing)
         /\ c.result = NoObject
<1>1. c.step \notin {"put", "change", "write", "cache", "mark", "rewrite", "recache"}
  BY ChangersOnly DEF Knows
<1> QED  BY <1>1 DEF Knows

LEMMA IdleIsUnused ==
  ASSUME NEW c, Knows(c), c.object = NoObject
  PROVE  UnusedBy(c)'
BY IdleSteps DEF UnusedBy, Unused, Changing, Numbered, Recorders

LEMMA IdleIsSettled ==
  ASSUME NEW c, Knows(c), c.object = NoObject
  PROVE  Settled(c)'
BY IdleSteps DEF Settled, Changing, Recorders

\* Nor is one undone whose objects stay as they are.
LEMMA UnusedKept ==
  ASSUME NEW c, Knows(c), UnusedBy(c),
         \A o \in {c.object, c.result} \ {NoObject} : heap'[o].token = heap[o].token,
         stored'.token = stored.token, used' = used
  PROVE  UnusedBy(c)'
<1>1. c.step = "rewrite" => c.object # NoObject
  BY ChangersOnly
<1>2. c.step = "recache" => c.result # NoObject
  BY DEF Knows
<1> QED  BY <1>1, <1>2 DEF UnusedBy, Unused

LEMMA SettledKept ==
  ASSUME NEW c, Knows(c), Settled(c),
         \A o \in {c.object, c.result} \ {NoObject} : heap'[o] = heap[o],
         stored' = stored, last' = last, c.step = "change" => cached' \in {cached, NoObject}
  PROVE  Settled(c)'
<1>1. c.step \in {"rewrite", "write", "change"} => c.object # NoObject
  BY ChangersOnly
<1>2. \A o \in {c.object, c.result} : True(o) => True(o)'
  BY DEF True, Says
<1> QED  BY <1>1, <1>2 DEF Settled

LEMMA TokensMoves ==
  ASSUME Typed, NEW u \in User, NEW x, Moves(u, x),
         ~mixed' => /\ stored'.token \notin used' /\ Unused(cached)' /\ UnusedBy(x)'
                    /\ \A v \in User \ {u} : \A d : d = call[v] => UnusedBy(d)'
  PROVE  TokensUnused'
<1>1. call'[u] = x /\ \A v \in User \ {u} : call'[v] = call[v]
  BY MovesOne
<1>2. ASSUME ~mixed', NEW v \in User
      PROVE  UnusedBy(call[v])'
  <2>1. PICK d : d = call'[v]
    OBVIOUS
  <2>2. UnusedBy(d)'
    BY <1>1, <1>2, <2>1
  <2> QED  BY <2>1, <2>2 DEF UnusedBy, Unused
<1> QED  BY <1>2 DEF TokensUnused

\* A step that leaves the tokens as they are.
LEMMA TokensQuiet ==
  ASSUME Typed, TokensUnused, NEW u \in User, NEW x, Moves(u, x),
         mixed => mixed', stored'.token = stored.token, used' = used,
         \A o \in Referred : heap'[o].token = heap[o].token,
         ~mixed' => Unused(cached)' /\ UnusedBy(x)'
  PROVE  TokensUnused'
<1>1. ASSUME ~mixed', NEW v \in User \ {u}, NEW d, d = call[v]
      PROVE  UnusedBy(d)'
  <2>1. Knows(d) /\ UnusedBy(d)
    BY <1>1 DEF Typed, TokensUnused
  <2>2. {d.object, d.result} \ {NoObject} \subseteq Referred
    BY <1>1, <2>1 DEF Referred, Knows, Call
  <2>3. \A o \in {d.object, d.result} \ {NoObject} : heap'[o].token = heap[o].token
    BY <2>2
  <2> QED  BY <2>1, <2>3, UnusedKept
<1>2. ~mixed' => stored'.token \notin used'
  BY DEF TokensUnused
<1> QED  BY <1>1, <1>2, TokensMoves

\* A step of a call that changes the content.
LEMMA TokensAlone ==
  ASSUME Typed, Apart, NEW u \in User, Records(u), NEW x, Moves(u, x), mixed' = mixed,
         ~mixed => stored'.token \notin used' /\ Unused(cached)' /\ UnusedBy(x)'
  PROVE  TokensUnused'
<1>1. ASSUME ~mixed', NEW v \in User \ {u}, NEW d, d = call[v]
      PROVE  UnusedBy(d)'
  <2>1. Knows(d) /\ d.object = NoObject
    BY <1>1, OthersHaveNone DEF Typed
  <2> QED  BY <2>1, IdleIsUnused
<1> QED  BY <1>1, TokensMoves

LEMMA UnderwayStays ==
  ASSUME Typed, NEW u \in User, NEW x, Moves(u, x), NEW v \in User \ {u}
  PROVE  Underway(v)' <=> Underway(v)
<1>1. call'[v] = call[v]
  BY MovesOne
<1> QED  BY <1>1 DEF Underway

LEMMA SettledMoves ==
  ASSUME Typed, NEW u \in User, NEW x, Moves(u, x),
         ~mixed' /\ ~failed' =>
           /\ Coherent' \/ \E v \in User : Underway(v)'
           /\ Settled(x)' /\ \A v \in User \ {u} : \A d : d = call[v] => Settled(d)'
  PROVE  AllSettled'
<1>1. call'[u] = x /\ \A v \in User \ {u} : call'[v] = call[v]
  BY MovesOne
<1>2. ASSUME ~mixed', ~failed', NEW v \in User
      PROVE  Settled(call[v])'
  <2>1. PICK d : d = call'[v]
    OBVIOUS
  <2>2. Settled(d)'
    BY <1>1, <1>2, <2>1
  <2> QED  BY <2>1, <2>2 DEF Settled, True
<1> QED  BY <1>2 DEF AllSettled

\* A step that leaves the node and the objects as they are.
LEMMA SettledQuiet ==
  ASSUME Typed, AllSettled, NEW u \in User, NEW x, Moves(u, x),
         mixed => mixed', failed => failed',
         UNCHANGED <<stored, last, cached>>, \A o \in Referred : heap'[o] = heap[o],
         ~mixed' /\ ~failed' => Settled(x)',
         Underway(u) => Underway(u)'
  PROVE  AllSettled'
<1>1. ASSUME ~mixed', ~failed', NEW v \in User \ {u}, NEW d, d = call[v]
      PROVE  Settled(d)'
  <2>1. Knows(d) /\ Settled(d)
    BY <1>1 DEF Typed, AllSettled
  <2>2. {d.object, d.result} \ {NoObject} \subseteq Referred
    BY <1>1, <2>1 DEF Referred, Knows, Call
  <2>3. \A o \in {d.object, d.result} \ {NoObject} : heap'[o] = heap[o]
    BY <2>2
  <2> QED  BY <2>1, <2>3, SettledKept
<1>2. Coherent => Coherent'
  <2>1. cached # NoObject => cached \in Referred
    BY DEF Referred, Typed
  <2> QED  BY <2>1 DEF Coherent, True, Says
<1>3. \A v \in User : Underway(v) => Underway(v)'
  BY UnderwayStays
<1>4. ~mixed' /\ ~failed' => Coherent' \/ \E v \in User : Underway(v)'
  BY <1>2, <1>3 DEF AllSettled
<1> QED  BY <1>1, <1>4, SettledMoves

LEMMA SettledAlone ==
  ASSUME Typed, Apart, NEW u \in User, Records(u), NEW x, Moves(u, x), mixed' = mixed,
         ~mixed' /\ ~failed' => Settled(x)' /\ (Coherent' \/ Underway(u)')
  PROVE  AllSettled'
<1>1. ASSUME ~mixed', NEW v \in User \ {u}, NEW d, d = call[v]
      PROVE  Settled(d)'
  <2>1. Knows(d) /\ d.object = NoObject
    BY <1>1, OthersHaveNone DEF Typed
  <2> QED  BY <2>1, IdleIsSettled
<1>2. ~mixed' /\ ~failed' => Coherent' \/ \E v \in User : Underway(v)'
  OBVIOUS
<1> QED  BY <1>1, <1>2, SettledMoves

\* A call that is not going through the latest change.
LEMMA CurrentMoves ==
  ASSUME Typed, Current, NEW u \in User, NEW c, c = call[u], NEW x, Moves(u, x),
         c.step \notin {"latest", "note"}, x.step # "note",
         UNCHANGED <<events, latest, crossed, failed>>
  PROVE  Current'
<1>1. call'[u] = x /\ \A v \in User \ {u} : call'[v] = call[v]
  BY MovesOne
<1>2. \A v \in User : call[v].step \in {"latest", "note"} => call'[v].step \in {"latest", "note"}
  BY <1>1
<1>3. \A v \in User : Goes(v, "note")' => Goes(v, "note") /\ call'[v].change = call[v].change
  BY <1>1 DEF Goes
<1> QED  BY <1>2, <1>3 DEF Current

-----------------------------------------------------------------------------
(***************************************************************************)
(* Every step keeps the invariants                                         *)
(***************************************************************************)

Sound == Typed /\ Exclusive /\ Apart /\ TokensUnused /\ AllSettled /\ Current

LEMMA RestKnows ==
  ASSUME events \in Nat
  PROVE  Knows(Rest) /\ Rest \in Call /\ Rest.object = NoObject /\ Rest.result = NoObject
           /\ Rest.op = "none" /\ Rest.step = "end"
BY DEF Knows, Rest, Call, StepsOf, Recorders

\* The call that ends.
LEMMA RestIsIdle ==
  ASSUME events \in Nat, events' \in Nat, events <= events'
  PROVE  Knows(Rest)' /\ UnusedBy(Rest)' /\ Settled(Rest)'
<1>1. PICK d : d = Rest
  OBVIOUS
<1>2. Knows(d) /\ d.object = NoObject
  BY <1>1, RestKnows
<1>3. Knows(d)'
  BY <1>2, KnowsLater
<1>4. UnusedBy(d)' /\ Settled(d)'
  BY <1>2, IdleIsUnused, IdleIsSettled
<1> QED  BY <1>1, <1>3, <1>4 DEF Knows, UnusedBy, Settled, Rest

\* A step of a call that reads and changes nothing of the content but its own
\* place, on the way or at the end.
LEMMA QuietKeeps ==
  ASSUME Typed, TokensUnused, AllSettled, NEW u \in User, NEW c, c = call[u], NEW x,
         Moves(u, x), Knows(x)', ~mixed => UnusedBy(x)', ~mixed /\ ~failed => Settled(x)',
         UNCHANGED <<stored, heap, cached, events, last, used, mixed, crossed>>,
         x.object \in {c.object, NoObject}, x.result \in {c.result, NoObject},
         latest' \in Nat \cup {NoChange}, budget' \in 0..Budget,
         failed' \in BOOLEAN, failed => failed', ~failed' /\ Underway(u) => Underway(u)'
  PROVE  Typed' /\ TokensUnused' /\ AllSettled'
<1>1. Typed'
  <2>1. events' \in Nat /\ events <= events' /\ last' \in Nat
          /\ <<mixed', crossed', failed'>> \in BOOLEAN \X BOOLEAN \X BOOLEAN
    BY DEF Typed
  <2> QED  BY <2>1, TypedQuiet
<1>2. TokensUnused'
  <2>1. ~mixed => Unused(cached)'
    BY DEF TokensUnused, Unused
  <2> QED  BY <2>1, TokensQuiet
<1>3. AllSettled'
  <2>1. CASE failed'
    BY <2>1 DEF AllSettled
  <2>2. CASE ~failed'
    BY <2>2, SettledQuiet
  <2> QED  BY <2>1, <2>2
<1> QED  BY <1>1, <1>2, <1>3

\* The same for the call that ends there.
LEMMA EndKeeps ==
  ASSUME Typed, TokensUnused, AllSettled, Exclusive, Apart, NEW u \in User, Moves(u, Rest),
         UNCHANGED <<stored, heap, cached, events, last, used, mixed, crossed>>,
         latest' \in Nat \cup {NoChange}, budget' \in 0..Budget,
         failed' \in BOOLEAN, failed => failed', ~failed' => ~Underway(u)
  PROVE  Typed' /\ TokensUnused' /\ AllSettled' /\ Exclusive' /\ Apart'
<1>1. PICK c : c = call[u]
  OBVIOUS
<1>2. PICK x : x = Rest
  OBVIOUS
<1>3. Moves(u, x)
  BY <1>2 DEF Moves
<1>4. x.object = NoObject /\ x.result = NoObject /\ x.op = "none"
  BY <1>2, RestKnows DEF Typed
<1>5. Knows(x) /\ Knows(x)'
  <2>1. Knows(x) /\ events \in Nat
    BY <1>2, RestKnows DEF Typed
  <2> QED  BY <2>1, KnowsLater
<1>6. UnusedBy(x)' /\ Settled(x)'
  BY <1>4, <1>5, IdleIsUnused, IdleIsSettled
<1>7. Typed' /\ TokensUnused' /\ AllSettled'
  BY <1>1, <1>3, <1>4, <1>5, <1>6, QuietKeeps
<1>8. Exclusive'
  BY <1>1, <1>3, <1>4, ExclusiveMoves DEF Locking
<1>9. Apart'
  BY <1>1, <1>3, <1>4, ApartMoves
<1> QED  BY <1>7, <1>8, <1>9

LEMMA SendKeeps ==
  ASSUME Sound, NEW u \in User, NEW op \in AllCalls, NEW token \in 0..events,
         Send(u, op, token)
  PROVE  Sound'
<1>1. Typed /\ Exclusive /\ Apart /\ TokensUnused /\ AllSettled /\ Current
  BY DEF Sound
<1>2. PICK c : c = call[u]
  OBVIOUS
<1>3. c = Rest
  BY <1>1, <1>2 DEF Send, Busy, Typed, Knows
<1>4. PICK x : x = [Rest EXCEPT !.op = op, !.token = token,
                      !.step = CASE op \in Locking -> "lock"
                                 [] op = "other" -> "event"
                                 [] op = "ask" -> "ask"
                                 [] OTHER -> "get"]
  OBVIOUS
<1>5. /\ x \in Call /\ x.op = op /\ x.token = token
      /\ x.object = NoObject /\ x.result = NoObject
      /\ op \in Locking => x.step = "lock"
      /\ op = "other" => x.step = "event"
      /\ op = "ask" => x.step = "ask"
      /\ op \notin Locking \cup {"other", "ask"} => x.step = "get"
  <2>1. op \in Locking => op \notin {"other", "ask"}
    BY DEF Locking
  <2>2. token \in Nat
    BY <1>1 DEF Typed
  <2> QED  BY <1>4, <2>1, <2>2 DEF Rest, Call
<1>6. Moves(u, x)
  <2>1. x.step # "end"
    BY <1>5
  <2> QED  BY <1>4, <2>1 DEF Send, Set, Moves
<1>7. Knows(x) /\ Knows(x)'
  <2>1. op \in {"updateProperties", "applyAcl", "getObject", "look", "other", "ask"}
    BY DEF AllCalls, Locking, Recorders
  <2>2. x.step \in StepsOf(op) /\ x.step \in {"lock", "event", "ask", "get"}
    BY <1>5, <2>1 DEF StepsOf, Locking
  <2>3. x.op # "none" /\ token <= events /\ (op \in Recorders => x.step = "lock")
    BY <1>1, <1>5, <2>1 DEF Typed, Recorders, Locking
  <2>4. Knows(x)
    BY <1>5, <2>2, <2>3 DEF Knows, Numbered, Changing
  <2>5. events \in Nat /\ events' = events
    BY <1>1 DEF Send, Typed
  <2> QED  BY <2>4, <2>5, KnowsLater
<1>8. UnusedBy(x)' /\ Settled(x)'
  BY <1>5, <1>7, IdleIsUnused, IdleIsSettled
<1>9. Typed' /\ TokensUnused' /\ AllSettled'
  <2>1. /\ UNCHANGED <<stored, heap, cached, events, last, used, mixed, crossed>>
        /\ latest' \in Nat \cup {NoChange} /\ budget' \in 0..Budget
        /\ failed' \in BOOLEAN /\ failed' = failed
    BY <1>1 DEF Send, Typed, Tracks
  <2>2. ~Underway(u)
    BY <1>2, <1>3 DEF Underway, Rest, Recorders
  <2> QED  BY <1>1, <1>2, <1>5, <1>6, <1>7, <1>8, <2>1, <2>2, QuietKeeps
<1>10. Exclusive'
  BY <1>1, <1>2, <1>5, <1>6, ExclusiveMoves
<1>11. Apart'
  BY <1>1, <1>2, <1>5, <1>6, ApartMoves DEF Send, Tracks
<1>12. Current'
  <2>1. c.step = "end" /\ x.step # "note" /\ UNCHANGED <<events, latest, crossed, failed>>
    BY <1>3, <1>5 DEF Send, Tracks, Rest
  <2> QED  BY <1>1, <1>2, <1>6, <2>1, CurrentMoves
<1> QED  BY <1>9, <1>10, <1>11, <1>12 DEF Sound

LEMMA LockKeeps ==
  ASSUME Sound, NEW u \in User, Lock(u)
  PROVE  Sound'
<1>1. Typed /\ Exclusive /\ Apart /\ TokensUnused /\ AllSettled /\ Current
  BY DEF Sound
<1>2. PICK c : c = call[u]
  OBVIOUS
<1>3. Knows(c) /\ c \in Call /\ c.step = "lock" /\ c.object = NoObject /\ c.result = NoObject
  BY <1>1, <1>2 DEF Typed, Knows, Lock, Goes, Changing
<1>4. PICK x : x = [c EXCEPT !.step = "get"]
  OBVIOUS
<1>5. /\ x \in Call /\ x.op = c.op /\ x.token = c.token /\ x.step = "get"
      /\ x.object = NoObject /\ x.result = NoObject
  BY <1>3, <1>4 DEF Call
<1>6. Moves(u, x)
  BY <1>2, <1>4, <1>5 DEF Lock, Set, Moves
<1>7. Knows(x) /\ Knows(x)'
  <2>1. x.op # "none" /\ x.step \in StepsOf(x.op)
    BY <1>3, <1>5 DEF Knows, StepsOf, Rest
  <2>2. Knows(x)
    BY <1>3, <1>5, <2>1 DEF Knows, Numbered, Changing
  <2>3. events \in Nat /\ events' = events
    BY <1>1 DEF Lock, Typed
  <2> QED  BY <2>2, <2>3, KnowsLater
<1>8. UnusedBy(x)' /\ Settled(x)'
  BY <1>5, <1>7, IdleIsUnused, IdleIsSettled
<1>9. Typed' /\ TokensUnused' /\ AllSettled'
  <2>1. /\ UNCHANGED <<stored, heap, cached, events, last, used, mixed, crossed>>
        /\ latest' \in Nat \cup {NoChange} /\ budget' \in 0..Budget
        /\ failed' \in BOOLEAN /\ failed' = failed
    BY <1>1 DEF Lock, Typed, Tracks
  <2>2. ~Underway(u)
    BY <1>2, <1>3 DEF Underway, Changing
  <2> QED  BY <1>1, <1>2, <1>3, <1>5, <1>6, <1>7, <1>8, <2>1, <2>2, QuietKeeps
<1>10. Exclusive'
  <2>1. call'[u] = x /\ \A v \in User \ {u} : call'[v] = call[v]
    BY <1>1, <1>6, MovesOne
  <2>2. \A v \in User \ {u} : (Writing(v)' <=> Writing(v)) /\ (Reading(v)' <=> Reading(v))
    BY <2>1 DEF Writing, Reading, Goes
  <2>3. Writing(u)' => c.op = "updateProperties"
    BY <1>5, <2>1 DEF Writing
  <2>4. \A v \in User \ {u} : ~Writing(v) /\ (c.op = "updateProperties" => ~Reading(v))
    BY <1>2 DEF Lock, MayLock
  <2> QED  BY <1>1, <2>2, <2>3, <2>4 DEF Exclusive
<1>11. Apart'
  BY <1>1, <1>2, <1>5, <1>6, ApartMoves DEF Lock, Tracks
<1>12. Current'
  <2>1. c.step = "lock" /\ x.step # "note" /\ UNCHANGED <<events, latest, crossed, failed>>
    BY <1>3, <1>5 DEF Lock, Tracks
  <2> QED  BY <1>1, <1>2, <1>6, <2>1, CurrentMoves
<1> QED  BY <1>9, <1>10, <1>11, <1>12 DEF Sound

\* What Has makes of a call.
GoesOn(c, o, x) ==
  \/ x = Rest
  \/ /\ x \in Call /\ x.op = c.op /\ x.step = "change" /\ x.object = o
     /\ x.result = NoObject /\ x.token = c.token /\ c.op \in Recorders

LEMMA HasMoves ==
  ASSUME Typed, NEW u \in User, NEW c, c = call[u], c.op \in Recorders \cup {"getObject", "look"},
         NEW o \in Object, Set(u, Has(c, o)), events' = events, c.step \in {"get", "put"}
  PROVE  \E x : Moves(u, x) /\ Knows(x)' /\ GoesOn(c, o, x)
<1>1. Knows(c) /\ c \in Call /\ c.result = NoObject /\ events \in Nat
  BY DEF Typed, Knows
<1>2. CASE c.op \in {"getObject", "look"}
  <2>1. Has(c, o) = [c EXCEPT !.object = o, !.step = "end"]
    BY <1>2 DEF Has
  <2>2. Has(c, o).step = "end"
    BY <1>1, <2>1 DEF Call
  <2>3. Moves(u, Rest)
    BY <2>2 DEF Set, Moves
  <2>4. Knows(Rest)'
    BY <1>1, RestIsIdle
  <2> QED  BY <2>3, <2>4 DEF GoesOn
<1>3. CASE c.op \in Recorders
  <2>1. c.op \notin {"getObject", "look"}
    BY <1>3 DEF Recorders
  <2>2. PICK x : x = [c EXCEPT !.object = o, !.step = "change"]
    OBVIOUS
  <2>3. Has(c, o) = x
    BY <2>1, <2>2 DEF Has
  <2>4. /\ x \in Call /\ x.op = c.op /\ x.step = "change" /\ x.object = o
        /\ x.result = NoObject /\ x.token = c.token
    BY <1>1, <2>2 DEF Call
  <2>5. Moves(u, x)
    BY <2>3, <2>4 DEF Set, Moves
  <2>6. Knows(x)'
    <3>1. x.step \in StepsOf(x.op) /\ x.op # "none" /\ x.step \in Changing
      BY <1>3, <2>4 DEF StepsOf, Changing, Recorders
    <3>2. o # NoObject /\ c.token <= events
      BY <1>1 DEF Knows, ContentCacheAssumptions
    <3>3. Knows(x)
      BY <1>3, <2>4, <3>1, <3>2 DEF Knows, Numbered
    <3> QED  BY <1>1, <3>3, KnowsLater
  <2> QED  BY <1>3, <2>4, <2>5, <2>6 DEF GoesOn
<1> QED  BY <1>2, <1>3

LEMMA HitKeeps ==
  ASSUME Sound, NEW u \in User, Hit(u)
  PROVE  Sound'
<1>1. Typed /\ Exclusive /\ Apart /\ TokensUnused /\ AllSettled /\ Current
  BY DEF Sound
<1>2. PICK c : c = call[u]
  OBVIOUS
<1>3. PICK o : o = cached
  OBVIOUS
<1>4. /\ Knows(c) /\ c \in Call /\ c.step = "get" /\ c.object = NoObject /\ c.result = NoObject
      /\ o \in Object /\ o # NoObject /\ c.op \in Recorders \cup {"getObject", "look"}
  BY <1>1, <1>2, <1>3 DEF Typed, Knows, Hit, Goes, Changing, StepsOf, Call, AllCalls, Locking, Recorders
<1>4a. PICK x : Moves(u, x) /\ Knows(x)' /\ GoesOn(c, o, x)
  <2>1. Set(u, Has(c, o)) /\ events' = events
    BY <1>2, <1>3 DEF Hit
  <2> QED  BY <1>1, <1>2, <1>4, <2>1, HasMoves
<1>5. /\ Moves(u, x) /\ Knows(x)'
      /\ x = Rest \/ /\ x \in Call /\ x.op = c.op /\ x.step = "change" /\ x.object = o
                     /\ x.result = NoObject /\ x.token = c.token /\ c.op \in Recorders
  BY <1>4a DEF GoesOn
<1>6. /\ UNCHANGED <<stored, heap, cached, events, latest, budget, last, used, crossed, failed>>
      /\ Meets(u) /\ mixed' \in BOOLEAN /\ (mixed => mixed')
  BY <1>1 DEF Hit, Meets, Typed
<1>7. Rest.object = NoObject /\ Rest.result = NoObject /\ Rest.op = "none" /\ Rest.step = "end"
        /\ UnusedBy(Rest)' /\ Settled(Rest)'
  BY <1>1, <1>6, RestKnows, RestIsIdle DEF Typed
<1>8. Typed'
  <2>1. /\ events' \in Nat /\ events <= events' /\ latest' \in Nat \cup {NoChange}
        /\ budget' \in 0..Budget /\ last' \in Nat
        /\ <<mixed', crossed', failed'>> \in BOOLEAN \X BOOLEAN \X BOOLEAN
    BY <1>1, <1>6 DEF Typed
  <2>2. x.object \in {c.object, cached, NoObject} /\ x.result \in {c.result, NoObject}
    BY <1>3, <1>5, <1>7
  <2> QED  BY <1>1, <1>2, <1>5, <1>6, <2>1, <2>2, TypedQuiet
<1>9. Exclusive'
  BY <1>1, <1>2, <1>4, <1>5, <1>7, ExclusiveMoves DEF Locking
<1>10. Apart'
  BY <1>1, <1>2, <1>4, <1>5, <1>6, <1>7, ApartMeets
<1>11. TokensUnused'
  <2>1. ~mixed' => Unused(cached)'
    BY <1>1, <1>6 DEF TokensUnused, Unused
  <2>2. ~mixed' => UnusedBy(x)'
    <3>1. CASE x = Rest
      BY <1>7, <3>1
    <3>2. CASE x # Rest
      BY <1>3, <1>5, <1>6, <2>1, <3>2 DEF UnusedBy, Unused, Numbered
    <3> QED  BY <3>1, <3>2
  <2> QED  BY <1>1, <1>5, <1>6, <2>1, <2>2, TokensQuiet
<1>12. AllSettled'
  <2>1. ~Underway(u)
    BY <1>2, <1>4 DEF Underway, Changing
  <2>2. ASSUME ~mixed', ~failed', x # Rest
        PROVE  Settled(x)'
    <3>1. call'[u] = x /\ \A v \in User \ {u} : call'[v] = call[v]
      BY <1>1, <1>5, MovesOne
    <3>2. Records(u)' /\ o # NoObject
      BY <1>4, <1>5, <2>2, <3>1 DEF Records, Holds
    <3>3. ASSUME NEW w \in User, Underway(w)
          PROVE  FALSE
      <4>1. w # u
        BY <2>1, <3>3
      <4>2. call[w].object # NoObject
        BY <1>1, <3>3 DEF Underway, Typed, Knows
      <4>3. Holds(w)'
        BY <3>1, <4>1, <4>2 DEF Holds
      <4> QED  BY <1>10, <2>2, <3>2, <4>1, <4>3 DEF Apart
    <3>4. True(o)
      BY <1>1, <1>3, <1>6, <2>2, <3>3 DEF AllSettled, Coherent
    <3> QED  BY <1>3, <1>5, <1>6, <2>2, <3>4 DEF Settled, True, Says
  <2>3. ~mixed' /\ ~failed' => Settled(x)'
    BY <1>7, <2>2
  <2>4. \A p \in Referred : heap'[p] = heap[p]
    BY <1>6
  <2> QED  BY <1>1, <1>5, <1>6, <2>1, <2>3, <2>4, SettledQuiet
<1>13. Current'
  BY <1>1, <1>2, <1>4, <1>5, <1>6, <1>7, CurrentMoves
<1> QED  BY <1>8, <1>9, <1>10, <1>11, <1>12, <1>13 DEF Sound

\* What a new object is.
LEMMA MakesNew ==
  ASSUME Typed, NEW u \in User, call[u].result = NoObject, NEW n \in Node, Makes(n)
  PROVE  \E o \in Object : /\ o = NewObject /\ o # NoObject /\ heap'[o] = n
                           /\ DOMAIN heap' = Referred \cup {o}
                           /\ heap' \in [DOMAIN heap' -> Node]
                           /\ \A p \in Referred : heap'[p] = heap[p]
<1>1. PICK o \in Object \ Referred : o = NewObject
  BY RoomForOne
<1>2. heap' = [p \in Referred \cup {o} |-> IF p = o THEN n ELSE heap[p]]
  BY <1>1 DEF Makes
<1>3. Referred \subseteq DOMAIN heap /\ heap \in [DOMAIN heap -> Node]
  BY DEF Typed
<1>4. \A p \in Referred : heap[p] \in Node
  BY <1>3
<1>5. o # NoObject
  BY <1>1 DEF ContentCacheAssumptions
<1> QED  BY <1>1, <1>2, <1>4, <1>5

LEMMA MissKeeps ==
  ASSUME Sound, NEW u \in User, Miss(u)
  PROVE  Sound'
<1>1. Typed /\ Exclusive /\ Apart /\ TokensUnused /\ AllSettled /\ Current
  BY DEF Sound
<1>2. PICK c : c = call[u]
  OBVIOUS
<1>3. PICK n : n = Says(stored)
  OBVIOUS
<1>4. /\ Knows(c) /\ c \in Call /\ c.step = "get" /\ c.object = NoObject /\ c.result = NoObject
      /\ n \in Node /\ c.op \in Recorders \cup {"getObject", "look"}
  BY <1>1, <1>2, <1>3
     DEF Typed, Knows, Miss, Goes, Changing, StepsOf, Call, AllCalls, Locking, Recorders, Says, Node
<1>5. PICK o \in Object : /\ o = NewObject /\ o # NoObject /\ heap'[o] = n
                          /\ DOMAIN heap' = Referred \cup {o}
                          /\ heap' \in [DOMAIN heap' -> Node]
                          /\ \A p \in Referred : heap'[p] = heap[p]
  <2>1. Makes(n) /\ call[u].result = NoObject
    BY <1>2, <1>3, <1>4 DEF Miss
  <2> QED  BY <1>1, <1>4, <2>1, MakesNew
<1>6. PICK x : x = [c EXCEPT !.object = o, !.step = "put"]
  OBVIOUS
<1>7. /\ x \in Call /\ x.op = c.op /\ x.token = c.token /\ x.step = "put"
      /\ x.object = o /\ x.result = NoObject
  BY <1>4, <1>6 DEF Call
<1>8. Moves(u, x)
  BY <1>2, <1>5, <1>6, <1>7 DEF Miss, Set, Moves
<1>9. /\ UNCHANGED <<stored, cached, events, latest, budget, last, used, crossed, failed>>
      /\ Meets(u) /\ mixed' \in BOOLEAN /\ (mixed => mixed') /\ cached = NoObject
  BY <1>1 DEF Miss, Meets, Typed
<1>10. Knows(x)'
  <2>1. x.step \in StepsOf(x.op) /\ x.op # "none"
    BY <1>4, <1>7 DEF StepsOf, Recorders
  <2>2. Knows(x)
    BY <1>4, <1>5, <1>7, <2>1 DEF Knows, Changing, Numbered
  <2>3. events \in Nat /\ events' = events
    BY <1>1, <1>9 DEF Typed
  <2> QED  BY <2>2, <2>3, KnowsLater
<1>11. Typed'
  <2>1. /\ events' \in Nat /\ events <= events' /\ latest' \in Nat \cup {NoChange}
        /\ stored' \in [value : Nat, token : Nat, rev : Nat]
        /\ budget' \in 0..Budget /\ last' \in Nat /\ used' \subseteq 0..events'
        /\ <<mixed', crossed', failed'>> \in BOOLEAN \X BOOLEAN \X BOOLEAN
    BY <1>1, <1>9 DEF Typed
  <2>2. /\ Referred \subseteq DOMAIN heap' /\ cached' \in Object \cup {NoObject}
        /\ {cached', x.object, x.result} \subseteq DOMAIN heap' \cup {NoObject}
    BY <1>5, <1>7, <1>9
  <2> QED  BY <1>1, <1>5, <1>8, <1>10, <2>1, <2>2, TypedMoves
<1>12. Exclusive'
  BY <1>1, <1>2, <1>4, <1>7, <1>8, ExclusiveMoves
<1>13. Apart'
  BY <1>1, <1>2, <1>4, <1>7, <1>8, <1>9, ApartMeets
<1>14. TokensUnused'
  <2>1. ~mixed' => Unused(cached)'
    BY <1>9 DEF Unused
  <2>2. ~mixed' => UnusedBy(x)'
    <3>1. ~mixed' => stored.token \notin used
      BY <1>1, <1>9 DEF TokensUnused
    <3>2. heap'[o].token = stored.token
      BY <1>3, <1>5 DEF Says
    <3> QED  BY <1>7, <1>9, <3>1, <3>2 DEF UnusedBy, Unused, Numbered, Changing
  <2>3. \A p \in Referred : heap'[p].token = heap[p].token
    BY <1>5
  <2>4. stored'.token = stored.token /\ used' = used
    BY <1>9
  <2> QED  BY <1>1, <1>8, <1>9, <2>1, <2>2, <2>3, <2>4, TokensQuiet
<1>15. AllSettled'
  <2>1. ~Underway(u)
    BY <1>2, <1>4 DEF Underway, Changing
  <2>2. Settled(x)'
    BY <1>3, <1>5, <1>7, <1>9 DEF Settled, True, Says
  <2> QED  BY <1>1, <1>5, <1>8, <1>9, <2>1, <2>2, SettledQuiet
<1>16. Current'
  BY <1>1, <1>2, <1>4, <1>7, <1>8, <1>9, CurrentMoves
<1> QED  BY <1>11, <1>12, <1>13, <1>14, <1>15, <1>16 DEF Sound

LEMMA PutKeeps ==
  ASSUME Sound, NEW u \in User, Put(u)
  PROVE  Sound'
<1>1. Typed /\ Exclusive /\ Apart /\ TokensUnused /\ AllSettled /\ Current
  BY DEF Sound
<1>2. PICK c : c = call[u]
  OBVIOUS
<1>3. PICK o : o = c.object
  OBVIOUS
<1>4. /\ Knows(c) /\ c \in Call /\ c.step = "put" /\ c.result = NoObject
      /\ o \in Object /\ o # NoObject /\ c.op \in Recorders \cup {"getObject", "look"}
  BY <1>1, <1>2, <1>3
     DEF Typed, Knows, Put, Goes, Changing, StepsOf, Call, AllCalls, Locking, Recorders
<1>5. PICK x : Moves(u, x) /\ Knows(x)' /\ GoesOn(c, o, x)
  <2>1. Set(u, Has(c, o)) /\ events' = events
    BY <1>2, <1>3 DEF Put
  <2> QED  BY <1>1, <1>2, <1>4, <2>1, HasMoves
<1>6. /\ x = Rest \/ /\ x \in Call /\ x.op = c.op /\ x.step = "change" /\ x.object = o
                     /\ x.result = NoObject /\ x.token = c.token /\ c.op \in Recorders
  BY <1>5 DEF GoesOn
<1>7. /\ UNCHANGED <<stored, heap, events, latest, budget, last, used, mixed, crossed, failed>>
      /\ cached' = o
  BY <1>2, <1>3 DEF Put, Tracks
<1>8. Rest.object = NoObject /\ Rest.result = NoObject /\ Rest.op = "none" /\ Rest.step = "end"
        /\ UnusedBy(Rest)' /\ Settled(Rest)'
  BY <1>1, <1>7, RestKnows, RestIsIdle DEF Typed
<1>9. Typed'
  <2>1. /\ events' \in Nat /\ events <= events' /\ latest' \in Nat \cup {NoChange}
        /\ stored' \in [value : Nat, token : Nat, rev : Nat]
        /\ budget' \in 0..Budget /\ last' \in Nat /\ used' \subseteq 0..events'
        /\ <<mixed', crossed', failed'>> \in BOOLEAN \X BOOLEAN \X BOOLEAN
    BY <1>1, <1>7 DEF Typed
  <2>2. o \in Referred
    BY <1>2, <1>3, <1>4 DEF Referred
  <2>3. Referred \subseteq DOMAIN heap' /\ heap' \in [DOMAIN heap' -> Node]
    BY <1>1, <1>7 DEF Typed
  <2>4. /\ cached' \in Object \cup {NoObject}
        /\ {cached', x.object, x.result} \subseteq DOMAIN heap' \cup {NoObject}
    BY <1>4, <1>6, <1>7, <1>8, <2>2, <2>3
  <2> QED  BY <1>1, <1>5, <2>1, <2>3, <2>4, TypedMoves
<1>10. Exclusive'
  BY <1>1, <1>2, <1>4, <1>5, <1>6, <1>8, ExclusiveMoves DEF Locking
<1>11. Apart'
  BY <1>1, <1>2, <1>3, <1>4, <1>5, <1>6, <1>7, <1>8, ApartMoves
<1>12. TokensUnused'
  <2>1. ~mixed' => Unused(cached)'
    <3>1. ~mixed' => UnusedBy(c)
      BY <1>1, <1>2, <1>7 DEF TokensUnused
    <3> QED  BY <1>3, <1>7, <3>1 DEF UnusedBy, Unused
  <2>2. ~mixed' => UnusedBy(x)'
    <3>1. CASE x = Rest
      BY <1>8, <3>1
    <3>2. CASE x # Rest
      BY <1>6, <1>7, <2>1, <3>2 DEF UnusedBy, Unused, Numbered
    <3> QED  BY <3>1, <3>2
  <2> QED  BY <1>1, <1>5, <1>7, <2>1, <2>2, TokensQuiet
<1>13. AllSettled'
  <2>1. ASSUME ~mixed', ~failed'
        PROVE  /\ Coherent' \/ \E v \in User : Underway(v)'
               /\ Settled(x)'
    <3>1. Settled(c) /\ (Coherent \/ \E v \in User : Underway(v))
      BY <1>1, <1>2, <1>7, <2>1 DEF AllSettled
    <3>2. True(o)'
      BY <1>3, <1>4, <1>7, <3>1 DEF Settled, True, Says
    <3>3. Coherent => Coherent'
      BY <1>7, <3>2 DEF Coherent
    <3>4. ~Underway(u)
      BY <1>2, <1>4 DEF Underway, Changing
    <3>5. \A v \in User : Underway(v) => Underway(v)'
      BY <1>1, <1>5, <3>4, UnderwayStays
    <3>6. Settled(x)'
      <4>1. CASE x = Rest
        BY <1>8, <4>1
      <4>2. CASE x # Rest
        BY <1>6, <1>7, <3>2, <4>2 DEF Settled
      <4> QED  BY <4>1, <4>2
    <3> QED  BY <3>1, <3>3, <3>5, <3>6
  <2>2. ASSUME ~mixed', ~failed', NEW v \in User \ {u}, NEW d, d = call[v]
        PROVE  Settled(d)'
    <3>1. Knows(d) /\ Settled(d)
      BY <1>1, <1>7, <2>2 DEF Typed, AllSettled
    <3>2. d.step # "change"
      <4>1. SUFFICES ASSUME d.step = "change"
                     PROVE  FALSE
        OBVIOUS
      <4>2. Records(v)
        BY <2>2, <3>1, <4>1, ChangersOnly DEF Records, Holds
      <4>3. Holds(u)
        BY <1>2, <1>3, <1>4 DEF Holds
      <4> QED  BY <1>1, <1>7, <2>2, <4>2, <4>3 DEF Apart
    <3> QED  BY <1>7, <3>1, <3>2, SettledKept
  <2> QED  BY <1>1, <1>5, <2>1, <2>2, SettledMoves
<1>14. Current'
  BY <1>1, <1>2, <1>4, <1>5, <1>6, <1>7, <1>8, CurrentMoves
<1> QED  BY <1>9, <1>10, <1>11, <1>12, <1>13, <1>14 DEF Sound

LEMMA ConflictKeeps ==
  ASSUME Sound, NEW u \in User, Conflict(u)
  PROVE  Sound'
<1>1. Typed /\ Exclusive /\ Apart /\ TokensUnused /\ AllSettled /\ Current
  BY DEF Sound
<1>2. PICK c : c = call[u]
  OBVIOUS
<1>3. c.step = "change" /\ Rest.step = "end"
  BY <1>2 DEF Conflict, Goes, Rest
<1>4. Moves(u, Rest)
  BY <1>3 DEF Conflict, Set, Moves
<1>5. /\ UNCHANGED <<stored, heap, cached, events, latest, last, used, mixed, crossed, failed>>
      /\ latest' \in Nat \cup {NoChange} /\ budget' \in 0..Budget
      /\ failed' \in BOOLEAN
  BY <1>1 DEF Conflict, Tracks, Typed
<1>6. ~Underway(u)
  BY <1>2, <1>3 DEF Underway
<1>7. Typed' /\ TokensUnused' /\ AllSettled' /\ Exclusive' /\ Apart'
  BY <1>1, <1>4, <1>5, <1>6, EndKeeps
<1>8. Current'
  BY <1>1, <1>2, <1>3, <1>4, <1>5, CurrentMoves
<1> QED  BY <1>7, <1>8 DEF Sound

\* What a call that changes the content has.
HasIt(u, c) ==
  /\ Knows(c) /\ c \in Call /\ c.op \in Recorders /\ c.step \in Changing
  /\ c.object \in Object /\ c.object # NoObject /\ c.object \in Referred
  /\ c.object \in DOMAIN heap /\ heap[c.object] \in Node

LEMMA ChangersHaveIt ==
  ASSUME Typed, NEW u \in User, NEW c, c = call[u],
         c.step \in {"change", "write", "cache", "mark", "rewrite", "recache"}
  PROVE  HasIt(u, c) /\ Records(u)
<1>1. Knows(c) /\ c \in Call
  BY DEF Typed, Knows
<1>2. c.op \in Recorders /\ c.step \in Changing /\ c.object # NoObject
  BY <1>1, ChangersOnly
<1>3. c.object \in Object /\ c.object \in Referred
  BY <1>1, <1>2 DEF Call, Referred
<1>4. c.object \in DOMAIN heap /\ heap[c.object] \in Node
  BY <1>3 DEF Typed
<1> QED  BY <1>1, <1>2, <1>3, <1>4 DEF HasIt, Records, Holds

LEMMA ChangeKeeps ==
  ASSUME Sound, NEW u \in User, Change(u)
  PROVE  Sound'
<1>1. Typed /\ Exclusive /\ Apart /\ TokensUnused /\ AllSettled /\ Current
  BY DEF Sound
<1>2. PICK c : c = call[u]
  OBVIOUS
<1>3. PICK o : o = c.object
  OBVIOUS
<1>4. c.step = "change" /\ HasIt(u, c) /\ Records(u)
  BY <1>1, <1>2, ChangersHaveIt DEF Change, Goes
<1>5. /\ Knows(c) /\ c \in Call /\ c.op \in Recorders /\ c.result = NoObject
      /\ o \in Object /\ o # NoObject /\ o \in Referred /\ o \in DOMAIN heap /\ heap[o] \in Node
  BY <1>3, <1>4 DEF HasIt, Knows
<1>6. PICK x : x = [c EXCEPT !.step = "write", !.rev = stored.rev]
  OBVIOUS
<1>7. /\ x \in Call /\ x.op = c.op /\ x.token = c.token /\ x.step = "write"
      /\ x.object = o /\ x.result = NoObject
  BY <1>1, <1>3, <1>5, <1>6 DEF Call, Typed
<1>8. Moves(u, x)
  BY <1>2, <1>6, <1>7 DEF Change, Set, Moves
<1>9. /\ UNCHANGED <<stored, cached, events, latest, budget, last, used, mixed, crossed, failed>>
      /\ heap' = [heap EXCEPT ![o].value = Budget - budget]
      /\ c.op = "updateProperties" => c.token = heap[o].token
  BY <1>2, <1>3 DEF Change, Tracks
<1>10. Knows(x)'
  <2>1. x.step \in StepsOf(x.op) /\ x.op # "none" /\ x.step \in Changing
    BY <1>5, <1>7 DEF StepsOf, Recorders, Changing
  <2>2. Knows(x)
    BY <1>5, <1>7, <2>1 DEF Knows, Numbered
  <2>3. events \in Nat /\ events' = events
    BY <1>1, <1>9 DEF Typed
  <2> QED  BY <2>2, <2>3, KnowsLater
<1>11. /\ DOMAIN heap' = DOMAIN heap /\ heap' \in [DOMAIN heap' -> Node]
       /\ \A p \in DOMAIN heap : heap'[p].token = heap[p].token
  <2>1. heap \in [DOMAIN heap -> Node] /\ Budget - budget \in Nat
    BY <1>1 DEF Typed
  <2> QED  BY <1>5, <1>9, <2>1 DEF Node
<1>12. Referred \subseteq DOMAIN heap
  BY <1>1 DEF Typed
<1>13. Typed'
  <2>1. /\ events' \in Nat /\ events <= events' /\ latest' \in Nat \cup {NoChange}
        /\ stored' \in [value : Nat, token : Nat, rev : Nat]
        /\ budget' \in 0..Budget /\ last' \in Nat /\ used' \subseteq 0..events'
        /\ <<mixed', crossed', failed'>> \in BOOLEAN \X BOOLEAN \X BOOLEAN
        /\ cached' \in Object \cup {NoObject}
    BY <1>1, <1>9 DEF Typed
  <2>2. /\ Referred \subseteq DOMAIN heap' 
        /\ {cached', x.object, x.result} \subseteq DOMAIN heap' \cup {NoObject}
    <3>1. cached # NoObject => cached \in Referred
      BY <1>1 DEF Typed, Referred
    <3> QED  BY <1>5, <1>7, <1>9, <1>11, <1>12, <3>1
  <2> QED  BY <1>1, <1>8, <1>10, <1>11, <2>1, <2>2, TypedMoves
<1>14. Exclusive'
  BY <1>1, <1>2, <1>4, <1>7, <1>8, ExclusiveMoves
<1>15. Apart'
  BY <1>1, <1>2, <1>3, <1>5, <1>7, <1>8, <1>9, ApartMoves
<1>16. TokensUnused'
  <2>1. ASSUME ~mixed'
        PROVE  Unused(cached)' /\ UnusedBy(x)'
    <3>1. Unused(cached) /\ Unused(o)
      BY <1>1, <1>2, <1>3, <1>9, <2>1 DEF TokensUnused, UnusedBy
    <3>2. cached # NoObject => cached \in DOMAIN heap
      BY <1>1, <1>12 DEF Typed, Referred
    <3>3. Unused(cached)'
      BY <1>9, <1>11, <3>1, <3>2 DEF Unused
    <3>4. heap'[o].token \notin used'
      <4>1. heap'[o].token = heap[o].token /\ used' = used
        BY <1>5, <1>9, <1>11
      <4> QED  BY <1>5, <3>1, <4>1 DEF Unused
    <3>5. UnusedBy(x)'
      BY <1>5, <1>7, <1>9, <3>1, <3>4 DEF UnusedBy, Unused, Numbered
    <3> QED  BY <3>3, <3>5
  <2>2. \A p \in Referred : heap'[p].token = heap[p].token
    BY <1>11, <1>12
  <2>3. stored'.token = stored.token
    BY <1>9
  <2> QED  BY <1>1, <1>8, <1>9, <2>1, <2>2, <2>3, TokensQuiet
<1>17. AllSettled'
  <2>1. call'[u] = x
    BY <1>1, <1>8, MovesOne
  <2>2. Underway(u)'
    BY <1>5, <1>7, <2>1 DEF Underway, Changing
  <2>3. ASSUME ~mixed', ~failed'
        PROVE  Settled(x)'
    <3>1. heap[o] = Says(stored)
      BY <1>1, <1>2, <1>3, <1>4, <1>5, <1>9, <2>3 DEF AllSettled, Settled, True
    <3>2. heap'[o].token = stored.token
      BY <1>5, <1>11, <3>1 DEF Says
    <3>3. c.op = "updateProperties" => c.token = stored.token
      BY <1>9, <3>1 DEF Says
    <3> QED  BY <1>7, <1>9, <3>2, <3>3 DEF Settled
  <2> QED  BY <1>1, <1>4, <1>8, <1>9, <2>2, <2>3, SettledAlone
<1>18. Current'
  BY <1>1, <1>2, <1>4, <1>7, <1>8, <1>9, CurrentMoves
<1> QED  BY <1>13, <1>14, <1>15, <1>16, <1>17, <1>18 DEF Sound

LEMMA WritesKeep ==
  ASSUME Sound, NEW u \in User, NEW next,
         \/ Goes(u, "write") /\ next = "cache"
         \/ Goes(u, "rewrite") /\ next = "recache",
         Writes(u, next)
  PROVE  Sound'
<1>1. Typed /\ Exclusive /\ Apart /\ TokensUnused /\ AllSettled /\ Current
  BY DEF Sound
<1>2. PICK c : c = call[u]
  OBVIOUS
<1>3. PICK o : o = c.object
  OBVIOUS
<1>4. PICK n : n = heap[o]
  OBVIOUS
<1>5. c.step \in {"write", "rewrite"} /\ HasIt(u, c) /\ Records(u)
  BY <1>1, <1>2, ChangersHaveIt DEF Goes
<1>6. /\ Knows(c) /\ c \in Call /\ c.op \in Recorders /\ c.result = NoObject
      /\ o \in Object /\ o # NoObject /\ o \in Referred /\ o \in DOMAIN heap /\ n \in Node
  BY <1>3, <1>4, <1>5 DEF HasIt, Knows
<1>7. /\ c.step = "write" => next = "cache"
      /\ c.step = "rewrite" => next = "recache"
  BY <1>2 DEF Goes
<1>8. PICK w \in Object : /\ w = NewObject /\ w # NoObject /\ heap'[w] = n
                          /\ DOMAIN heap' = Referred \cup {w}
                          /\ heap' \in [DOMAIN heap' -> Node]
                          /\ \A p \in Referred : heap'[p] = heap[p]
  <2>1. Makes(n) /\ call[u].result = NoObject
    BY <1>2, <1>3, <1>4, <1>6 DEF Writes
  <2> QED  BY <1>1, <1>6, <2>1, MakesNew
<1>9. PICK x : x = [c EXCEPT !.step = next, !.result = w]
  OBVIOUS
<1>10. /\ x \in Call /\ x.op = c.op /\ x.token = c.token /\ x.step = next
       /\ x.object = o /\ x.result = w /\ x.event = c.event
  BY <1>3, <1>5, <1>6, <1>7, <1>9 DEF Call
<1>11. Moves(u, x)
  BY <1>2, <1>5, <1>7, <1>8, <1>9, <1>10 DEF Writes, Set, Moves
<1>12. /\ UNCHANGED <<cached, events, latest, budget, last, used, mixed, crossed, failed>>
       /\ stored' = [value |-> n.value, token |-> n.token, rev |-> stored.rev + 1]
  BY <1>2, <1>3, <1>4 DEF Writes, Tracks
<1>13. /\ stored' \in [value : Nat, token : Nat, rev : Nat] /\ stored'.token = n.token
       /\ n = [value |-> stored'.value, token |-> stored'.token] /\ heap'[o] = n
  BY <1>1, <1>4, <1>6, <1>8, <1>12 DEF Typed, Node
<1>14. Knows(x)'
  <2>1. x.step \in StepsOf(x.op) /\ x.op # "none" /\ x.step \in Changing
    BY <1>5, <1>6, <1>7, <1>10 DEF StepsOf, Recorders, Changing
  <2>2. Knows(x)
    BY <1>5, <1>6, <1>7, <1>8, <1>10, <2>1 DEF Knows, Numbered
  <2>3. events \in Nat /\ events' = events
    BY <1>1, <1>12 DEF Typed
  <2> QED  BY <2>2, <2>3, KnowsLater
<1>15. Typed'
  <2>1. /\ events' \in Nat /\ events <= events' /\ latest' \in Nat \cup {NoChange}
        /\ budget' \in 0..Budget /\ last' \in Nat /\ used' \subseteq 0..events'
        /\ <<mixed', crossed', failed'>> \in BOOLEAN \X BOOLEAN \X BOOLEAN
        /\ cached' \in Object \cup {NoObject}
    BY <1>1, <1>12 DEF Typed
  <2>2. /\ Referred \subseteq DOMAIN heap' 
        /\ {cached', x.object, x.result} \subseteq DOMAIN heap' \cup {NoObject}
    <3>1. cached # NoObject => cached \in Referred
      BY <1>1 DEF Typed, Referred
    <3> QED  BY <1>6, <1>8, <1>10, <1>12, <3>1
  <2> QED  BY <1>1, <1>8, <1>11, <1>13, <1>14, <2>1, <2>2, TypedMoves
<1>16. Exclusive'
  BY <1>1, <1>2, <1>5, <1>10, <1>11, ExclusiveMoves
<1>17. Apart'
  BY <1>1, <1>2, <1>3, <1>6, <1>10, <1>11, <1>12, ApartMoves
<1>18. TokensUnused'
  <2>1. ASSUME ~mixed
        PROVE  stored'.token \notin used' /\ Unused(cached)' /\ UnusedBy(x)'
    <3>1. UnusedBy(c) /\ Unused(cached)
      BY <1>1, <1>2, <2>1 DEF TokensUnused
    <3>2. n.token \notin used
      BY <1>3, <1>4, <1>6, <3>1 DEF UnusedBy, Unused
    <3>3. Unused(cached)'
      <4>1. cached # NoObject => cached \in Referred
        BY <1>1 DEF Typed, Referred
      <4> QED  BY <1>8, <1>12, <3>1, <4>1 DEF Unused
    <3>4. Unused(x.object)' /\ Unused(x.result)'
      BY <1>8, <1>10, <1>12, <1>13, <3>2 DEF Unused
    <3>5. /\ c.op = "updateProperties" => c.token \notin used
          /\ next = "recache" => /\ c.event \notin used /\ n.token = c.event
                                 /\ c.op = "updateProperties" => c.token < c.event
      BY <1>3, <1>4, <1>5, <1>6, <1>7, <3>1 DEF UnusedBy, Changing, Numbered
    <3>6. UnusedBy(x)'
      BY <1>5, <1>7, <1>8, <1>10, <1>12, <1>13, <3>4, <3>5 DEF UnusedBy, Numbered
    <3> QED  BY <1>12, <1>13, <3>2, <3>3, <3>6
  <2> QED  BY <1>1, <1>5, <1>11, <1>12, <2>1, TokensAlone
<1>19. AllSettled'
  <2>1. call'[u] = x
    BY <1>1, <1>11, MovesOne
  <2>2. Underway(u)'
    BY <1>5, <1>6, <1>7, <1>10, <2>1 DEF Underway, Changing
  <2>3. ASSUME ~mixed', ~failed'
        PROVE  Settled(x)'
    <3>1. True(o)' /\ True(w)'
      BY <1>8, <1>13 DEF True, Says
    <3>2. next = "recache" => n.token = last
      BY <1>1, <1>2, <1>3, <1>4, <1>5, <1>7, <1>12, <2>3 DEF AllSettled, Settled
    <3> QED  BY <1>5, <1>7, <1>10, <1>12, <1>13, <3>1, <3>2 DEF Settled
  <2> QED  BY <1>1, <1>5, <1>11, <1>12, <2>2, <2>3, SettledAlone
<1>20. Current'
  BY <1>1, <1>2, <1>5, <1>7, <1>10, <1>11, <1>12, CurrentMoves
<1> QED  BY <1>15, <1>16, <1>17, <1>18, <1>19, <1>20 DEF Sound

LEMMA WriteKeeps ==
  ASSUME Sound, NEW u \in User, Write(u)
  PROVE  Sound'
<1>1. CASE Goes(u, "write") /\ Writes(u, "cache")
  BY <1>1, WritesKeep
<1>2. CASE Goes(u, "rewrite") /\ Writes(u, "recache")
  BY <1>2, WritesKeep
<1> QED  BY <1>1, <1>2 DEF Write

LEMMA CacheKeeps ==
  ASSUME Sound, NEW u \in User, Cache(u)
  PROVE  Sound'
<1>1. Typed /\ Exclusive /\ Apart /\ TokensUnused /\ AllSettled /\ Current
  BY DEF Sound
<1>2. PICK c : c = call[u]
  OBVIOUS
<1>3. PICK o : o = IF c.op = "updateProperties" THEN c.result ELSE c.object
  OBVIOUS
<1>4. PICK w : w = c.result
  OBVIOUS
<1>5. c.step = "cache" /\ HasIt(u, c) /\ Records(u)
  BY <1>1, <1>2, ChangersHaveIt DEF Cache, Goes
<1>6. /\ Knows(c) /\ c \in Call /\ c.op \in Recorders /\ o \in {c.object, w}
      /\ o \in Object /\ o # NoObject /\ w \in Object /\ w # NoObject
      /\ o \in Referred /\ w \in Referred
  <2>1. c \in Call /\ c.result # NoObject
    BY <1>5 DEF HasIt, Knows
  <2>2. c.result \in Object /\ c.result \in Referred
    BY <1>2, <2>1 DEF Call, Referred
  <2> QED  BY <1>3, <1>4, <1>5, <2>1, <2>2 DEF HasIt
<1>7. PICK x : x = [c EXCEPT !.step = "event", !.result = NoObject, !.object = o]
  OBVIOUS
<1>8. /\ x \in Call /\ x.op = c.op /\ x.token = c.token /\ x.step = "event"
      /\ x.object = o /\ x.result = NoObject
  BY <1>6, <1>7 DEF Call
<1>9. Moves(u, x)
  <2>1. x = [c EXCEPT !.step = "event", !.result = NoObject,
                      !.object = IF c.op = "updateProperties" THEN c.result ELSE @]
    BY <1>3, <1>6, <1>7 DEF Call
  <2> QED  BY <1>2, <1>8, <2>1 DEF Cache, Set, Moves
<1>10. /\ UNCHANGED <<stored, heap, events, latest, budget, last, used, mixed, crossed, failed>>
       /\ cached' = w
  BY <1>2, <1>4 DEF Cache, Tracks
<1>11. Knows(x)'
  <2>1. x.step \in StepsOf(x.op) /\ x.op # "none" /\ x.step \in Changing
    BY <1>6, <1>8 DEF StepsOf, Recorders, Changing
  <2>2. Knows(x)
    BY <1>6, <1>8, <2>1 DEF Knows, Numbered
  <2>3. events \in Nat /\ events' = events
    BY <1>1, <1>10 DEF Typed
  <2> QED  BY <2>2, <2>3, KnowsLater
<1>12. Typed'
  <2>1. /\ events' \in Nat /\ events <= events' /\ latest' \in Nat \cup {NoChange}
        /\ stored' \in [value : Nat, token : Nat, rev : Nat]
        /\ budget' \in 0..Budget /\ last' \in Nat /\ used' \subseteq 0..events'
        /\ <<mixed', crossed', failed'>> \in BOOLEAN \X BOOLEAN \X BOOLEAN
    BY <1>1, <1>10 DEF Typed
  <2>2. Referred \subseteq DOMAIN heap' /\ heap' \in [DOMAIN heap' -> Node]
    BY <1>1, <1>10 DEF Typed
  <2>3. /\ cached' \in Object \cup {NoObject}
        /\ {cached', x.object, x.result} \subseteq DOMAIN heap' \cup {NoObject}
    BY <1>6, <1>8, <1>10, <2>2
  <2> QED  BY <1>1, <1>9, <1>11, <2>1, <2>2, <2>3, TypedMoves
<1>13. Exclusive'
  BY <1>1, <1>2, <1>5, <1>8, <1>9, ExclusiveMoves
<1>14. Apart'
  <2>1. c.object # NoObject /\ mixed' = mixed
    BY <1>5, <1>10 DEF HasIt
  <2> QED  BY <1>1, <1>2, <1>8, <1>9, <2>1, ApartMoves
<1>15. TokensUnused'
  <2>1. ASSUME ~mixed
        PROVE  stored'.token \notin used' /\ Unused(cached)' /\ UnusedBy(x)'
    <3>1. UnusedBy(c) /\ stored.token \notin used
      BY <1>1, <1>2, <2>1 DEF TokensUnused
    <3>2. Unused(w) /\ Unused(o)
      BY <1>4, <1>6, <3>1 DEF UnusedBy
    <3>3. Unused(w)' /\ Unused(o)'
      BY <1>10, <3>2 DEF Unused
    <3>4. c.op = "updateProperties" => c.token \notin used
      BY <1>5, <3>1 DEF UnusedBy, Changing
    <3>5. UnusedBy(x)'
      BY <1>6, <1>8, <1>10, <3>3, <3>4 DEF UnusedBy, Unused, Numbered
    <3> QED  BY <1>10, <3>1, <3>3, <3>5 DEF Unused
  <2> QED  BY <1>1, <1>5, <1>9, <1>10, <2>1, TokensAlone
<1>16. AllSettled'
  <2>1. call'[u] = x
    BY <1>1, <1>9, MovesOne
  <2>2. Underway(u)'
    BY <1>6, <1>8, <2>1 DEF Underway, Changing
  <2>3. Settled(x)'
    BY <1>8 DEF Settled
  <2> QED  BY <1>1, <1>5, <1>9, <1>10, <2>2, <2>3, SettledAlone
<1>17. Current'
  BY <1>1, <1>2, <1>5, <1>8, <1>9, <1>10, CurrentMoves
<1> QED  BY <1>12, <1>13, <1>14, <1>15, <1>16, <1>17 DEF Sound

LEMMA MarkKeeps ==
  ASSUME Sound, NEW u \in User, Mark(u)
  PROVE  Sound'
<1>1. Typed /\ Exclusive /\ Apart /\ TokensUnused /\ AllSettled /\ Current
  BY DEF Sound
<1>2. PICK c : c = call[u]
  OBVIOUS
<1>3. PICK o : o = c.object
  OBVIOUS
<1>4. c.step = "mark" /\ HasIt(u, c) /\ Records(u)
  BY <1>1, <1>2, ChangersHaveIt DEF Mark, Goes
<1>5. /\ Knows(c) /\ c \in Call /\ c.op \in Recorders /\ c.result = NoObject
      /\ o \in Object /\ o # NoObject /\ o \in Referred /\ o \in DOMAIN heap /\ heap[o] \in Node
      /\ c.event \in 1..events /\ c.event \in Nat
  <2>1. c.event \in 1..events /\ events \in Nat
    BY <1>1, <1>4 DEF HasIt, Knows, Numbered, Typed
  <2> QED  BY <1>3, <1>4, <2>1 DEF HasIt, Knows
<1>6. PICK x : x = [c EXCEPT !.step = "rewrite", !.rev = stored.rev]
  OBVIOUS
<1>7. /\ x \in Call /\ x.op = c.op /\ x.token = c.token /\ x.step = "rewrite"
      /\ x.object = o /\ x.result = NoObject /\ x.event = c.event
  BY <1>1, <1>3, <1>5, <1>6 DEF Call, Typed
<1>8. Moves(u, x)
  BY <1>2, <1>6, <1>7 DEF Mark, Set, Moves
<1>9. /\ UNCHANGED <<stored, cached, events, latest, budget, last, used, mixed, crossed, failed>>
      /\ heap' = [heap EXCEPT ![o].token = c.event]
  BY <1>2, <1>3 DEF Mark, Tracks
<1>10. Knows(x)'
  <2>1. x.step \in StepsOf(x.op) /\ x.op # "none" /\ x.step \in Changing
    BY <1>5, <1>7 DEF StepsOf, Recorders, Changing
  <2>2. Knows(x)
    BY <1>5, <1>7, <2>1 DEF Knows, Numbered
  <2>3. events \in Nat /\ events' = events
    BY <1>1, <1>9 DEF Typed
  <2> QED  BY <2>2, <2>3, KnowsLater
<1>11. /\ DOMAIN heap' = DOMAIN heap /\ heap' \in [DOMAIN heap' -> Node]
       /\ heap'[o].token = c.event
       /\ \A p \in DOMAIN heap : p # o => heap'[p].token = heap[p].token
  <2>1. heap \in [DOMAIN heap -> Node]
    BY <1>1 DEF Typed
  <2> QED  BY <1>5, <1>9, <2>1 DEF Node
<1>12. Referred \subseteq DOMAIN heap
  BY <1>1 DEF Typed
<1>13. cached # NoObject => cached \in DOMAIN heap
  BY <1>1, <1>12 DEF Typed, Referred
<1>14. Typed'
  <2>1. /\ events' \in Nat /\ events <= events' /\ latest' \in Nat \cup {NoChange}
        /\ stored' \in [value : Nat, token : Nat, rev : Nat]
        /\ budget' \in 0..Budget /\ last' \in Nat /\ used' \subseteq 0..events'
        /\ <<mixed', crossed', failed'>> \in BOOLEAN \X BOOLEAN \X BOOLEAN
        /\ cached' \in Object \cup {NoObject}
    BY <1>1, <1>9 DEF Typed
  <2>2. /\ Referred \subseteq DOMAIN heap' 
        /\ {cached', x.object, x.result} \subseteq DOMAIN heap' \cup {NoObject}
    BY <1>5, <1>7, <1>9, <1>11, <1>12, <1>13
  <2> QED  BY <1>1, <1>8, <1>10, <1>11, <2>1, <2>2, TypedMoves
<1>15. Exclusive'
  BY <1>1, <1>2, <1>4, <1>7, <1>8, ExclusiveMoves
<1>16. Apart'
  BY <1>1, <1>2, <1>3, <1>5, <1>7, <1>8, <1>9, ApartMoves
<1>17. TokensUnused'
  <2>1. ASSUME ~mixed
        PROVE  stored'.token \notin used' /\ Unused(cached)' /\ UnusedBy(x)'
    <3>1. UnusedBy(c) /\ stored.token \notin used /\ Unused(cached)
      BY <1>1, <1>2, <2>1 DEF TokensUnused
    <3>2. /\ c.event \notin used
          /\ c.op = "updateProperties" => c.token \notin used /\ c.token < c.event
      BY <1>4, <1>5, <3>1 DEF UnusedBy, Changing, Numbered
    <3>3. Unused(o)'
      BY <1>9, <1>11, <3>2 DEF Unused
    <3>4. Unused(cached)'
      <4>1. CASE cached = o
        BY <1>9, <3>3, <4>1 DEF Unused
      <4>2. CASE cached # o
        BY <1>9, <1>11, <1>13, <3>1, <4>2 DEF Unused
      <4> QED  BY <4>1, <4>2
    <3>5. UnusedBy(x)'
      BY <1>7, <1>9, <1>11, <3>2, <3>3 DEF UnusedBy, Unused, Numbered
    <3> QED  BY <1>9, <3>1, <3>4, <3>5
  <2> QED  BY <1>1, <1>4, <1>8, <1>9, <2>1, TokensAlone
<1>18. AllSettled'
  <2>1. call'[u] = x
    BY <1>1, <1>8, MovesOne
  <2>2. Underway(u)'
    BY <1>5, <1>7, <2>1 DEF Underway, Changing
  <2>3. ASSUME ~mixed', ~failed'
        PROVE  Settled(x)'
    <3>1. c.event = last
      BY <1>1, <1>2, <1>4, <1>5, <1>9, <2>3 DEF AllSettled, Settled
    <3> QED  BY <1>7, <1>9, <1>11, <3>1 DEF Settled
  <2> QED  BY <1>1, <1>4, <1>8, <1>9, <2>2, <2>3, SettledAlone
<1>19. Current'
  BY <1>1, <1>2, <1>4, <1>7, <1>8, <1>9, CurrentMoves
<1> QED  BY <1>14, <1>15, <1>16, <1>17, <1>18, <1>19 DEF Sound

LEMMA RecacheKeeps ==
  ASSUME Sound, NEW u \in User, Recache(u)
  PROVE  Sound'
<1>1. Typed /\ Exclusive /\ Apart /\ TokensUnused /\ AllSettled /\ Current
  BY DEF Sound
<1>2. PICK c : c = call[u]
  OBVIOUS
<1>3. PICK w : w = c.result
  OBVIOUS
<1>4. PICK x : x = Rest
  OBVIOUS
<1>5. c.step = "recache" /\ HasIt(u, c) /\ Records(u)
  BY <1>1, <1>2, ChangersHaveIt DEF Recache, Goes
<1>6. /\ Knows(c) /\ c \in Call /\ c.op \in Recorders
      /\ w \in Object /\ w # NoObject /\ w \in Referred
  <2>1. c \in Call /\ c.result # NoObject
    BY <1>5 DEF HasIt, Knows
  <2> QED  BY <1>2, <1>3, <1>5, <2>1 DEF HasIt, Call, Referred
<1>7. x.object = NoObject /\ x.result = NoObject /\ x.op = "none" /\ x.step = "end"
  BY <1>1, <1>4, RestKnows DEF Typed
<1>8. Moves(u, x)
  BY <1>4, <1>7 DEF Recache, Set, Moves
<1>9. /\ UNCHANGED <<stored, heap, events, latest, budget, last, mixed, crossed, failed>>
      /\ cached' = w
      /\ used' = IF c.op = "updateProperties" THEN used \cup {c.token} ELSE used
  BY <1>2, <1>3 DEF Recache
<1>10. Knows(x)' /\ UnusedBy(x)' /\ Settled(x)'
  <2>1. Knows(x) /\ events \in Nat /\ events' = events
    BY <1>1, <1>4, <1>9, RestKnows DEF Typed
  <2>2. Knows(x)'
    BY <2>1, KnowsLater
  <2> QED  BY <1>7, <2>1, <2>2, IdleIsUnused, IdleIsSettled
<1>11. Typed'
  <2>1. /\ events' \in Nat /\ events <= events' /\ latest' \in Nat \cup {NoChange}
        /\ stored' \in [value : Nat, token : Nat, rev : Nat]
        /\ budget' \in 0..Budget /\ last' \in Nat
        /\ <<mixed', crossed', failed'>> \in BOOLEAN \X BOOLEAN \X BOOLEAN
    BY <1>1, <1>9 DEF Typed
  <2>2. Referred \subseteq DOMAIN heap' /\ heap' \in [DOMAIN heap' -> Node]
    BY <1>1, <1>9 DEF Typed
  <2>3. used' \subseteq 0..events'
    <3>1. c.token \in 0..events
      BY <1>1, <1>6 DEF Knows, Call, Typed
    <3> QED  BY <1>1, <1>9, <3>1 DEF Typed
  <2>4. /\ cached' \in Object \cup {NoObject}
        /\ {cached', x.object, x.result} \subseteq DOMAIN heap' \cup {NoObject}
    BY <1>6, <1>7, <1>9, <2>2
  <2> QED  BY <1>1, <1>8, <1>10, <2>1, <2>2, <2>3, <2>4, TypedMoves
<1>12. Exclusive'
  BY <1>1, <1>2, <1>7, <1>8, ExclusiveMoves DEF Locking
<1>13. Apart'
  BY <1>1, <1>2, <1>7, <1>8, <1>9, ApartMoves
<1>14. TokensUnused'
  <2>1. ASSUME ~mixed
        PROVE  stored'.token \notin used' /\ Unused(cached)'
    <3>1. UnusedBy(c)
      BY <1>1, <1>2, <2>1 DEF TokensUnused
    <3>2. /\ c.event \notin used /\ heap[w].token = c.event /\ stored.token = c.event
          /\ c.op = "updateProperties" => c.token < c.event
      BY <1>3, <1>5, <1>6, <3>1 DEF UnusedBy, Numbered
    <3>3. c.token \in Nat /\ c.event \in Nat
      BY <1>1, <1>5, <1>6 DEF Knows, Call, Numbered, Typed
    <3>4. c.event \notin used'
      BY <1>9, <3>2, <3>3
    <3> QED  BY <1>9, <3>2, <3>4 DEF Unused
  <2> QED  BY <1>1, <1>5, <1>8, <1>9, <1>10, <2>1, TokensAlone
<1>15. AllSettled'
  <2>1. ASSUME ~mixed', ~failed'
        PROVE  Coherent'
    <3>1. Settled(c)
      BY <1>1, <1>2, <1>9, <2>1 DEF AllSettled
    <3>2. stored.token = last /\ heap[w] = Says(stored)
      BY <1>3, <1>5, <1>6, <3>1 DEF Settled, True
    <3> QED  BY <1>9, <3>2 DEF Coherent, True, Says
  <2> QED  BY <1>1, <1>5, <1>8, <1>9, <1>10, <2>1, SettledAlone
<1>16. Current'
  BY <1>1, <1>2, <1>5, <1>7, <1>8, <1>9, CurrentMoves
<1> QED  BY <1>11, <1>12, <1>13, <1>14, <1>15, <1>16 DEF Sound

LEMMA ThrowsKeeps ==
  ASSUME Sound, NEW u \in User, Throws(u)
  PROVE  Sound'
<1>1. Typed /\ Exclusive /\ Apart /\ TokensUnused /\ AllSettled /\ Current
  BY DEF Sound
<1>2. Rest.step = "end"
  BY DEF Rest
<1>3. Moves(u, Rest)
  BY <1>2 DEF Throws, Set, Moves
<1>4. /\ UNCHANGED <<stored, heap, cached, events, latest, last, used, mixed, crossed>>
      /\ latest' \in Nat \cup {NoChange} /\ budget' \in 0..Budget /\ failed' = TRUE
  BY <1>1 DEF Throws, Typed
<1>5. Typed' /\ TokensUnused' /\ AllSettled' /\ Exclusive' /\ Apart'
  BY <1>1, <1>3, <1>4, EndKeeps
<1>6. Current'
  <2>1. call'[u] = Rest /\ \A v \in User \ {u} : call'[v] = call[v]
    BY <1>1, <1>3, MovesOne
  <2> QED  BY <1>1, <1>2, <1>4, <2>1 DEF Current, Goes
<1> QED  BY <1>5, <1>6 DEF Sound

LEMMA ExpireKeeps ==
  ASSUME Sound, Expire
  PROVE  Sound'
<1>1. Typed /\ Exclusive /\ Apart /\ TokensUnused /\ AllSettled /\ Current
  BY DEF Sound
<1>2. /\ UNCHANGED <<stored, heap, events, call, budget, last, used, mixed, crossed, failed>>
      /\ cached' \in {cached, NoObject} /\ latest' \in {latest, NoChange}
  BY DEF Expire, Tracks
<1>3. Typed'
  <2>1. Referred' \subseteq Referred
    BY <1>2 DEF Referred, ContentCacheAssumptions
  <2>2. ASSUME NEW v \in User
        PROVE  Knows(call[v])'
    <3>1. PICK d : d = call[v]
      OBVIOUS
    <3>2. Knows(d) /\ events \in Nat /\ events' = events
      BY <1>1, <1>2, <3>1 DEF Typed
    <3>3. Knows(d)'
      BY <3>2, KnowsLater
    <3> QED  BY <1>2, <3>1, <3>3 DEF Knows
  <2> QED  BY <1>1, <1>2, <2>1, <2>2 DEF Typed
<1>4. Exclusive'
  BY <1>1, <1>2 DEF Exclusive, Writing, Reading, Goes
<1>5. Apart'
  BY <1>1, <1>2 DEF Apart, Records, Holds
<1>6. TokensUnused'
  <2>1. ASSUME NEW v \in User, ~mixed
        PROVE  UnusedBy(call[v])'
    <3>1. UnusedBy(call[v])
      BY <1>1, <2>1 DEF TokensUnused
    <3> QED  BY <1>2, <3>1 DEF UnusedBy, Unused
  <2> QED  BY <1>1, <1>2, <2>1 DEF TokensUnused, Unused
<1>7. AllSettled'
  <2>1. ASSUME NEW v \in User, ~mixed, ~failed
        PROVE  Settled(call[v])'
    <3>1. PICK d : d = call[v]
      OBVIOUS
    <3>2. Knows(d) /\ Settled(d)
      BY <1>1, <2>1, <3>1 DEF AllSettled, Typed
    <3>3. Settled(d)'
      BY <1>2, <3>2, SettledKept
    <3> QED  BY <1>2, <3>1, <3>3 DEF Settled, True
  <2>2. Coherent => Coherent'
    BY <1>2 DEF Coherent, True, Says
  <2>3. \A v \in User : Underway(v)' <=> Underway(v)
    BY <1>2 DEF Underway
  <2> QED  BY <1>1, <1>2, <2>1, <2>2, <2>3 DEF AllSettled
<1>8. Current'
  BY <1>1, <1>2 DEF Current, Goes
<1> QED  BY <1>3, <1>4, <1>5, <1>6, <1>7, <1>8 DEF Sound

\* A call with no object of the content, or at a step of its change event, takes
\* a quiet step: what the caches of the content and its objects hold stays.
LEMMA EventKeeps ==
  ASSUME Sound, NEW u \in User, Event(u)
  PROVE  Sound'
<1>1. Typed /\ Exclusive /\ Apart /\ TokensUnused /\ AllSettled /\ Current
  BY DEF Sound
<1>2. PICK c : c = call[u]
  OBVIOUS
<1>3. /\ Knows(c) /\ c \in Call /\ c.step = "event" /\ c.result = NoObject
      /\ c.op \in Recorders \cup {"other"} /\ events \in Nat
  BY <1>1, <1>2 DEF Typed, Knows, Event, Goes, StepsOf, Call, AllCalls, Locking, Recorders
<1>4. PICK x : x = [c EXCEPT !.step = "latest", !.event = events + 1]
  OBVIOUS
<1>5. /\ x \in Call /\ x.op = c.op /\ x.token = c.token /\ x.step = "latest"
      /\ x.object = c.object /\ x.result = NoObject /\ x.event = events + 1
  <2>1. PICK e \in Nat : e = events + 1
    BY <1>3
  <2>2. x = [c EXCEPT !.step = "latest", !.event = e]
    BY <1>4, <2>1
  <2>3. /\ x \in Call /\ x.op = c.op /\ x.token = c.token /\ x.step = "latest"
        /\ x.object = c.object /\ x.result = c.result /\ x.event = e
    BY <1>3, <2>2 DEF Call
  <2> QED  BY <1>3, <2>1, <2>3
<1>6. Moves(u, x)
  BY <1>2, <1>4, <1>5 DEF Event, Set, Moves
<1>7. /\ UNCHANGED <<stored, heap, cached, latest, budget, used, mixed, failed>>
      /\ events' = events + 1 /\ crossed' \in BOOLEAN /\ (crossed => crossed')
      /\ last' = IF c.op = "other" THEN last ELSE events + 1
  BY <1>1, <1>2 DEF Event, Crosses, Typed
<1>8. Knows(x)'
  <2>1. /\ x.step \in StepsOf(x.op) /\ x.op # "none"
        /\ x.op \in Recorders => c.step \in Changing /\ x.step \in Changing
    BY <1>3, <1>5 DEF StepsOf, Recorders, Changing
  <2>2. x.object # NoObject <=> x.op \in Recorders
    BY <1>3, <1>5, <2>1 DEF Knows
  <2>3. x.token <= events' /\ x.event \in 1..events'
    BY <1>3, <1>5, <1>7 DEF Knows, Call
  <2>4. Knows(x)'
    BY <1>5, <2>1, <2>2, <2>3 DEF Knows
  <2> QED  BY <2>4
<1>9. Typed'
  <2>1. /\ events' \in Nat /\ events <= events' /\ latest' \in Nat \cup {NoChange}
        /\ budget' \in 0..Budget /\ last' \in Nat
        /\ <<mixed', crossed', failed'>> \in BOOLEAN \X BOOLEAN \X BOOLEAN
    BY <1>1, <1>3, <1>7 DEF Typed
  <2>2. x.object \in {c.object, cached, NoObject} /\ x.result \in {c.result, NoObject}
    BY <1>5
  <2> QED  BY <1>1, <1>2, <1>6, <1>7, <1>8, <2>1, <2>2, TypedQuiet
<1>10. Exclusive'
  BY <1>1, <1>2, <1>3, <1>5, <1>6, ExclusiveMoves
<1>11. Apart'
  BY <1>1, <1>2, <1>5, <1>6, <1>7, ApartMoves
<1>12. TokensUnused'
  <2>1. ~mixed' => Unused(cached)'
    BY <1>1, <1>7 DEF TokensUnused, Unused
  <2>2. ASSUME ~mixed'
        PROVE  UnusedBy(x)'
    <3>1. UnusedBy(c) /\ events + 1 \notin used
      BY <1>1, <1>2, <1>7, <2>2 DEF TokensUnused, Typed
    <3>2. Unused(x.object)' /\ Unused(x.result)'
      BY <1>3, <1>5, <1>7, <3>1 DEF UnusedBy, Unused
    <3>3. /\ x.op = "updateProperties" => x.token \notin used'
          /\ x.event \notin used' /\ x.token < x.event
      BY <1>3, <1>5, <1>7, <3>1 DEF UnusedBy, Changing, Knows, Call
    <3> QED  BY <1>5, <3>2, <3>3 DEF UnusedBy
  <2> QED  BY <1>1, <1>6, <1>7, <2>1, <2>2, TokensQuiet
<1>13. AllSettled'
  <2>1. CASE c.op = "other"
    <3>1. ~Underway(u)
      BY <1>2, <2>1 DEF Underway, Recorders
    <3>2. Settled(x)'
      BY <1>5, <2>1 DEF Settled, Recorders
    <3> QED  BY <1>1, <1>6, <1>7, <2>1, <3>1, <3>2, SettledQuiet
  <2>2. CASE c.op \in Recorders
    <3>1. c.step \in Changing /\ c.op # "other"
      BY <1>3, <2>2 DEF Changing, Recorders
    <3>2. Records(u)
      BY <1>2, <1>3, <2>2, <3>1 DEF Records, Holds, Knows
    <3>3. call'[u] = x
      BY <1>1, <1>6, MovesOne
    <3>4. Underway(u)'
      BY <1>5, <2>2, <3>3 DEF Underway, Changing
    <3>5. Settled(x)'
      BY <1>5, <1>7, <3>1 DEF Settled
    <3> QED  BY <1>1, <1>6, <1>7, <3>2, <3>4, <3>5, SettledAlone
  <2> QED  BY <1>3, <2>1, <2>2
<1>14. Current'
  <2>1. call'[u] = x /\ \A v \in User \ {u} : call'[v] = call[v]
    BY <1>1, <1>6, MovesOne
  <2>2. ASSUME ~crossed', NEW v \in User
        PROVE  ~Goes(v, "note")'
    <3>1. CASE v = u
      BY <1>5, <2>1, <3>1 DEF Goes
    <3>2. CASE v # u
      <4>1. ~Goes(v, "note")
        BY <2>2, <3>2 DEF Event, Crosses
      <4> QED  BY <2>1, <3>2, <4>1 DEF Goes
    <3> QED  BY <3>1, <3>2
  <2>3. events' > 0 /\ call'[u].step = "latest"
    BY <1>3, <1>5, <1>7, <2>1
  <2> QED  BY <2>2, <2>3 DEF Current
<1> QED  BY <1>9, <1>10, <1>11, <1>12, <1>13, <1>14 DEF Sound

LEMMA LatestKeeps ==
  ASSUME Sound, NEW u \in User, Latest(u)
  PROVE  Sound'
<1>1. Typed /\ Exclusive /\ Apart /\ TokensUnused /\ AllSettled /\ Current
  BY DEF Sound
<1>2. PICK c : c = call[u]
  OBVIOUS
<1>3. /\ Knows(c) /\ c \in Call /\ c.step = "latest" /\ c.result = NoObject /\ events \in Nat
      /\ c.op \in Recorders => c.event \in 1..events
  BY <1>1, <1>2 DEF Typed, Knows, Latest, Goes, Numbered
<1>4. /\ UNCHANGED <<stored, heap, cached, events, latest, budget, last, used, mixed, crossed, failed>>
      /\ latest' \in Nat \cup {NoChange} /\ budget' \in 0..Budget /\ failed' \in BOOLEAN
  BY <1>1 DEF Latest, Tracks, Typed
<1>5. CASE events = 0
  <2>1. Rest.step = "end"
    BY DEF Rest
  <2>2. Moves(u, Rest)
    BY <1>5, <2>1 DEF Latest, Set, Moves
  <2>3. c.op \notin Recorders
    BY <1>3, <1>5
  <2>4. ~Underway(u)
    BY <1>2, <2>3 DEF Underway
  <2>5. Typed' /\ TokensUnused' /\ AllSettled' /\ Exclusive' /\ Apart'
    BY <1>1, <1>4, <2>2, <2>4, EndKeeps
  <2>6. Current'
    <3>1. call'[u] = Rest /\ \A v \in User \ {u} : call'[v] = call[v]
      BY <1>1, <2>2, MovesOne
    <3> QED  BY <1>1, <1>4, <1>5, <2>1, <3>1 DEF Current, Goes
  <2> QED  BY <2>5, <2>6 DEF Sound
<1>6. CASE events # 0
  <2>1. PICK x : x = [c EXCEPT !.step = "note", !.change = events]
    OBVIOUS
  <2>2. /\ x \in Call /\ x.op = c.op /\ x.token = c.token /\ x.step = "note"
        /\ x.object = c.object /\ x.result = NoObject /\ x.event = c.event /\ x.change = events
    BY <1>3, <2>1 DEF Call
  <2>3. Moves(u, x)
    BY <1>2, <1>6, <2>1, <2>2 DEF Latest, Set, Moves
  <2>4. /\ c.op \in Recorders => c.step \in Changing /\ x.step \in Changing
        /\ x.step \in StepsOf(x.op) /\ x.op # "none"
    BY <1>3, <2>2 DEF Knows, StepsOf, Recorders, Changing
  <2>5. Knows(x)'
    <3>1. x.object # NoObject <=> x.op \in Recorders
      BY <1>3, <2>2, <2>4 DEF Knows
    <3>2. Knows(x)
      BY <1>3, <2>2, <2>4, <3>1 DEF Knows
    <3> QED  BY <1>3, <1>4, <3>2, KnowsLater
  <2>6. ~mixed => UnusedBy(x)'
    <3>1. ~mixed => UnusedBy(c)
      BY <1>1, <1>2 DEF TokensUnused
    <3> QED  BY <1>3, <1>4, <2>2, <3>1 DEF UnusedBy, Unused, Changing, Numbered
  <2>7. ~mixed /\ ~failed => Settled(x)'
    <3>1. ~mixed /\ ~failed => Settled(c)
      BY <1>1, <1>2 DEF AllSettled
    <3> QED  BY <1>3, <1>4, <2>2, <3>1 DEF Settled
  <2>8. call'[u] = x /\ \A v \in User \ {u} : call'[v] = call[v]
    BY <1>1, <2>3, MovesOne
  <2>9. Underway(u) => Underway(u)'
    BY <1>2, <2>2, <2>8 DEF Underway, Changing
  <2>10. Typed' /\ TokensUnused' /\ AllSettled'
    BY <1>1, <1>2, <1>3, <1>4, <2>2, <2>3, <2>5, <2>6, <2>7, <2>9, QuietKeeps
  <2>11. Exclusive'
    BY <1>1, <1>2, <1>3, <2>2, <2>3, ExclusiveMoves
  <2>12. Apart'
    BY <1>1, <1>2, <1>4, <2>2, <2>3, ApartMoves
  <2>13. Current'
    <3>1. events > 0 /\ call'[u].step = "note" /\ call'[u].change = events
      BY <1>3, <1>6, <2>2, <2>8
    <3> QED  BY <1>1, <1>4, <2>8, <3>1 DEF Current, Goes
  <2> QED  BY <2>10, <2>11, <2>12, <2>13 DEF Sound
<1> QED  BY <1>5, <1>6

LEMMA NoteKeeps ==
  ASSUME Sound, NEW u \in User, Note(u)
  PROVE  Sound'
<1>1. Typed /\ Exclusive /\ Apart /\ TokensUnused /\ AllSettled /\ Current
  BY DEF Sound
<1>2. PICK c : c = call[u]
  OBVIOUS
<1>3. /\ Knows(c) /\ c \in Call /\ c.step = "note" /\ c.result = NoObject /\ events \in Nat
      /\ c.change \in Nat
  BY <1>1, <1>2 DEF Typed, Knows, Note, Goes
<1>4. /\ UNCHANGED <<stored, heap, cached, events, budget, last, used, mixed, crossed, failed>>
      /\ latest' = c.change
      /\ latest' \in Nat \cup {NoChange} /\ budget' \in 0..Budget /\ failed' \in BOOLEAN
  BY <1>1, <1>2, <1>3 DEF Note, Tracks, Typed
<1>5. ASSUME NEW x, Moves(u, x), x.step # "note"
      PROVE  Current'
  <2>1. call'[u] = x /\ \A v \in User \ {u} : call'[v] = call[v]
    BY <1>1, <1>5, MovesOne
  <2>2. ~crossed => latest' = events
    BY <1>1, <1>2, <1>3, <1>4 DEF Current, Goes
  <2> QED  BY <1>1, <1>4, <1>5, <2>1, <2>2 DEF Current, Goes
<1>6. CASE c.op \notin Recorders
  <2>1. [c EXCEPT !.step = "end"].step = "end" /\ Rest.step = "end"
    BY <1>3 DEF Call, Rest
  <2>2. Moves(u, Rest)
    BY <1>2, <1>6, <2>1 DEF Note, Set, Moves
  <2>3. ~Underway(u)
    BY <1>2, <1>6 DEF Underway
  <2>4. Typed' /\ TokensUnused' /\ AllSettled' /\ Exclusive' /\ Apart'
    BY <1>1, <1>4, <2>2, <2>3, EndKeeps
  <2>5. Current'
    BY <1>5, <2>1, <2>2
  <2> QED  BY <2>4, <2>5 DEF Sound
<1>7. CASE c.op \in Recorders
  <2>1. PICK x : x = [c EXCEPT !.step = "mark"]
    OBVIOUS
  <2>2. /\ x \in Call /\ x.op = c.op /\ x.token = c.token /\ x.step = "mark"
        /\ x.object = c.object /\ x.result = NoObject /\ x.event = c.event
    BY <1>3, <2>1 DEF Call
  <2>3. Moves(u, x)
    BY <1>2, <1>7, <2>1, <2>2 DEF Note, Set, Moves
  <2>4. /\ c.step \in Changing /\ x.step \in Changing /\ c.event \in 1..events
        /\ x.step \in StepsOf(x.op) /\ x.op # "none"
    BY <1>3, <1>7, <2>2 DEF Knows, StepsOf, Recorders, Changing, Numbered
  <2>5. Knows(x)'
    <3>1. x.object # NoObject
      BY <1>3, <1>7, <2>2, <2>4 DEF Knows
    <3>2. Knows(x)
      BY <1>3, <1>7, <2>2, <2>4, <3>1 DEF Knows
    <3> QED  BY <1>3, <1>4, <3>2, KnowsLater
  <2>6. ~mixed => UnusedBy(x)'
    <3>1. ~mixed => UnusedBy(c)
      BY <1>1, <1>2 DEF TokensUnused
    <3> QED  BY <1>3, <1>4, <2>2, <3>1 DEF UnusedBy, Unused, Changing, Numbered
  <2>7. ~mixed /\ ~failed => Settled(x)'
    <3>1. ~mixed /\ ~failed => Settled(c)
      BY <1>1, <1>2 DEF AllSettled
    <3> QED  BY <1>3, <1>4, <2>2, <3>1 DEF Settled
  <2>8. call'[u] = x
    BY <1>1, <2>3, MovesOne
  <2>9. Underway(u) => Underway(u)'
    BY <1>2, <2>2, <2>8 DEF Underway, Changing
  <2>10. Typed' /\ TokensUnused' /\ AllSettled'
    BY <1>1, <1>2, <1>3, <1>4, <2>2, <2>3, <2>5, <2>6, <2>7, <2>9, QuietKeeps
  <2>11. Exclusive'
    BY <1>1, <1>2, <1>3, <2>2, <2>3, ExclusiveMoves
  <2>12. Apart'
    BY <1>1, <1>2, <1>4, <2>2, <2>3, ApartMoves
  <2>13. Current'
    BY <1>5, <2>2, <2>3
  <2> QED  BY <2>10, <2>11, <2>12, <2>13 DEF Sound
<1> QED  BY <1>6, <1>7

LEMMA AskKeeps ==
  ASSUME Sound, NEW u \in User, Ask(u)
  PROVE  Sound'
<1>1. Typed /\ Exclusive /\ Apart /\ TokensUnused /\ AllSettled /\ Current
  BY DEF Sound
<1>2. PICK c : c = call[u]
  OBVIOUS
<1>3. /\ Knows(c) /\ c \in Call /\ c.step = "ask" /\ c.op = "ask" /\ c.op \notin Recorders
      /\ c.result = NoObject /\ c.object = NoObject /\ events \in Nat
  <2>1. Knows(c) /\ c \in Call /\ c.step = "ask" /\ events \in Nat
    BY <1>1, <1>2 DEF Typed, Knows, Ask, Goes
  <2>2. c.op = "ask"
    BY <2>1 DEF Knows, StepsOf, Changing
  <2> QED  BY <2>1, <2>2 DEF Knows, Recorders
<1>4. /\ UNCHANGED <<stored, heap, cached, events, latest, budget, last, used, mixed, crossed, failed>>
      /\ latest' \in Nat \cup {NoChange} /\ budget' \in 0..Budget /\ failed' \in BOOLEAN
  BY <1>1 DEF Ask, Tracks, Typed
<1>5. ~Underway(u)
  BY <1>2, <1>3 DEF Underway
<1>6. CASE latest # NoChange
  <2>1. [c EXCEPT !.step = "end"].step = "end" /\ Rest.step = "end"
    BY <1>3 DEF Call, Rest
  <2>2. Moves(u, Rest)
    BY <1>2, <1>6, <2>1 DEF Ask, Set, Moves
  <2>3. Typed' /\ TokensUnused' /\ AllSettled' /\ Exclusive' /\ Apart'
    BY <1>1, <1>4, <1>5, <2>2, EndKeeps
  <2>4. Current'
    BY <1>1, <1>2, <1>3, <1>4, <2>1, <2>2, CurrentMoves
  <2> QED  BY <2>3, <2>4 DEF Sound
<1>7. CASE latest = NoChange
  <2>1. PICK x : x = [c EXCEPT !.step = "latest"]
    OBVIOUS
  <2>2. /\ x \in Call /\ x.op = "ask" /\ x.op = c.op /\ x.token = c.token /\ x.step = "latest"
        /\ x.object = NoObject /\ x.result = NoObject
    BY <1>3, <2>1 DEF Call
  <2>3. Moves(u, x)
    BY <1>2, <1>7, <2>1, <2>2 DEF Ask, Set, Moves
  <2>4. Knows(x) /\ Knows(x)'
    <3>1. x.step \in StepsOf(x.op)
      BY <2>2 DEF StepsOf
    <3>2. Knows(x)
      BY <1>3, <2>2, <3>1 DEF Knows
    <3> QED  BY <1>3, <1>4, <3>2, KnowsLater
  <2>5. UnusedBy(x)' /\ Settled(x)'
    BY <2>2, <2>4, IdleIsUnused, IdleIsSettled
  <2>6. Typed' /\ TokensUnused' /\ AllSettled'
    BY <1>1, <1>2, <1>3, <1>4, <1>5, <2>2, <2>3, <2>4, <2>5, QuietKeeps
  <2>7. Exclusive'
    BY <1>1, <1>2, <1>3, <2>2, <2>3, ExclusiveMoves
  <2>8. Apart'
    BY <1>1, <1>2, <1>4, <2>2, <2>3, ApartMoves
  <2>9. Current'
    BY <1>1, <1>2, <1>3, <1>4, <2>2, <2>3, CurrentMoves
  <2> QED  BY <2>6, <2>7, <2>8, <2>9 DEF Sound
<1> QED  BY <1>6, <1>7

LEMMA SoundAtFirst == Init => Sound
<1> SUFFICES ASSUME Init PROVE Sound
  OBVIOUS
<1>1. Init
  OBVIOUS
<1>2. events = 0 /\ \A u \in User : call[u] = Rest
  BY <1>1 DEF Init
<1>3. Knows(Rest) /\ Rest \in Call /\ Rest.object = NoObject /\ Rest.result = NoObject
        /\ Rest.op = "none" /\ Rest.step = "end"
  BY <1>2, RestKnows
<1>4. Typed
  <2>1. Referred = {}
    BY <1>1, <1>2, <1>3 DEF Init, Referred, ContentCacheAssumptions
  <2>2. heap \in [DOMAIN heap -> Node] /\ call \in [User -> Call]
    BY <1>1, <1>3 DEF Init
  <2>3. budget \in 0..Budget
    BY <1>1 DEF Init, ContentCacheAssumptions
  <2>4. <<mixed, crossed, failed>> \in BOOLEAN \X BOOLEAN \X BOOLEAN
    BY <1>1 DEF Init
  <2> QED  BY <1>1, <1>2, <1>3, <2>1, <2>2, <2>3, <2>4 DEF Init, Typed
<1>5. Exclusive /\ Apart
  BY <1>2, <1>3 DEF Exclusive, Apart, Writing, Records, Holds
<1>6. TokensUnused
  <2>1. UnusedBy(Rest)
    BY <1>3 DEF UnusedBy, Unused, Changing, Numbered
  <2> QED  BY <1>1, <1>2, <2>1 DEF Init, TokensUnused, Unused
<1>7. AllSettled
  <2>1. Settled(Rest)
    BY <1>3 DEF Settled
  <2>2. Coherent
    BY <1>1 DEF Init, Coherent, True
  <2> QED  BY <1>2, <2>1, <2>2 DEF AllSettled
<1>8. Current
  BY <1>1, <1>2, <1>3 DEF Init, Current, Goes
<1> QED  BY <1>4, <1>5, <1>6, <1>7, <1>8 DEF Sound

LEMMA SoundStutters ==
  ASSUME Sound, UNCHANGED vars
  PROVE  Sound'
<1>1. UNCHANGED <<stored, heap, cached, events, latest, call, budget, last, used, mixed,
                  crossed, failed>>
  BY DEF vars
<1>2. Typed' /\ Exclusive' /\ Apart'
  BY <1>1 DEF Sound, Typed, Referred, Knows, Exclusive, Writing, Reading, Goes, Apart,
              Records, Holds
<1>3. TokensUnused' /\ AllSettled'
  <2>1. \A v \in User : (UnusedBy(call[v])' <=> UnusedBy(call[v]))
                          /\ (Settled(call[v])' <=> Settled(call[v]))
    BY <1>1 DEF UnusedBy, Unused, Settled, True
  <2>2. (Coherent' <=> Coherent) /\ \A v \in User : Underway(v)' <=> Underway(v)
    BY <1>1 DEF Coherent, True, Underway
  <2> QED  BY <1>1, <2>1, <2>2 DEF Sound, TokensUnused, AllSettled, Unused
<1>4. Current'
  BY <1>1 DEF Sound, Current, Goes
<1> QED  BY <1>2, <1>3, <1>4 DEF Sound

LEMMA SoundStays == Sound /\ [Next]_vars => Sound'
<1> SUFFICES ASSUME Sound, [Next]_vars PROVE Sound'
  OBVIOUS
<1>1. CASE UNCHANGED vars
  BY <1>1, SoundStutters
<1>2. CASE Expire
  BY <1>2, ExpireKeeps
<1>3. ASSUME NEW u \in User, NEW op \in AllCalls, NEW token \in 0..events, Send(u, op, token)
      PROVE  Sound'
  BY <1>3, SendKeeps
<1>4. ASSUME NEW u \in User, Advances(u)
      PROVE  Sound'
  <2>1. CASE Lock(u)      BY <2>1, LockKeeps
  <2>2. CASE Hit(u)       BY <2>2, HitKeeps
  <2>3. CASE Miss(u)      BY <2>3, MissKeeps
  <2>4. CASE Put(u)       BY <2>4, PutKeeps
  <2>5. CASE Conflict(u)  BY <2>5, ConflictKeeps
  <2>6. CASE Change(u)    BY <2>6, ChangeKeeps
  <2>7. CASE Write(u)     BY <2>7, WriteKeeps
  <2>8. CASE Cache(u)     BY <2>8, CacheKeeps
  <2>9. CASE Event(u)     BY <2>9, EventKeeps
  <2>10. CASE Latest(u)   BY <2>10, LatestKeeps
  <2>11. CASE Note(u)     BY <2>11, NoteKeeps
  <2>12. CASE Mark(u)     BY <2>12, MarkKeeps
  <2>13. CASE Recache(u)  BY <2>13, RecacheKeeps
  <2>14. CASE Throws(u)   BY <2>14, ThrowsKeeps
  <2>15. CASE Ask(u)      BY <2>15, AskKeeps
  <2> QED  BY <1>4, <2>1, <2>2, <2>3, <2>4, <2>5, <2>6, <2>7, <2>8, <2>9, <2>10, <2>11,
              <2>12, <2>13, <2>14, <2>15 DEF Advances
<1> QED  BY <1>1, <1>2, <1>3, <1>4 DEF Next

-----------------------------------------------------------------------------
(***************************************************************************)
(* Theorems                                                                *)
(***************************************************************************)

THEOREM SoundAlways == Spec => []Sound
BY SoundAtFirst, SoundStays, PTL DEF Spec

\* What is stored, cached and referred to is of its kind in every state of every
\* run, whatever the calls, and a new Java object never takes the place of one
\* that is still in use.
THEOREM ContentTypesKept == Spec => []TypeOK
<1>1. Sound => TypeOK
  <2>1. 0..events \subseteq Nat /\ 0..Budget \subseteq Nat
    OBVIOUS
  <2> QED  BY <2>1 DEF Sound, Typed, TypeOK, Knows
<1> QED  BY <1>1, SoundAlways, PTL

\* updateConflict compares the client's token with the cached object's, and yet
\* an update that reaches the database was made on the node it replaces, however
\* many callers there are.
THEOREM UpdatesSaveOnWhatWasRead == Spec => []SavesOnWhatWasRead
<1>1. Sound => SavesOnWhatWasRead
  <2> SUFFICES ASSUME AllSettled, NEW u \in User, Goes(u, "write"),
                      call[u].op = "updateProperties", ~mixed, ~failed
               PROVE  call[u].token = stored.token
    BY DEF Sound, SavesOnWhatWasRead
  <2> QED  BY DEF AllSettled, Settled, Goes
<1> QED  BY <1>1, SoundAlways, PTL

\* Two updates made with the same token never both complete, also after calls
\* that have ended half-way.
THEOREM TokensServeOnce == Spec => TokenUsedOnce
<1>1. Sound /\ [Next]_vars =>
        [\A u \in User :
           Goes(u, "recache") /\ call[u].op = "updateProperties" /\ call'[u] = Rest /\ ~mixed
             => call[u].token \notin used]_vars
  <2> SUFFICES ASSUME TokensUnused, NEW u \in User, Goes(u, "recache"),
                      call[u].op = "updateProperties", ~mixed
               PROVE  call[u].token \notin used
    BY DEF Sound
  <2>1. UnusedBy(call[u])
    BY DEF TokensUnused
  <2> QED  BY <2>1 DEF UnusedBy, Goes, Changing
<1> QED  BY <1>1, SoundAlways, PTL DEF Spec, TokenUsedOnce

\* When no call is in progress, the cached object says what the node says and its
\* token is the last change event of the content.
THEOREM CacheCoherentAtRest == Spec => []CoherentAtRest
<1>1. Sound => CoherentAtRest
  <2> SUFFICES ASSUME AllSettled, AtRest, ~mixed, ~failed
               PROVE  stored.token = last /\ (cached # NoObject => heap[cached] = Says(stored))
    BY DEF Sound, CoherentAtRest
  <2>1. \A u \in User : ~Underway(u)
    BY DEF AtRest, Busy, Underway, Recorders
  <2> QED  BY <2>1 DEF AllSettled, Coherent, True
<1> QED  BY <1>1, SoundAlways, PTL

\* When no call is in progress, the cached latest change is the latest one.
THEOREM LatestChangeAtRest == Spec => []LatestAtRest
<1>1. Sound => LatestAtRest
  <2> SUFFICES ASSUME Typed, Current, AtRest, ~crossed, ~failed
               PROVE  latest \in {events, NoChange}
    BY DEF Sound, LatestAtRest
  <2>1. \A u \in User : call[u] = Rest
    BY DEF AtRest, Busy, Typed, Knows
  <2>2. \A u \in User : call[u].step \notin {"latest", "note"}
    BY <2>1 DEF Rest
  <2> QED  BY <2>2 DEF Current
<1> QED  BY <1>1, SoundAlways, PTL

=============================================================================
