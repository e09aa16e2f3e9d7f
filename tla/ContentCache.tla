----------------------------- MODULE ContentCache -----------------------------
(***************************************************************************)
(* One content of a repository under update: its node in the database, the *)
(* content cache, whose objects are shared by the threads and changed in   *)
(* place, the change token that makes updates optimistic, and the cache of *)
(* the latest change.                                                      *)
(*                                                                         *)
(* One action is what a thread does between two points where another can   *)
(* come in: a database call, a cache operation, a lock.                    *)
(*                                                                         *)
(* Abstractions: the fields a call changes are one value; permissions and  *)
(* types are left out, and so is the cache of compiled objects; no other   *)
(* id shares the content's lock stripe.  A caller has one call at a time.  *)
(***************************************************************************)
EXTENDS Integers, FiniteSets

CONSTANTS
  User,      \* callers
  Object,    \* numbers of the Java objects that hold the content: bounds how many
             \* there are at a time
  NoObject,  \* null
  NoChange,  \* no cached change
  Calls,     \* the calls that are made
  Faulty,    \* whether a database call may fail, once
  Budget     \* bound on the number of calls

ASSUME ContentCacheAssumptions ==
  /\ Object \subseteq Nat /\ NoObject \notin Object /\ NoChange \notin Nat
  /\ Faulty \in BOOLEAN /\ Budget \in Nat
  /\ IsFiniteSet(User)
  /\ IsFiniteSet(Object) => Cardinality(Object) > 2 * Cardinality(User)  \* room for a new one

VARIABLES
  stored,   \* the node: what it says, its change token, its revision
  heap,     \* what each object says
  cached,   \* the object in the content cache
  events,   \* the number of changes recorded, of any content
  latest,   \* the cached latest change
  call,     \* what each caller is doing
  budget,   \* calls left
  last,     \* history: the last change recorded for this content
  used,     \* history: the tokens updates have completed with
  mixed,    \* history: two calls have used the content at once, one of them to
            \* change it, and no lock kept them apart
  crossed,  \* history: two calls went through the latest change at once
  failed    \* history: a call ended half-way

vars == <<stored, heap, cached, events, latest, call, budget, last, used, mixed,
          crossed, failed>>

-----------------------------------------------------------------------------
(***************************************************************************)
(* Calls in progress                                                       *)
(***************************************************************************)

\* updateProperties takes the write lock, applyAcl and getObject the read lock;
\* the look at a content on behalf of another one, the change event of another
\* content and getRepositoryInfo take no lock of this content.
Locking == {"updateProperties", "applyAcl", "getObject"}
Recorders == {"updateProperties", "applyAcl"}
AllCalls == Locking \cup Recorders \cup {"look", "other", "ask"}

\* No call.
Rest == [op |-> "none", step |-> "end", token |-> 0, object |-> NoObject,
         result |-> NoObject, rev |-> 0, event |-> NoChange, change |-> NoChange]

Goes(u, step) == call[u].step = step
Busy(u) == call[u].op # "none"

\* The call that ends releases its lock.
Set(u, c) == call' = [call EXCEPT ![u] = IF c.step = "end" THEN Rest ELSE c]

\* getWriteLock, getReadLock.
Writing(u) == call[u].op = "updateProperties" /\ ~Goes(u, "lock")
Reading(u) == call[u].op \in {"applyAcl", "getObject"} /\ ~Goes(u, "lock")

\* The mistake TokenUsedOnce would catch: an update waits for no other update.
MayLockBeside(u) ==
  call[u].op = "updateProperties" \/ \A v \in User \ {u} : ~Writing(v)

MayLock(u) ==
  \A v \in User \ {u} :
    ~Writing(v) /\ (call[u].op = "updateProperties" => ~Reading(v))

\* A new object, at a place no other one has; those that nothing refers to any
\* more are collected.
Referred == Object \cap ({cached} \cup {call[u].object : u \in User} \cup {call[u].result : u \in User})
NewObject == CHOOSE o \in Object \ Referred : \A p \in Object \ Referred : o <= p
Makes(n) == heap' = [p \in Referred \cup {NewObject} |-> IF p = NewObject THEN n ELSE heap[p]]

Says(n) == [value |-> n.value, token |-> n.token]

\* Another call is using the content, and one of the two is to change it,
\* without a lock that keeps the other one out.
Meets(u) ==
  mixed' = (mixed \/ \E v \in User \ {u} :
              LET ops == {call[u].op, call[v].op} IN
              /\ call[v].object # NoObject
              /\ ops \cap Recorders # {}
              /\ ~(ops \subseteq Locking /\ "updateProperties" \in ops))

\* Another call is between reading the latest change and caching it.
Crosses(u) == crossed' = (crossed \/ \E v \in User \ {u} : Goes(v, "note"))

Tracks == <<last, used, mixed, crossed, failed>>

-----------------------------------------------------------------------------
(***************************************************************************)
(* The steps                                                               *)
(***************************************************************************)

\* A client passes the token it has seen, which may be any one.
Send(u, op, token) ==
  /\ op \in Calls /\ ~Busy(u) /\ budget > 0
  /\ budget' = budget - 1
  /\ Set(u, [Rest EXCEPT !.op = op, !.token = token,
               !.step = CASE op \in Locking -> "lock"
                          [] op = "other" -> "event"
                          [] op = "ask" -> "ask"
                          [] OTHER -> "get"])
  /\ UNCHANGED <<stored, heap, cached, events, latest, Tracks>>

Lock(u) ==
  /\ Goes(u, "lock") /\ MayLock(u)
  /\ Set(u, [call[u] EXCEPT !.step = "get"])
  /\ UNCHANGED <<stored, heap, cached, events, latest, budget, Tracks>>

\* What a call does once it has the content.
Has(c, o) ==
  [c EXCEPT !.object = o,
            !.step = CASE c.op \in {"getObject", "look"} -> "end"
                       [] OTHER -> "change"]

\* getContent: the object in the cache ...
Hit(u) ==
  /\ Goes(u, "get") /\ cached # NoObject
  /\ Set(u, Has(call[u], cached))
  /\ Meets(u)
  /\ UNCHANGED <<stored, heap, cached, events, latest, budget, last, used, crossed, failed>>

\* ... or a new one, read from the database ...
Miss(u) ==
  /\ Goes(u, "get") /\ cached = NoObject
  /\ Makes(Says(stored))
  /\ Set(u, [call[u] EXCEPT !.object = NewObject, !.step = "put"])
  /\ Meets(u)
  /\ UNCHANGED <<stored, cached, events, latest, budget, last, used, crossed, failed>>

\* ... and then put in the cache.
Put(u) ==
  /\ Goes(u, "put")
  /\ cached' = call[u].object
  /\ Set(u, Has(call[u], call[u].object))
  /\ UNCHANGED <<stored, heap, events, latest, budget, Tracks>>

\* The mistake SavesOnWhatWasRead would catch: updateConflict lets through a token
\* that is not newer than the content's.
ChangeIfNotNewer(u) ==
  LET c == call[u] IN
  /\ Goes(u, "change")
  /\ c.op = "updateProperties" => c.token <= heap[c.object].token
  /\ heap' = [heap EXCEPT ![c.object].value = Budget - budget]
  /\ Set(u, [c EXCEPT !.step = "write", !.rev = stored.rev])
  /\ UNCHANGED <<stored, cached, events, latest, budget, Tracks>>

\* updateConflict: nothing has been written yet.
Conflict(u) ==
  /\ Goes(u, "change") /\ call[u].op = "updateProperties"
  /\ call[u].token # heap[call[u].object].token
  /\ Set(u, Rest)
  /\ UNCHANGED <<stored, heap, cached, events, latest, budget, Tracks>>

\* The object is changed in place; update reads the revision to replace.
Change(u) ==
  LET c == call[u] IN
  /\ Goes(u, "change")
  /\ c.op = "updateProperties" => c.token = heap[c.object].token
  /\ heap' = [heap EXCEPT ![c.object].value = Budget - budget]
  /\ Set(u, [c EXCEPT !.step = "write", !.rev = stored.rev])
  /\ UNCHANGED <<stored, cached, events, latest, budget, Tracks>>

\* The database replaces the revision that was read, and update returns a new
\* object ...
Writes(u, next) ==
  LET c == call[u] IN
  /\ c.rev = stored.rev
  /\ stored' = [value |-> heap[c.object].value, token |-> heap[c.object].token,
                rev |-> stored.rev + 1]
  /\ Makes(heap[c.object])
  /\ Set(u, [c EXCEPT !.step = next, !.result = NewObject])
  /\ UNCHANGED <<cached, events, latest, budget, Tracks>>

Write(u) ==
  \/ Goes(u, "write") /\ Writes(u, "cache")
  \/ Goes(u, "rewrite") /\ Writes(u, "recache")

\* ... which goes into the cache.  updateProperties goes on with it, applyAcl
\* with the one it had.
Cache(u) ==
  LET c == call[u] IN
  /\ Goes(u, "cache")
  /\ cached' = c.result
  /\ Set(u, [c EXCEPT !.step = "event", !.result = NoObject,
                      !.object = IF c.op = "updateProperties" THEN c.result ELSE @])
  /\ UNCHANGED <<stored, heap, events, latest, budget, Tracks>>

\* writeChangeEvent: the change is stored, ...
Event(u) ==
  LET c == call[u] IN
  /\ Goes(u, "event")
  /\ events' = events + 1
  /\ last' = IF c.op = "other" THEN last ELSE events + 1
  /\ Set(u, [c EXCEPT !.step = "latest", !.event = events + 1])
  /\ Crosses(u)
  /\ UNCHANGED <<stored, heap, cached, latest, budget, used, mixed, failed>>

\* The mistakes LatestAtRest and TypeOK would catch: the cached change is not
\* replaced; the token is the id the change had before it was stored, none.
NoteOnce(u) ==
  LET c == call[u] IN
  /\ Goes(u, "note")
  /\ latest' = IF latest = NoChange THEN c.change ELSE latest
  /\ Set(u, [c EXCEPT !.step = IF c.op \in Recorders THEN "mark" ELSE "end"])
  /\ UNCHANGED <<stored, heap, cached, events, budget, Tracks>>

MarkWithoutId(u) ==
  LET c == call[u] IN
  /\ Goes(u, "mark")
  /\ heap' = [heap EXCEPT ![c.object].token = NoChange]
  /\ Set(u, [c EXCEPT !.step = "rewrite", !.rev = stored.rev])
  /\ UNCHANGED <<stored, cached, events, latest, budget, Tracks>>

\* ... the latest one is read back, ...
Latest(u) ==
  LET c == call[u] IN
  /\ Goes(u, "latest")
  /\ Set(u, IF events = 0 THEN Rest ELSE [c EXCEPT !.step = "note", !.change = events])
  /\ UNCHANGED <<stored, heap, cached, events, latest, budget, Tracks>>

\* ... and cached; the content's token is the change just stored, ...
Note(u) ==
  LET c == call[u] IN
  /\ Goes(u, "note")
  /\ latest' = c.change
  /\ Set(u, [c EXCEPT !.step = IF c.op \in Recorders THEN "mark" ELSE "end"])
  /\ UNCHANGED <<stored, heap, cached, events, budget, Tracks>>

\* ... set in place, before the content is saved again.
Mark(u) ==
  LET c == call[u] IN
  /\ Goes(u, "mark")
  /\ heap' = [heap EXCEPT ![c.object].token = c.event]
  /\ Set(u, [c EXCEPT !.step = "rewrite", !.rev = stored.rev])
  /\ UNCHANGED <<stored, cached, events, latest, budget, Tracks>>

\* The mistake CoherentAtRest would catch: the object that was saved last is
\* not put in the cache.
RecacheForgotten(u) ==
  LET c == call[u] IN
  /\ Goes(u, "recache")
  /\ Set(u, Rest)
  /\ used' = IF c.op = "updateProperties" THEN used \cup {c.token} ELSE used
  /\ UNCHANGED <<stored, heap, cached, events, latest, budget, last, mixed, crossed, failed>>

Recache(u) ==
  LET c == call[u] IN
  /\ Goes(u, "recache")
  /\ cached' = c.result
  /\ Set(u, Rest)
  /\ used' = IF c.op = "updateProperties" THEN used \cup {c.token} ELSE used
  /\ UNCHANGED <<stored, heap, events, latest, budget, last, mixed, crossed, failed>>

\* A write whose revision has been replaced throws, and so may any database
\* call; what has been written or changed in place stays.
Throws(u) ==
  /\ \/ call[u].step \in {"write", "rewrite"} /\ call[u].rev # stored.rev
     \/ call[u].step \in {"write", "event", "latest", "rewrite"} /\ Faulty /\ ~failed
  /\ Set(u, Rest)
  /\ failed' = TRUE
  /\ UNCHANGED <<stored, heap, cached, events, latest, budget, last, used, mixed, crossed>>

\* getLatestChangeToken of getRepositoryInfo: the cached change, or the one in
\* the database.
Ask(u) ==
  /\ Goes(u, "ask")
  /\ Set(u, [call[u] EXCEPT !.step = IF latest = NoChange THEN "latest" ELSE "end"])
  /\ UNCHANGED <<stored, heap, cached, events, latest, budget, Tracks>>

\* The caches drop entries after an hour, or when they are full; the tracker's
\* REST call, and the tasks of applyAcl, drop the content.
Expire ==
  /\ \/ cached # NoObject /\ cached' = NoObject /\ UNCHANGED latest
     \/ latest # NoChange /\ latest' = NoChange /\ UNCHANGED cached
  /\ UNCHANGED <<stored, heap, events, call, budget, Tracks>>

-----------------------------------------------------------------------------

Init ==
  /\ stored = [value |-> 0, token |-> 0, rev |-> 0]
  /\ heap = [o \in {} |-> Says(stored)]
  /\ cached = NoObject
  /\ events = 0 /\ latest = NoChange
  /\ call = [u \in User |-> Rest]
  /\ budget = Budget
  /\ last = 0 /\ used = {}
  /\ mixed = FALSE /\ crossed = FALSE /\ failed = FALSE

Advances(u) ==
  \/ Lock(u) \/ Hit(u) \/ Miss(u) \/ Put(u)
  \/ Conflict(u) \/ Change(u) \/ Write(u) \/ Cache(u)
  \/ Event(u) \/ Latest(u) \/ Note(u) \/ Mark(u) \/ Recache(u)
  \/ Throws(u) \/ Ask(u)

Next ==
  \/ \E u \in User :
       \/ \E op \in AllCalls, token \in 0..events :
            (op # "updateProperties" => token = 0) /\ Send(u, op, token)
       \/ Advances(u)
  \/ Expire

Spec == Init /\ [][Next]_vars

-----------------------------------------------------------------------------
(***************************************************************************)
(* Properties                                                              *)
(***************************************************************************)

Node == [value : Nat, token : Nat]

Call ==
  [op : AllCalls \cup {"none"},
   step : {"lock", "get", "put", "change", "write", "cache", "event", "latest", "note",
           "mark", "rewrite", "recache", "ask", "end"},
   token : Nat, object : Object \cup {NoObject}, result : Object \cup {NoObject},
   rev : Nat, event : Nat \cup {NoChange}, change : Nat \cup {NoChange}]

\* Every variable holds a value of its kind.
TypeOK ==
  /\ stored \in [value : Nat, token : Nat, rev : Nat]
  /\ Referred \subseteq DOMAIN heap /\ heap \in [DOMAIN heap -> Node]
  /\ cached \in Object \cup {NoObject}
  /\ events \in Nat /\ latest \in Nat \cup {NoChange}
  /\ call \in [User -> Call]
  /\ budget \in Nat /\ last \in Nat /\ used \subseteq Nat
  /\ <<mixed, crossed, failed>> \in BOOLEAN \X BOOLEAN \X BOOLEAN

AtRest == \A u \in User : ~Busy(u)

\* updateConflict compares the token with what the cache holds, yet an update
\* that is about to be saved was given the token of the node it replaces: what
\* the client had read has not been overwritten since.  Not so once a call without
\* the write lock has overlapped a change, or a call has ended half-way.
SavesOnWhatWasRead ==
  \A u \in User :
    Goes(u, "write") /\ call[u].op = "updateProperties" /\ ~mixed /\ ~failed
      => call[u].token = stored.token

\* Of the updates made with one token one completes, though others may have
\* ended half-way (not so once a call without the write lock has overlapped a
\* change).
TokenUsedOnce ==
  [][\A u \in User :
       Goes(u, "recache") /\ call[u].op = "updateProperties" /\ call'[u] = Rest
         /\ ~mixed
       => call[u].token \notin used]_vars

\* Between calls, whatever has expired meanwhile: the cached object says what
\* the node says, and its token is the last change recorded for the content.
CoherentAtRest ==
  AtRest /\ ~mixed /\ ~failed =>
    /\ stored.token = last
    /\ cached # NoObject => heap[cached] = Says(stored)

\* Between calls getRepositoryInfo answers with the latest change, as long as
\* no two calls went through its cache at once: the tracker, which compares
\* its token with this one, is not told that it is up to date when it is not.
LatestAtRest ==
  AtRest /\ ~crossed /\ ~failed => latest \in {events, NoChange}
=============================================================================
