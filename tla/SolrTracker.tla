----------------------------- MODULE SolrTracker -----------------------------
(***************************************************************************)
(* The change log of a repository, the CMIS calls that append to it, and   *)
(* the tracker inside Solr that reads it and keeps the search index.       *)
(*                                                                         *)
(* A call writes the content, stamps a change event with the clock, stores *)
(* the event, and (for a deletion) only then removes the content: four     *)
(* steps that other calls and the tracker interleave with.  A tracker run  *)
(* asks for the changes from its last token, handles the last event of     *)
(* each object, and stores the token of the last change it was given.      *)
(*                                                                         *)
(* Abstractions: a content is its version number; paging, full-text        *)
(* extraction and the Solr schema are left out; one repository is tracked. *)
(* The registration threads of a run are joined one after the other, so    *)
(* they are one sequence of registrations; a thread that dies loses the    *)
(* event it died on.                                                       *)
(***************************************************************************)
EXTENDS Integers, FiniteSets

CONSTANTS
  Caller,     \* threads of the core server that run CMIS calls
  Obj,        \* content ids
  Ids,        \* ids the database gives to change documents, in view order
  LastMilli,  \* bound of the clock
  DeltaItems, \* cmis.changelog.items.delta
  FullItems,  \* cmis.changelog.items.full
  Kinds,      \* the kinds of change the calls make
  Indexing,   \* subset of BOOLEAN: does SearchEngineServiceWrapper override
              \* the call, so that it asks for indexing before it returns
  Forced,     \* solr.indexing.force
  Cron,       \* solr.tracking.cron.enabled
  Admin,      \* the administrator's requests that occur: "INIT", "FULL"
  Faults,     \* the failures that occur
  Budget,     \* bound on the number of failures and administrator's requests
  NoToken,    \* the empty token
  Nobody,     \* the run was started by the scheduler or an administrator
  Nothing     \* no object is being indexed

Change == [id : Ids, t : Nat, obj : Obj, kind : Kinds]

ASSUME SolrTrackerAssumptions ==
  /\ Ids \subseteq Nat /\ IsFiniteSet(Ids)
  /\ LastMilli \in Nat
  /\ DeltaItems \in Nat /\ FullItems \in Nat
  /\ Kinds \subseteq {"CREATED", "UPDATED", "SECURITY", "DELETED"}
  /\ Indexing \subseteq BOOLEAN
  /\ Forced \in BOOLEAN /\ Cron \in BOOLEAN
  /\ Admin \subseteq {"INIT", "FULL"}
  /\ Faults \subseteq {"crash", "read", "store", "request", "timeout"}
  /\ Budget \in Nat
  /\ NoToken \notin Change
  /\ Nobody \notin Caller
  /\ Nothing \notin Obj /\ Nothing \notin [obj : Obj, version : Nat]

Op == [step : {"idle", "stamp", "append", "remove", "index", "wait"},
       obj : Obj \cup {Nothing}, t : Nat, asks : BOOLEAN,
       kind : {"CREATED", "UPDATED", "SECURITY", "DELETED"}]

VARIABLES
  clock,    \* System.currentTimeMillis()
  live,     \* the contents in the repository database
  version,  \* how often each content was written
  log,      \* the change documents
  op,       \* what each caller is doing
  index,    \* the version of each content in the Solr index; 0: no entry
  token,    \* the change named by the token stored in Solr
  run,      \* the tracker's run in progress
  fullDue,  \* a full indexing has cleared the core and not yet started
  budget,   \* failures and administrator's requests left
  ordered,  \* history: every change was stored with a later stamp than the rest
  given     \* history: the changes that were given to a run

vars == <<clock, live, version, log, op, index, token, run, fullDue, budget,
          ordered, given>>
core    == <<clock, live, version, log, ordered>>
tracker == <<index, token, run, fullDue, given>>

\* No call, and no run, in progress.
Rest == [step |-> "idle", obj |-> Nothing, kind |-> "CREATED", t |-> 0,
         asks |-> FALSE]
Idle == [step |-> "idle", full |-> FALSE, by |-> Nobody, todo |-> {},
         got |-> Nothing, next |-> NoToken]

-----------------------------------------------------------------------------
(***************************************************************************)
(* The change log                                                          *)
(***************************************************************************)

\* The view changesByToken: by milliseconds, equal ones by document id.
Before(d, e) == d.t < e.t \/ (d.t = e.t /\ d.id < e.id)

\* A mistake the runs catch: the start key is exclusive.
AnswerAfter(tok, n) ==
  LET from == {e \in log : tok = NoToken \/ e.t > tok.t}
  IN {e \in from : Cardinality({d \in from : Before(d, e)}) < n}

\* getLatestChanges: at most n changes, from the milliseconds of the token on.
Answer(tok, n) ==
  LET from == {e \in log : tok = NoToken \/ e.t >= tok.t}
  IN {e \in from : Cardinality({d \in from : Before(d, e)}) < n}

\* Mistakes the runs catch: the first item is discarded in the first crawl too; it never is.
EventsAlwaysDiscarding(answer, tok) == {e \in answer : \E d \in answer : Before(d, e)}
EventsNeverDiscarding(answer, tok) == answer

\* After the first crawl the first item is discarded.
Events(answer, tok) ==
  {e \in answer : tok = NoToken \/ \E d \in answer : Before(d, e)}

\* A mistake the runs catch: the first event of each object is kept instead.
ExtractFirstEvent(events) ==
  {e \in events : \A d \in events : d.obj = e.obj => ~Before(d, e)}

\* Only the last event of each object is handled.
ExtractChangeEvent(events) ==
  {e \in events : \A d \in events : d.obj = e.obj => ~Before(e, d)}

-----------------------------------------------------------------------------
(***************************************************************************)
(* CMIS calls                                                              *)
(***************************************************************************)

\* A client uses a new content only after the call that made it: a content
\* has at most one call between its write and the end of its change event.
InFlight(o) ==
  \E c \in Caller : op[c].obj = o /\ op[c].step \in {"stamp", "append", "remove"}

\* The write lock of the content; a creation locks nothing.  Without forced
\* indexing the caller keeps it while it waits for Solr.
HoldsLock(c, o) ==
  /\ op[c].obj = o
  /\ op[c].kind # "CREATED"
  /\ op[c].step \in {"stamp", "append", "remove"} \cup
                    (IF Forced THEN {} ELSE {"index", "wait"})

Locked(o) == \E c \in Caller : HoldsLock(c, o)

Appending == {c \in Caller : op[c].step \in {"stamp", "append"}}

\* Bound: the ids last for every call that was let in.
Room == Cardinality(log) + Cardinality(Appending) < Cardinality(Ids)

\* The content is written (a deletion has only read it), the lock is held.
Begin(c, o, k, asks) ==
  /\ op[c].step = "idle"
  /\ Room
  /\ ~InFlight(o) /\ ~Locked(o)
  /\ k = "CREATED" <=> o \notin live
  /\ live' = live \cup {o}
  /\ version' = [version EXCEPT ![o] =
                   IF k \in {"CREATED", "UPDATED"} THEN @ + 1 ELSE @]
  /\ op' = [op EXCEPT ![c] = [step |-> "stamp", obj |-> o, kind |-> k,
                              t |-> 0, asks |-> asks]]
  /\ UNCHANGED <<clock, log, ordered, tracker, budget>>

\* setSignature: the token is the time before the change is stored.
Stamp(c) ==
  /\ op[c].step = "stamp"
  /\ op' = [op EXCEPT ![c].step = "append", ![c].t = clock]
  /\ UNCHANGED <<core, tracker, budget>>

\* The call asks for indexing before it returns: every write of a content
\* does unless indexing is forced, and then some of the calls' wrappers do.
Returns(c) ==
  IF ~Forced \/ op[c].asks THEN [op[c] EXCEPT !.step = "index"] ELSE Rest

\* contentDaoService.create(change), then the change token of the content.
Append(c) ==
  /\ op[c].step = "append"
  /\ \E i \in Ids \ {e.id : e \in log} :
       log' = log \cup {[id |-> i, t |-> op[c].t, obj |-> op[c].obj,
                         kind |-> op[c].kind]}
  /\ ordered' = (ordered /\ \A e \in log : e.t < op[c].t)
  /\ op' = [op EXCEPT ![c] =
              IF Forced /\ op[c].kind = "DELETED" THEN [@ EXCEPT !.step = "remove"]
              ELSE Returns(c)]
  /\ UNCHANGED <<clock, live, version, tracker, budget>>

\* The content is removed after its DELETED event was stored.
Remove(c) ==
  /\ op[c].step = "remove"
  /\ live' = live \ {op[c].obj}
  /\ op' = [op EXCEPT ![c] = Returns(c)]
  /\ UNCHANGED <<clock, version, log, ordered, tracker, budget>>

Tick ==
  /\ clock < LastMilli
  /\ clock' = clock + 1
  /\ UNCHANGED <<live, version, log, ordered, op, tracker, budget>>

-----------------------------------------------------------------------------
(***************************************************************************)
(* Tracker runs.  LOCK is static: there is one run at a time.              *)
(***************************************************************************)

Occurs(fault) == fault \in Faults /\ budget > 0

\* What a step that may fail spends.
Outcome(fault) == IF Occurs(fault) THEN BOOLEAN ELSE {FALSE}
Spends(failed) == budget' = IF failed THEN budget - 1 ELSE budget

Limit == IF run.full THEN FullItems ELSE DeltaItems

\* The caller that asked for the run goes on with its call.
Resume(c) ==
  op' = [op EXCEPT ![c] =
           IF ~Forced /\ @.kind = "DELETED" /\ @.obj \in live
           THEN [@ EXCEPT !.step = "remove"] ELSE Rest]

RunEnds ==
  /\ run' = Idle
  /\ IF run.by = Nobody THEN op' = op ELSE Resume(run.by)

\* A mistake the runs catch: the caller does not wait for the answer.
CallIndexingAsync(c) ==
  /\ op[c].step = "index"
  /\ run.step = "idle"
  /\ run' = [Idle EXCEPT !.step = "ask", !.by = c]
  /\ op' = [op EXCEPT ![c] = Rest]
  /\ UNCHANGED <<core, index, token, fullDue, given, budget>>

\* A caller asks for delta indexing.
CallIndexing(c) ==
  /\ op[c].step = "index"
  /\ run.step = "idle"
  /\ run' = [Idle EXCEPT !.step = "ask", !.by = c]
  /\ op' = [op EXCEPT ![c].step = "wait"]
  /\ UNCHANGED <<core, index, token, fullDue, given, budget>>

\* CoreTrackerJob.execute.
Schedule ==
  /\ Cron
  /\ run.step = "idle"
  /\ run' = [Idle EXCEPT !.step = "ask"]
  /\ UNCHANGED <<core, op, index, token, fullDue, given, budget>>

\* initCore; a full indexing starts with it.
InitCore(action) ==
  /\ action \in Admin
  /\ budget > 0
  /\ run.step = "idle"
  /\ index' = [o \in Obj |-> 0]
  /\ \E failed \in (IF "store" \in Faults THEN BOOLEAN ELSE {FALSE}) :
       token' = IF failed THEN token ELSE NoToken
  /\ fullDue' = (fullDue \/ action = "FULL")
  /\ budget' = budget - 1
  /\ UNCHANGED <<core, op, run, given>>

StartFull ==
  /\ fullDue
  /\ run.step = "idle"
  /\ fullDue' = FALSE
  /\ run' = [Idle EXCEPT !.step = "ask", !.full = TRUE]
  /\ UNCHANGED <<core, op, index, token, given, budget>>

\* getCmisChangeLog, then the second readLatestChangeToken; a read that fails
\* finds no token and stores the empty one.
KeptToken(failed1, failed2) == IF failed1 \/ failed2 THEN NoToken ELSE token
Received(failed1) == Answer(IF failed1 THEN NoToken ELSE token, Limit)
NewEvents(failed1, failed2) ==
  Events(Received(failed1), KeptToken(failed1, failed2))

AskNothingNew(failed1, failed2) ==
  /\ run.step = "ask"
  /\ NewEvents(failed1, failed2) = {}
  /\ token' = KeptToken(failed1, failed2)
  /\ Spends(failed1 \/ failed2)
  /\ RunEnds
  /\ UNCHANGED <<core, index, fullDue, given>>

AskChanges(failed1, failed2) ==
  /\ run.step = "ask"
  /\ NewEvents(failed1, failed2) # {}
  /\ token' = KeptToken(failed1, failed2)
  /\ Spends(failed1 \/ failed2)
  /\ given' = given \cup NewEvents(failed1, failed2)
  /\ \E last \in Received(failed1) :
       /\ \A e \in Received(failed1) : ~Before(last, e)
       /\ run' = [run EXCEPT !.step = "index", !.next = last,
                    !.todo = ExtractChangeEvent(NewEvents(failed1, failed2))]
  /\ UNCHANGED <<core, op, index, fullDue>>

\* The event Registration.run has come to.
Current(e) ==
  /\ run.step = "index" /\ run.got = Nothing
  /\ e \in run.todo
  /\ \A d \in run.todo : ~Before(d, e)

Handled(e) == run' = [run EXCEPT !.todo = @ \ {e}]

\* cache.delete needs the write lock of the content.
CacheCleaned(e) == ~Locked(e.obj)

\* It gives up after five seconds and the thread dies, with the events that were
\* left of its part of the list: always if the holder waits for this run or for
\* LOCK, and otherwise only if the holder is slow.
TimeOut(e) ==
  /\ Current(e)
  /\ Locked(e.obj)
  /\ \/ /\ \E c \in Caller : HoldsLock(c, e.obj) /\ op[c].step \in {"index", "wait"}
        /\ budget' = budget
     \/ /\ Occurs("timeout")
        /\ budget' = budget - 1
  /\ \E left \in SUBSET (run.todo \ {e}) :
       /\ \A x \in left : \A d \in run.todo \ {e} : Before(d, x) => d \in left
       /\ run' = [run EXCEPT !.todo = @ \ ({e} \cup left)]
  /\ UNCHANGED <<core, op, index, token, fullDue, given>>

\* registerSolrDocument: the content is read as it is now ...
ReadContent(e) ==
  /\ Current(e) /\ CacheCleaned(e)
  /\ e.kind \in {"CREATED", "UPDATED"}
  /\ e.obj \in live
  /\ run' = [run EXCEPT !.todo = @ \ {e},
                        !.got = [obj |-> e.obj, version |-> version[e.obj]]]
  /\ UNCHANGED <<core, op, index, token, fullDue, given, budget>>

\* ... and skipped when it is gone.
SkipContent(e) ==
  /\ Current(e) /\ CacheCleaned(e)
  /\ e.kind \in {"CREATED", "UPDATED"}
  /\ e.obj \notin live
  /\ Handled(e)
  /\ UNCHANGED <<core, op, index, token, fullDue, given, budget>>

\* The update request; a failure is logged and forgotten.
SendUpdate(failed) ==
  /\ run.step = "index" /\ run.got # Nothing
  /\ index' = IF failed THEN index
              ELSE [index EXCEPT ![run.got.obj] = run.got.version]
  /\ run' = [run EXCEPT !.got = Nothing]
  /\ Spends(failed)
  /\ UNCHANGED <<core, op, token, fullDue, given>>

\* deleteSolrDocument.
RemoveEntry(e, failed) ==
  /\ Current(e) /\ CacheCleaned(e)
  /\ e.kind = "DELETED"
  /\ index' = IF failed THEN index ELSE [index EXCEPT ![e.obj] = 0]
  /\ Handled(e)
  /\ Spends(failed)
  /\ UNCHANGED <<core, op, token, fullDue, given>>

\* Any other change is ignored.
IgnoreChange(e) ==
  /\ Current(e) /\ CacheCleaned(e)
  /\ e.kind = "SECURITY"
  /\ Handled(e)
  /\ UNCHANGED <<core, op, index, token, fullDue, given, budget>>

\* storeLatestChangeToken; a full run asks again, until nothing is new.
StoreToken(failed) ==
  /\ run.step = "index" /\ run.todo = {} /\ run.got = Nothing
  /\ token' = IF failed THEN token ELSE run.next
  /\ IF run.full
     THEN run' = [run EXCEPT !.step = "ask", !.next = NoToken] /\ op' = op
     ELSE RunEnds
  /\ Spends(failed)
  /\ UNCHANGED <<core, index, fullDue, given>>

\* Solr goes down in the middle of a run; the call that asked for it fails.
Crash ==
  /\ Occurs("crash")
  /\ run.step # "idle" \/ fullDue
  /\ run' = Idle
  /\ fullDue' = FALSE
  /\ op' = IF run.by = Nobody THEN op ELSE [op EXCEPT ![run.by] = Rest]
  /\ budget' = budget - 1
  /\ UNCHANGED <<core, index, token, given>>

-----------------------------------------------------------------------------

Init ==
  /\ clock = 0
  /\ live = {}
  /\ version = [o \in Obj |-> 0]
  /\ log = {}
  /\ op = [c \in Caller |-> Rest]
  /\ index = [o \in Obj |-> 0]
  /\ token = NoToken
  /\ run = Idle
  /\ fullDue = FALSE
  /\ budget = Budget
  /\ ordered = TRUE
  /\ given = {}

Calls ==
  \/ \E c \in Caller, o \in Obj, k \in Kinds, asks \in Indexing : Begin(c, o, k, asks)
  \/ \E c \in Caller : Stamp(c) \/ Append(c) \/ Remove(c) \/ CallIndexing(c)
  \/ Tick

Registers ==
  \E e \in run.todo :
    \/ TimeOut(e)
    \/ ReadContent(e)
    \/ SkipContent(e)
    \/ \E failed \in Outcome("request") : RemoveEntry(e, failed)
    \/ IgnoreChange(e)

Asks ==
  \E failed1, failed2 \in Outcome("read") :
    AskNothingNew(failed1, failed2) \/ AskChanges(failed1, failed2)

Advances ==
  \/ Asks
  \/ Registers
  \/ \E failed \in Outcome("request") : SendUpdate(failed)
  \/ \E failed \in Outcome("store") : StoreToken(failed)

Next ==
  \/ Calls
  \/ Schedule
  \/ StartFull
  \/ Advances
  \/ \E action \in {"INIT", "FULL"} : InitCore(action)
  \/ Crash

Spec == Init /\ [][Next]_vars

\* A caller and the tracker go on while they can; the scheduler fires; calls,
\* the administrator and failures need not come.
Fairness ==
  /\ \A c \in Caller : /\ WF_vars(Stamp(c) \/ Append(c) \/ Remove(c))
                       /\ SF_vars(CallIndexing(c))
  /\ WF_vars(Schedule)
  /\ SF_vars(StartFull)
  /\ WF_vars(Advances)

FairSpec == Spec /\ Fairness

-----------------------------------------------------------------------------
(***************************************************************************)
(* Properties                                                              *)
(***************************************************************************)

\* Every variable holds a value of its kind, and the caller that asked for the
\* run in progress is the one that waits.
TypeOK ==
  /\ clock \in Nat
  /\ live \subseteq Obj
  /\ version \in [Obj -> Nat]
  /\ log \subseteq Change
  /\ op \in [Caller -> Op]
  /\ \A c \in Caller : op[c].step # "idle" => op[c].obj \in Obj /\ op[c].kind \in Kinds
  /\ \A c \in Caller : op[c].step = "wait" <=> run.by = c
  /\ index \in [Obj -> Nat]
  /\ token \in log \cup {NoToken}
  /\ run \in [step : {"idle", "ask", "index"}, full : BOOLEAN,
              by : Caller \cup {Nobody}, todo : SUBSET log,
              got : [obj : Obj, version : Nat] \cup {Nothing},
              next : log \cup {NoToken}]
  /\ run.step = "index" => run.next \in log
  /\ fullDue \in BOOLEAN
  /\ budget \in Nat
  /\ ordered \in BOOLEAN
  /\ given \subseteq log

\* A change the stored token has gone past.
Past(e) == token # NoToken /\ ~Before(token, e)

\* The index says of the content what the repository says.
InSync(o) == index[o] = IF o \in live THEN version[o] ELSE 0

\* While every change is stored with a later time than those before it, the
\* token never goes past a change that no run was given: not after a crash
\* between indexing and storing the token, a failed read or write of the token,
\* a full indexing, or a delta shorter than the log (CoreTracker.index).
Delivered == ordered => \A e \in log : Past(e) => e \in given

\* While every change is stored in order and nothing is lost on the way, a
\* content is out of step with the index only if a call on it is in flight or
\* the log holds a change of it ahead of the token (CoreTracker.index,
\* Registration.run, and the order of event and removal in delete).
IndexedUpToToken ==
  ordered => \A o \in Obj :
    \/ InSync(o)
    \/ InFlight(o)
    \/ \E e \in log : e.obj = o /\ ~Past(e)

\* With indexing forced and every call wrapped, the index follows the repository
\* as soon as no call is running ("the index is updated synchronously"), as long
\* as nothing failed and the administrator did not ask for a full indexing.
SyncWhenQuiet ==
  (ordered /\ budget = Budget /\ \A c \in Caller : op[c].step = "idle")
    => \A o \in Obj : InSync(o)

\* The contents the stored token has not caught up with.
Dirty == {o \in Obj : InFlight(o) \/ \E e \in log : e.obj = o /\ ~Past(e)}

Feed == INSTANCE ChangeFeed WITH
          content <- [o \in Obj |-> IF o \in live THEN version[o] ELSE 0],
          dirty <- Dirty,
          lost <- ~ordered

\* When nothing is lost on the way the tracker implements the feed: whatever
\* the order of calls, runs, crashes and full indexings, an entry of a content
\* the token has passed is never touched, and never goes back to an older
\* version (CoreTracker.index, Registration.run, storeLatestChangeToken).
FollowsFeed == Feed!Spec

\* In the end the index is in step with the repository for good.
Converges == <>[](ordered => \A o \in Obj : InSync(o))

\* A full indexing ends, as long as the changes are stored in order.
OrderedFullEnds == (run.full /\ ordered) ~> (~run.full \/ ~ordered)

=============================================================================
