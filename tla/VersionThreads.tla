---------------------------- MODULE VersionThreads ----------------------------
(***************************************************************************)
(* The versioning calls as threads run them: a call is a sequence of       *)
(* database writes, without a transaction, under the lock of the one id it *)
(* was given; other calls, and failures, come between the writes.          *)
(*                                                                         *)
(* With a single unguided caller and no failure this is VersionSeries (see *)
(* VersionRefinement), whose guards and written values are used here.      *)
(*                                                                         *)
(* Abstractions, besides those of VersionSeries: the content cache returns *)
(* what the database has; ids do not share a lock stripe; the change event *)
(* of a removed PWC and the removal of its attachment are one step with    *)
(* the removal of the PWC, and archiving an attachment is one with         *)
(* removing it.  A caller has one call in progress.                        *)
(***************************************************************************)
EXTENDS Integers, FiniteSets

CONSTANTS
  Doc, Series, User, Admin, Guided, Absent, NoDoc, Nobody,  \* as in VersionSeries
  Calls,   \* the calls that clients make
  Major,   \* subset of BOOLEAN: the versions made may be minor, major
  Faulty,  \* whether calls may fail on the way
  Budget   \* bound on the number of calls and failures together

VARIABLES
  live,      \* the ids present in the repository database
  rev,       \* the last revision written under each id
  series,    \* the version-series nodes
  attached,  \* the documents whose attachment is in the repository database
  shelved,   \* how many archive records the attachment of each document has
  records,   \* the archive records of documents, each naming a revision
  call,      \* what each caller is doing
  budget,    \* calls and failures left
  mixed,     \* history: the series on which calls have overlapped
  failed,    \* history: the calls that have ended half-way
  destroyed  \* history: the documents whose archive was destroyed

vars == <<live, rev, series, attached, shelved, records, call, budget, mixed,
          failed, destroyed>>
stores == <<live, rev, series, attached, shelved, records, destroyed>>

V == INSTANCE VersionSeries WITH archive <- {r.doc : r \in records},
                                 outcome <- "ok"

ASSUME VersionThreadsAssumptions ==
  /\ IsFiniteSet(User) /\ Admin \subseteq User
  /\ Guided \in BOOLEAN /\ Faulty \in BOOLEAN
  /\ Major \subseteq BOOLEAN
  /\ Budget \in Nat
  /\ Absent \notin V!Revision /\ Absent \notin V!SeriesNode
  /\ NoDoc \notin Doc
  /\ Nobody \notin User

-----------------------------------------------------------------------------
(***************************************************************************)
(* Calls in progress                                                       *)
(***************************************************************************)

\* The order of the steps of each call.
After ==
  [createDocument   |-> [create |-> "resave", resave |-> "end"],
   createPwc        |-> [create |-> "name", name |-> "resave", resave |-> "end"],
   checkOut         |-> [lock |-> "create", create |-> "name", name |-> "resave",
                         resave |-> "end"],
   cancelCheckOut   |-> [lock |-> "remove", remove |-> "clear", clear |-> "latest",
                         latest |-> "lockLatest", lockLatest |-> "end"],
   checkIn          |-> [lock |-> "remove", remove |-> "clear",
                         clear |-> "supersede", supersede |-> "create",
                         create |-> "resave", resave |-> "resaveFormer",
                         resaveFormer |-> "latest", latest |-> "lockLatest",
                         lockLatest |-> "end"],
   setContentStream |-> [lock |-> "supersede", supersede |-> "create",
                         create |-> "resave", resave |-> "resaveFormer",
                         resaveFormer |-> "end"],
   saveVersion      |-> [supersede |-> "create", create |-> "resave",
                         resave |-> "resaveFormer", resaveFormer |-> "end"],
   deleteVersion    |-> [lock |-> "detach", detach |-> "rewrite",
                         rewrite |-> "archive", archive |-> "remove",
                         remove |-> "latest", latest |-> "promote",
                         promote |-> "end"],
   deleteSeries     |-> [lock |-> "detach", detach |-> "rewrite",
                         rewrite |-> "archive", archive |-> "remove",
                         remove |-> "detach"],
   restore          |-> [revive |-> "attach", attach |-> "drop",
                         drop |-> "revive", rewrite |-> "end"],
   destroy          |-> [drop |-> "drop"],
   getAllVersions   |-> [readLock |-> "readLock"]]

\* The calls that lock the document they are given.
Locking == {op \in DOMAIN After : "lock" \in DOMAIN After[op]}

\* An archive record; a document may have several.
Record == [doc : Doc, rev : V!Revision, no : Nat]

\* No call.
Rest == [op |-> "none", step |-> "end", doc |-> NoDoc, at |-> NoDoc,
         former |-> NoDoc, new |-> NoDoc, copy |-> Absent, made |-> Absent, record |-> Absent,
         major |-> FALSE, todo |-> {}, writes |-> {}, reads |-> {}]

Goes(u, step) == call[u].step = step

\* The next step, and the end of the call after the last one; the finally
\* clause releases the locks.
Continues(u, c) ==
  LET next == After[c.op][c.step] IN
  call' = [call EXCEPT ![u] = IF next = "end" THEN Rest ELSE [c EXCEPT !.step = next]]

Ends(u) == call' = [call EXCEPT ![u] = Rest]

\* The call ends with an exception after it has written.
Throws(u) ==
  /\ Ends(u)
  /\ failed' = failed \cup {call[u].op}
  /\ UNCHANGED stores

\* A step that may continue leaves these alone.
Fine == UNCHANGED <<budget, mixed, failed>>

\* The series a call works on.
SeriesOf(c) == IF c.doc = NoDoc THEN c.made.vs ELSE rev[c.doc].vs

\* A call that has got past its lock and may still write.
Works(u) ==
  /\ call[u].op \notin {"none", "getAllVersions"}
  /\ call[u].step \notin {"lock", "lockLatest"}

\* Two calls work on one series.
Mixes(u, s) ==
  mixed' = IF \E v \in User \ {u} : Works(v) /\ SeriesOf(call[v]) = s
           THEN mixed \cup {s} ELSE mixed

-----------------------------------------------------------------------------
(***************************************************************************)
(* Locks                                                                   *)
(***************************************************************************)

\* Locks are reentrant.
MayWrite(u, d) ==
  \A v \in User \ {u} : d \notin call[v].writes /\ d \notin call[v].reads
MayRead(u, d) == \A v \in User \ {u} : d \notin call[v].writes

-----------------------------------------------------------------------------
(***************************************************************************)
(* The client's side: a call is sent                                       *)
(***************************************************************************)

Sends(u, c) ==
  /\ c.op \in Calls
  /\ call[u] = Rest
  /\ call' = [call EXCEPT ![u] = c]
  /\ budget > 0
  /\ budget' = budget - 1

\* A client sees the allowable actions before it sends the call.
Allowed(u, op, d) ==
  Guided =>
    CASE op = "checkOut" -> V!AllowableCheckOut(d)
      [] op \in {"cancelCheckOut", "checkIn"} -> V!AllowableReturn(d)
      [] op \in {"setContentStream", "deleteVersion", "deleteSeries"} ->
           V!AllowableChange(u, d)

Send(u, op, d, isMajor) ==
  /\ op \in Locking
  /\ d \in live
  /\ op = "setContentStream" => ~rev[d].pwc
  /\ Allowed(u, op, d)
  /\ Sends(u, [Rest EXCEPT !.op = op, !.step = "lock", !.doc = d, !.major = isMajor /\ op = "checkIn"])
  /\ UNCHANGED <<stores, mixed, failed>>

\* The series node is created first.
SendCreate(u, s, state) ==
  /\ series[s] = Absent
  /\ state = "MAJOR" => TRUE \in Major
  /\ Sends(u, [Rest EXCEPT
                 !.op = IF state = "CHECKEDOUT" THEN "createPwc" ELSE "createDocument",
                 !.step = "create", !.made = V!FirstVersion(s, state)])
  /\ series' = [series EXCEPT ![s] = V!CheckedIn]
  /\ UNCHANGED <<live, rev, attached, shelved, records, destroyed, mixed, failed>>

\* saveAllVersions takes no lock, and its clients are told no allowable actions:
\* here guided clients send it too.
SendSaveVersion(u, d, isMajor) ==
  /\ d \in live /\ rev[d].latest
  /\ Sends(u, [Rest EXCEPT !.op = "saveVersion", !.step = "supersede", !.doc = d,
                           !.major = isMajor, !.former = d, !.copy = rev[d]])
  /\ Mixes(u, rev[d].vs)
  /\ UNCHANGED <<stores, failed>>

\* Nor do the archive calls, which list the records of the series ...
ArchiveCalls == {"restore", "destroy"}

RecordsOf(s) == {r \in records : rev[r.doc].vs = s}

SendArchiveCall(u, op, d) ==
  /\ op \in ArchiveCalls
  /\ \E r \in records : r.doc = d
  /\ Sends(u, [Rest EXCEPT !.op = op, !.doc = d, !.todo = RecordsOf(rev[d].vs),
                           !.step = IF op = "restore" THEN "revive" ELSE "drop"])
  /\ Mixes(u, rev[d].vs)
  /\ UNCHANGED <<stores, failed>>

\* ... and getAllVersions, which locks the versions it has listed.
SendGetAllVersions(u, d) ==
  /\ d \in live
  /\ Sends(u, [Rest EXCEPT !.op = "getAllVersions", !.step = "readLock", !.doc = d,
                           !.todo = V!Versions(rev[d].vs)])
  /\ UNCHANGED <<stores, mixed, failed>>

-----------------------------------------------------------------------------
(***************************************************************************)
(* The server's side: one step of a call                                   *)
(***************************************************************************)

\* The mistake PwcNamed would catch: checkOut trusts the allowable actions the
\* client saw before it sent the call.
AcceptedUnasked(u, op, d) ==
  /\ d \in live
  /\ V!Permitted(u, d)
  /\ op \in {"checkOut", "setContentStream"} => V!Current(u, d)

\* The checks made under the lock.
Accepted(u, op, d) ==
  /\ d \in live
  /\ V!Permitted(u, d)
  /\ op = "checkOut" => /\ series[rev[d].vs].out => rev[d].pwc
                        /\ d \in attached
  /\ op \in {"checkOut", "setContentStream"} => V!Current(u, d)

\* Takes the lock; a call that is refused has written nothing.
Refuse(u) ==
  LET c == call[u] IN
  /\ Goes(u, "lock") /\ MayWrite(u, c.doc)
  /\ ~Accepted(u, c.op, c.doc)
  /\ Ends(u)
  /\ UNCHANGED stores /\ Fine

\* What the call reads before it writes: the version to supersede (none if the
\* view of the latest versions is empty), or the versions to delete.
Admit(u) ==
  LET c == call[u]
      d == c.doc
      latest == V!LatestVersions(rev[d].vs)
      reads(f) == [c EXCEPT !.writes = {d}, !.former = f,
                            !.copy = IF f = NoDoc THEN Absent ELSE rev[f]]
  IN
  /\ Goes(u, "lock") /\ MayWrite(u, d)
  /\ Accepted(u, c.op, d)
  /\ CASE c.op = "checkIn" ->
            IF latest = {} THEN Continues(u, reads(NoDoc))
            ELSE \E f \in latest : Continues(u, reads(f))
       [] c.op = "setContentStream" -> Continues(u, reads(d))
       [] c.op = "checkOut" ->
            Continues(u, [reads(NoDoc) EXCEPT !.made = V!Pwc(rev[d].vs)])
       [] c.op = "cancelCheckOut" -> Continues(u, reads(NoDoc))
       [] c.op = "deleteVersion" -> Continues(u, [reads(NoDoc) EXCEPT !.todo = {d}])
       [] c.op = "deleteSeries" ->
            Continues(u, [reads(NoDoc) EXCEPT !.todo = V!Versions(rev[d].vs)])
  /\ Mixes(u, rev[d].vs)
  /\ UNCHANGED <<stores, budget, failed>>

\* An update of a document that is no longer there throws.
Writes(d, r) ==
  /\ d \in live
  /\ rev' = [rev EXCEPT ![d] = r]
  /\ UNCHANGED <<live, series, attached, shelved, records, destroyed>> /\ Fine

\* updateVersionProperties: the former version, from the copy of it that was
\* read; the new one is built from the same copy.
Supersede(u) ==
  LET c == call[u] IN
  /\ Goes(u, "supersede")
  /\ Writes(c.former, V!Superseded(c.copy, c.major))
  /\ Continues(u, [c EXCEPT !.copy = V!Superseded(c.copy, c.major),
                            !.made = V!NextVersion(c.copy, c.major)])

SupersedeFails(u) ==
  /\ Goes(u, "supersede") /\ call[u].former \notin live
  /\ Throws(u)
  /\ UNCHANGED <<budget, mixed>>

Create(u) ==
  LET c == call[u] IN
  /\ Goes(u, "create")
  /\ \E n \in Doc :
       /\ V!Fresh(n)
       /\ rev' = [rev EXCEPT ![n] = c.made]
       /\ live' = live \cup {n}
       /\ attached' = attached \cup {n}
       /\ Continues(u, [c EXCEPT !.new = n])
  /\ Mixes(u, c.made.vs)
  /\ UNCHANGED <<series, shelved, records, destroyed, budget, failed>>

\* The mistake SeriesNamesPwc would catch: the series is given the document
\* that was checked out.
NameFormer(u) ==
  LET c == call[u] IN
  /\ Goes(u, "name")
  /\ series' = [series EXCEPT ![c.made.vs] =
                  V!CheckedOut(IF c.doc = NoDoc THEN c.new ELSE c.doc, u)]
  /\ Continues(u, c)
  /\ UNCHANGED <<live, rev, attached, shelved, records, destroyed>> /\ Fine

\* updateVersionSeriesWithPwc.
Name(u) ==
  LET c == call[u] IN
  /\ Goes(u, "name")
  /\ series' = [series EXCEPT ![c.made.vs] = V!CheckedOut(c.new, u)]
  /\ Continues(u, c)
  /\ UNCHANGED <<live, rev, attached, shelved, records, destroyed>> /\ Fine

\* The change event of the new document rewrites it, from the object create
\* returned: the cached one, which other calls change in place, unless the
\* cache has given it up or replaced it.
Resave(u) ==
  LET c == call[u] IN
  /\ Goes(u, "resave")
  /\ \E r \in {c.made, rev[c.new]} : Writes(c.new, r)
  /\ Continues(u, c)

\* The mistake OneLatestUnlessMixed would catch: the change event rewrites the
\* former version as it was before it was superseded.
ResaveFormerAsRead(u) ==
  LET c == call[u] IN
  /\ Goes(u, "resaveFormer")
  /\ Writes(c.former, [c.copy EXCEPT !.latest = TRUE])
  /\ Continues(u, c)

\* The change event of the former version rewrites it as this call knows it.
ResaveFormer(u) ==
  LET c == call[u] IN
  /\ Goes(u, "resaveFormer")
  /\ Writes(c.former, c.copy)
  /\ Continues(u, c)

ResaveFails(u) ==
  /\ \/ Goes(u, "resave") /\ call[u].new \notin live
     \/ Goes(u, "resaveFormer") /\ call[u].former \notin live
  /\ Throws(u)
  /\ UNCHANGED <<budget, mixed>>

\* cancelCheckOut deletes without archiving; the deletion of a document that
\* is gone does nothing.
Remove(u) ==
  LET c == call[u]
      d == IF c.at = NoDoc THEN c.doc ELSE c.at IN
  /\ Goes(u, "remove")
  /\ live' = live \ {d}
  /\ attached' = attached \ {d}
  /\ Continues(u, c)
  /\ UNCHANGED <<rev, series, shelved, records, destroyed>> /\ Fine

Clear(u) ==
  LET c == call[u] IN
  /\ Goes(u, "clear")
  /\ series' = [series EXCEPT ![rev[c.doc].vs] = V!CheckedIn]
  /\ Continues(u, c)
  /\ UNCHANGED <<live, rev, attached, shelved, records, destroyed>> /\ Fine

\* Asks the view for the latest version; with none the call is over.
Latest(u) ==
  LET c == call[u]
      latest == V!LatestVersions(rev[c.doc].vs) IN
  /\ Goes(u, "latest")
  /\ \/ latest = {} /\ Ends(u)
     \/ \E l \in latest : Continues(u, [c EXCEPT !.former = l, !.copy = rev[l]])
  /\ UNCHANGED stores /\ Fine

\* cancelCheckOut and checkIn lock the latest version to clean the caches.
LockLatest(u) ==
  /\ Goes(u, "lockLatest") /\ MayWrite(u, call[u].former)
  /\ Ends(u)
  /\ UNCHANGED stores /\ Fine

\* "Move up the latest version", from the copy the view gave.
Promote(u) ==
  LET c == call[u] IN
  /\ Goes(u, "promote")
  /\ Writes(c.former, [c.copy EXCEPT !.latest = TRUE, !.latestMajor = c.copy.major])
  /\ Continues(u, c)

PromoteFails(u) ==
  /\ Goes(u, "promote") /\ call[u].former \notin live
  /\ Throws(u)
  /\ UNCHANGED <<budget, mixed>>

\* The attachment of the next document to delete moves to the archive; then
\* the document is read, unless it is gone.
Detach(u) ==
  LET c == call[u] IN
  /\ Goes(u, "detach")
  /\ \E d \in c.todo \cap attached :
       /\ attached' = attached \ {d}
       /\ shelved' = [shelved EXCEPT ![d] = @ + 1]
       /\ IF d \in live
          THEN Continues(u, [c EXCEPT !.todo = @ \ {d}, !.at = d, !.copy = rev[d]])
          ELSE call' = [call EXCEPT ![u].todo = @ \ {d}]
  /\ UNCHANGED <<live, rev, series, records, destroyed>> /\ Fine

DetachEnds(u) ==
  /\ Goes(u, "detach") /\ call[u].todo = {}
  /\ Ends(u)
  /\ UNCHANGED stores /\ Fine

\* An attachment that is not there cannot be archived.
DetachFails(u) ==
  /\ Goes(u, "detach")
  /\ call[u].todo \ attached # {}
  /\ Throws(u)
  /\ UNCHANGED <<budget, mixed>>

\* The DELETED event, or the CREATED one of a restored document, rewrites it.
Rewrite(u) ==
  LET c == call[u] IN
  /\ Goes(u, "rewrite")
  /\ \E r \in {c.copy, rev[c.at]} : Writes(c.at, r)
  /\ Continues(u, c)

Archive(u) ==
  LET c == call[u]
      same == {r \in records : r.doc = c.at}
      no == CHOOSE n \in 1..(Cardinality(same) + 1) : \A r \in same : r.no # n IN
  /\ Goes(u, "archive")
  /\ c.at \in live
  /\ records' = records \cup {[doc |-> c.at, rev |-> rev[c.at], no |-> no]}
  /\ Continues(u, c)
  /\ UNCHANGED <<live, rev, series, attached, shelved, destroyed>> /\ Fine

RemovalFails(u) ==
  /\ Goes(u, "rewrite") \/ Goes(u, "archive")
  /\ call[u].at \notin live
  /\ Throws(u)
  /\ UNCHANGED <<budget, mixed>>

\* restoreContent: the revision the record names, under the old id.
Revive(u) ==
  LET c == call[u] IN
  /\ Goes(u, "revive")
  /\ \E r \in c.todo :
       /\ r.doc \notin live
       /\ live' = live \cup {r.doc}
       /\ rev' = [rev EXCEPT ![r.doc] = r.rev]
       /\ Continues(u, [c EXCEPT !.at = r.doc, !.record = r, !.todo = @ \ {r}])
  /\ UNCHANGED <<series, attached, shelved, records, destroyed>> /\ Fine

Attach(u) ==
  LET c == call[u] IN
  /\ Goes(u, "attach")
  /\ shelved[c.at] > 0
  /\ attached' = attached \cup {c.at}
  /\ Continues(u, c)
  /\ UNCHANGED <<live, rev, series, shelved, records, destroyed>> /\ Fine

\* The records whose turn it is: a restore drops the one it has restored.
Doomed(c) == IF c.op = "restore" THEN {c.record} ELSE c.todo

\* deleteDocumentArchive cannot drop a record that is gone; destroyDocument
\* passes it over.
Droppable(c) == IF c.op = "restore" THEN Doomed(c) \cap records ELSE Doomed(c)

Destroys(c, r) == destroyed' = IF c.op = "destroy" THEN destroyed \cup {r.doc} ELSE destroyed

\* The mistake NothingLost would catch: a restore drops the records of the
\* versions it has still to restore.
DropRemaining(u) ==
  LET c == call[u] IN
  /\ Goes(u, "drop")
  /\ \E r \in Droppable(c) :
       /\ shelved[r.doc] > 0
       /\ records' = records \ ({r} \cup c.todo)
       /\ shelved' = [shelved EXCEPT ![r.doc] = @ - 1]
       /\ Destroys(c, r)
       /\ Continues(u, [c EXCEPT !.todo = @ \ {r}])
  /\ UNCHANGED <<live, rev, series, attached>> /\ Fine

\* The mistake TypeOK would catch: the record of an attachment is dropped a
\* second time.
DropTwice(u) ==
  LET c == call[u] IN
  /\ Goes(u, "drop")
  /\ \E r \in Doomed(c) :
       /\ records' = records \ {r}
       /\ shelved' = [shelved EXCEPT ![r.doc] = @ - 1]
       /\ Destroys(c, r)
       /\ Continues(u, [c EXCEPT !.todo = @ \ {r}])
  /\ UNCHANGED <<live, rev, series, attached>> /\ Fine

\* The record goes, with that of the attachment ...
Drop(u) ==
  LET c == call[u] IN
  /\ Goes(u, "drop")
  /\ \E r \in Droppable(c) :
       /\ shelved[r.doc] > 0
       /\ records' = records \ {r}
       /\ shelved' = [shelved EXCEPT ![r.doc] = @ - 1]
       /\ Destroys(c, r)
       /\ Continues(u, [c EXCEPT !.todo = @ \ {r}])
  /\ UNCHANGED <<live, rev, series, attached>> /\ Fine

\* ... and if that one is not there, alone: the exception ends the loop.
DropHalf(u) ==
  LET c == call[u] IN
  /\ Goes(u, "drop")
  /\ \E r \in Droppable(c) :
       /\ shelved[r.doc] = 0
       /\ records' = records \ {r}
       /\ Destroys(c, r)
  /\ call' = [call EXCEPT ![u].step = "over"]
  /\ UNCHANGED <<live, rev, series, attached, shelved>> /\ Fine

\* The loop over the records ends with the last one, or swallows the exception
\* of one that cannot be restored or dropped ...
LoopOver(u) ==
  LET c == call[u] IN
  \/ Goes(u, "revive") /\ (c.todo = {} \/ \E r \in c.todo : r.doc \in live)
  \/ Goes(u, "attach") /\ shelved[c.at] = 0
  \/ Goes(u, "drop") /\ Droppable(c) = {}
  \/ Goes(u, "over")

\* ... and a restored document is then read, for its change event.
LoopEnds(u) ==
  LET c == call[u] IN
  /\ LoopOver(u)
  /\ IF c.op = "restore"
     THEN /\ c.doc \in live
          /\ call' = [call EXCEPT ![u] = [c EXCEPT !.step = "rewrite", !.at = c.doc,
                                                  !.copy = rev[c.doc]]]
     ELSE Ends(u)
  /\ UNCHANGED stores /\ Fine

RestoreFails(u) ==
  /\ LoopOver(u)
  /\ call[u].op = "restore" /\ call[u].doc \notin live
  /\ Throws(u)
  /\ UNCHANGED <<budget, mixed>>

\* The mistake OnlyListingDeadlocks would catch: the versions are locked for
\* writing.
ReadLockForWriting(u) ==
  LET c == call[u] IN
  /\ Goes(u, "readLock")
  /\ \E d \in c.todo :
       /\ MayWrite(u, d)
       /\ Continues(u, [c EXCEPT !.todo = @ \ {d}, !.writes = @ \cup {d}])
  /\ UNCHANGED stores /\ Fine

\* getAllVersions locks the versions in the order the view lists them, which is
\* any order here: other listings have other orders.
ReadLock(u) ==
  LET c == call[u] IN
  /\ Goes(u, "readLock")
  /\ \E d \in c.todo :
       /\ MayRead(u, d)
       /\ Continues(u, [c EXCEPT !.todo = @ \ {d}, !.reads = @ \cup {d}])
  /\ UNCHANGED stores /\ Fine

AllRead(u) ==
  /\ Goes(u, "readLock") /\ call[u].todo = {}
  /\ Ends(u)
  /\ UNCHANGED stores /\ Fine

\* The database, or the server, fails between two steps of a call that has
\* begun to write; when the server goes down every call fails.
Fail(u) ==
  /\ Faulty /\ budget > 0
  /\ Works(u)
  /\ Throws(u)
  /\ budget' = budget - 1
  /\ UNCHANGED mixed

-----------------------------------------------------------------------------

Init ==
  /\ live = {} /\ rev = [d \in Doc |-> Absent]
  /\ series = [s \in Series |-> Absent]
  /\ attached = {} /\ shelved = [d \in Doc |-> 0] /\ records = {}
  /\ call = [u \in User |-> Rest]
  /\ budget = Budget
  /\ mixed = {} /\ failed = {} /\ destroyed = {}

SendsAny(u) ==
  \/ \E s \in Series, state \in V!VersioningState : SendCreate(u, s, state)
  \/ \E d \in Doc :
       \/ \E op \in Locking, isMajor \in Major : Send(u, op, d, isMajor)
       \/ \E isMajor \in Major : SendSaveVersion(u, d, isMajor)
       \/ \E op \in ArchiveCalls : SendArchiveCall(u, op, d)
       \/ SendGetAllVersions(u, d)

AdvancesVersion(u) ==
  \/ Supersede(u) \/ SupersedeFails(u)
  \/ Create(u) \/ Name(u) \/ Resave(u) \/ ResaveFormer(u) \/ ResaveFails(u)
  \/ Remove(u) \/ Clear(u) \/ Latest(u) \/ LockLatest(u)

AdvancesRemoval(u) ==
  \/ Detach(u) \/ DetachEnds(u) \/ DetachFails(u)
  \/ Rewrite(u) \/ Archive(u) \/ RemovalFails(u)
  \/ Promote(u) \/ PromoteFails(u)
  \/ Revive(u) \/ Attach(u) \/ Drop(u) \/ DropHalf(u) \/ LoopEnds(u) \/ RestoreFails(u)

Advances(u) ==
  \/ Refuse(u) \/ Admit(u)
  \/ AdvancesVersion(u)
  \/ AdvancesRemoval(u)
  \/ ReadLock(u) \/ AllRead(u)

Next == \E u \in User : SendsAny(u) \/ Advances(u) \/ Fail(u)

Spec == Init /\ [][Next]_vars

-----------------------------------------------------------------------------
(***************************************************************************)
(* Properties                                                              *)
(***************************************************************************)

Call ==
  [op : DOMAIN After \cup {"none"},
   step : {"lock", "create", "name", "resave", "resaveFormer", "supersede",
           "remove", "clear", "latest", "lockLatest", "detach", "rewrite",
           "archive", "promote", "revive", "attach", "drop", "over", "readLock", "end"},
   doc : Doc \cup {NoDoc}, at : Doc \cup {NoDoc}, former : Doc \cup {NoDoc},
   new : Doc \cup {NoDoc}, copy : V!Revision \cup {Absent},
   made : V!Revision \cup {Absent},
   record : Record \cup {Absent}, major : BOOLEAN,
   todo : SUBSET (Doc \cup Record), writes : SUBSET Doc, reads : SUBSET Doc]

\* Every variable holds a value of its kind.
TypeOK ==
  /\ V!TypeOK
  /\ attached \subseteq Doc /\ shelved \in [Doc -> Nat]
  /\ records \subseteq Record
  /\ call \in [User -> Call]
  /\ \A u \in User : call[u].op = "none" => call[u] = Rest
  /\ budget \in Nat
  /\ mixed \subseteq Series
  /\ failed \subseteq DOMAIN After
  /\ destroyed \subseteq Doc

\* Wherever the calls other than restore fail, and at every step of them, a
\* series has at most one latest version, unless two calls on it have
\* overlapped: a lock guards a document, not the series (checkIn,
\* setContentStream, deleteDocument).  A restore that fails leaves the record
\* of a version it has restored, and a later one restores it as it was then.
OneLatestUnlessMixed == "restore" \in failed \/
  \A d, e \in live :
    /\ rev[d].vs = rev[e].vs /\ rev[d].latest /\ rev[e].latest
    /\ rev[d].vs \notin mixed
    => d = e

\* Whatever overlaps and whatever fails: a version that was created is in the
\* repository or in the archive until its archive is destroyed, and so is its
\* content stream (delete archives before it deletes; restoreDocument restores
\* before it deletes the archive; cancelCheckOut archives nothing).
NothingLost ==
  \A d \in V!Created : ~rev[d].pwc /\ d \notin destroyed =>
    /\ d \in live \/ \E r \in records : r.doc = d
    /\ d \in attached \/ shelved[d] > 0

\* At every step, a checked-out series names a PWC of its own that exists or
\* did exist.
SeriesNamesPwc == V!SeriesNamesPwc

\* As long as no call has ended half-way, and unless two calls on the series
\* have overlapped: a PWC in the repository is the one its series names, or its
\* call is about to name it (checkOut asks for the PWC under the lock of the
\* document it is given only, so that a version made meanwhile can be checked
\* out as well).
PwcNamed ==
  \A d \in live :
    rev[d].pwc /\ failed = {} /\ rev[d].vs \notin mixed =>
      \/ series[rev[d].vs].out /\ series[rev[d].vs].id = d
      \/ \E u \in User : call[u].new = d

\* The ids a caller waits for, and the callers that make it wait.
WantsToWrite(u, d) ==
  \/ Goes(u, "lock") /\ d = call[u].doc
  \/ Goes(u, "lockLatest") /\ d = call[u].former
WantsToRead(u, d) == Goes(u, "readLock") /\ d \in call[u].todo
WaitsFor(u, v) ==
  \E d \in Doc :
    \/ WantsToWrite(u, d) /\ d \in call[v].writes \cup call[v].reads
    \/ WantsToRead(u, d) /\ d \in call[v].writes

\* Callers each of which waits for another of them: none will ever go on.
Circle(S) == S # {} /\ \A u \in S : \E v \in S \ {u} : WaitsFor(u, v)

\* Calls of guided clients that wait for each other in a circle do so because a
\* getAllVersions, which collects read locks one by one, meets a cancelCheckOut or a
\* checkIn that asks for the latest version's lock under that of its PWC: neither
\* the nested lock alone nor listings among themselves nor the calls with one lock
\* can close a circle.
OnlyListingDeadlocks ==
  \A S \in SUBSET User :
    Circle(S) => /\ \E u \in S : call[u].op = "getAllVersions"
                 /\ \E u \in S : Goes(u, "lockLatest")
=============================================================================
