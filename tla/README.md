# A verification project for NemakiWare

NemakiWare is a CMIS content repository: a Java server (`core`) that keeps
folders, versioned documents, users and groups in CouchDB, a Solr server whose
plug-in (`solr`) tracks the repository's change log, a Play user interface
(`ui`), and set-up tools (`setup`).  This directory holds TLA+ models of the
parts that carry the repository's own logic, the TLC configurations that check
them on small instances, and proofs checked by TLAPS.

All paths below are relative to the repository, Java paths to
`core/src/main/java/jp/aegif/nemaki/` unless they start with `solr/` or `ui/`.

## 1. Inventory

### 1.1 Components

| Component | State | Operations | Interacts with |
|---|---|---|---|
| Document versioning (`businesslogic/impl/ContentServiceImpl`, `cmis/service/impl/VersioningServiceImpl`, `ObjectServiceImpl`) | documents with their version flags, version-series nodes | createDocument, createDocumentFromSource, checkOut, cancelCheckOut, checkIn, setContentStream, deleteObject, bulk check-in, saveAllVersions | DAO, object locks, change log, archive, caches |
| Archive (`ContentServiceImpl` 2015-2199, `rest/ArchiveResource`, couch DAO 1140-1331) | a second CouchDB database of archive records naming a document, an attachment or a folder; the deleted revisions CouchDB still holds | createArchive (on delete), restore, destroy | repository database, change log |
| Folder tree (`NavigationServiceImpl`, `ObjectServiceImpl` move/deleteTree) | `parentId` of every content; the view `children` | createFolder, move, deleteTree (thread pool), getChildren, getDescendants | tree cache, ACL inheritance |
| Object locks (`util/lock/impl/ThreadLockServiceImpl`) | striped read-write locks, 4096 stripes over object ids, one process | getReadLock, getWriteLock | every CMIS service |
| Caching DAO (`dao/impl/cached/ContentDaoServiceImpl`, `util/cache/*`) | 16 Ehcache caches per repository (content, tree, ACL, object data, version series, users, groups, change token) with a one-hour TTL | read-through get, create, update, move, delete, refresh | couch DAO; shares mutable objects with every caller |
| CouchDB DAO (`dao/impl/couch/*`) | CouchDB documents and revisions; map views | get by id, view queries, create, update (last writer wins: it reads the newest revision first), delete | CouchDB (external) |
| Change log (`ContentServiceImpl.writeChangeEvent`, `getLatestChanges`) | change documents keyed by a token, the change's creation time in milliseconds | append, read from a token | Solr tracker, change-token check on updates |
| Optimistic updates (`ExceptionServiceImpl.updateConflict`) | the change token stored in each content | updateProperties, setContentStream, move with a token | change log |
| ACL and permissions (`ContentServiceImpl` 1819-1985, `PermissionServiceImpl`, `AclServiceImpl`) | local ACEs and inheritance flag per content; an ACL cache | applyAcl, calculateAcl (merge along parents), checkPermission | folder tree, groups |
| Principals (`PrincipalServiceImpl`, `rest/UserItemResource`, `GroupItemResource`, couch DAO 647-725) | user items, group items with member users and groups; a joined-group cache | CRUD, group closure of a user | permissions, authentication |
| Types (`cmis/aspect/type/impl/TypeManagerImpl`, `TypeServiceImpl`) | in-memory type and property maps rebuilt from the database | create, update, delete, refresh types | every CMIS service |
| Solr tracker (`solr/.../tracker/CoreTracker`, `Registration`, `CoreTrackerJob`) | the Solr index; the last change token, stored as a Solr document | full and delta indexing, scheduled or on request | change log over CMIS, index |
| Query (`cmis/aspect/query/solr/*`, `DiscoveryServiceImpl`) | none | translate a CMIS query into a Solr query, page the results | Solr, permissions |
| Allowable actions and object compilation (`CompileServiceImpl`) | object-data cache | compile an object and its allowable actions for a user | permissions, versioning |
| Authentication (`cmis/factory/auth/*`) | tokens per application, repository and user, with an expiry | login, issue a token | principals |
| Connections (`dao/impl/couch/connector/*`) | one connector per database | initialise, get | CouchDB |
| Patches (`patch/*`) | patch history in the database | apply once at start-up | DAO |
| REST resources (`rest/*`), CMIS factory and wrappers (`cmis/factory`, `cmis/service/wrapper`) | none | marshal calls | services |
| Relationships, policies, renditions (`RelationshipServiceImpl`, `PolicyServiceImpl`, `rendition/*`) | their nodes | CRUD, deletion with their document | versioning |
| User interface (`ui`), set-up (`setup`), action plug-ins (`action`), `common` | session state; none | forms over CMIS and REST | core |

### 1.2 What is hard

* **Atomicity.** A CMIS call is a sequence of CouchDB writes with no
  transaction.  `checkIn` deletes the PWC, clears the series node, clears the
  old latest flag and creates the new version in four separate writes.
* **Locks on one object, effects on several.** A call locks the id it is given;
  `checkIn` on a PWC writes the latest version, which `setContentStream` guards
  with another lock.
* **Last writer wins.** `update` reads the newest revision "for avoid conflict",
  so CouchDB never refuses a write computed from stale data.
* **Caches that share mutable objects**, filled from the database by readers that
  hold no lock of the writer.
* **A change log ordered by milliseconds**, read incrementally by a tracker that
  may crash between indexing and storing its token.
* **Long legal sequences**: minor and major versions, check-outs by
  administrators of superseded versions, deletions of single versions, restores
  of a series deleted in pieces.

### 1.3 What makes each part correct

* Versioning: one latest version with the greatest label; labels distinct; a PWC
  and its series node agree; a checked-out series is locked; superseded versions
  are final.
* Archive: a document is live or archived, never both; restore brings back what
  was deleted.
* Locks: no deadlock, and operations on one series do not interleave harmfully.
* Caches: a reader never sees, after a write has returned, what was there before.
* Tracker: every change is eventually indexed; the index converges to the
  repository.
* Groups and ACLs: a user's groups are the transitive closure; an inherited ACL
  is the parent's, overridden by local entries.

## 2. The modules, and how they compose

### 2.1 What is there

| Module | About | Composes or refines |
|---|---|---|
| `VersionSeries` (+ `MC`, `Proofs`) | versions, PWCs, series nodes, archive; a call is one step | - |
| `VersionThreads` (+ `MC`, `Proofs`) | the database writes inside those calls, by concurrent callers under their locks, with a failure between any two writes | uses the guards and written values of `VersionSeries` (`V`) |
| `VersionRefinement` (+ `MC`, `Proofs`) | for one caller and no failure the writes add up to whole calls | `VersionThreads` implements `VersionSeries` (`Whole`) |
| `SolrTracker` (+ `MC`, `Proofs`) | change log, the calls that append to it, tracker runs, index | implements `ChangeFeed` (`Feed`) |
| `ChangeFeed` (+ `Proofs`) | what the tracker promises: an index that only lags behind | - |
| `ContentCache` (+ `MC`, `Proofs`) | one content: its node, the shared cached object, the change token, the cached latest change | content cache, optimistic updates, change log |
| `FolderTree` (+ `MC`, `Proofs`) | the folder tree, its tree cache, deleteTree with its pools, archives of folders | folder tree, tree cache, object locks, archive |
| `AclCache` (+ `MC`, `Proofs`) | inherited ACLs, the cache of calculated ones, the tasks that clear it | folder tree, ACL cache |

### 2.2 Order, and why

The version series came first, because every document operation goes through it
and long sequences of legal calls are where it breaks; then the tracker, the one
distributed protocol of the system.  `VersionThreads` opens the calls of the first:
the hazards of section 1.2 that an atomic model cannot show.  The caches, the tree
and the ACLs share its threads and locks.

### 2.3 What is left

* Proof: every invariant, every action property and every refinement a run checks is
  proved; liveness is not (section 10.8).
* The groups of a user.  The code that should find the groups of a group deletes
  from the list it counts through and asks the view with keys of another shape
  (`dao/impl/couch/ContentDaoServiceImpl.java:672-700`), so it finds none; a model
  would say only that.
* The in-memory type map against concurrent refreshes.
* Pure functions: the split of events among registration threads
  (`CoreTracker.java:218`), paging.

## 3. VersionSeries: versions, working copies and the archive

### 3.1 State and actions

| Variable | In the code |
|---|---|
| `live` | ids with a document in the repository database |
| `rev` | per id, the last revision written: the version flags of `model/Document` and the label; CouchDB keeps it after a deletion, and `restoreDocumentArchive` reads it back |
| `series` | the `VersionSeries` nodes: checked out, by whom, to which PWC |
| `archive` | ids with a record in the archive database |
| `outcome` | how the last call that wrote ended |

| Action | Call |
|---|---|
| `CreateDocument` | `createDocument` with MAJOR (the default), MINOR or CHECKEDOUT; NONE is refused for a versionable type |
| `CreateDocumentFromSource` | `createDocumentFromSource`, of which only the series node survives |
| `CheckOut`, `CancelCheckOut` | the calls of the versioning service |
| `CheckIn`, `CheckInFails` | `checkIn`, with a latest version to build on, and without |
| `SetContentStream` | `setContentStream` on a version |
| `UpdateWithoutCheckInOut` | `updateWithoutCheckInOut`, which the REST call saveAllVersions reaches |
| `DeleteVersion`, `DeleteAllVersions` | `deleteObject` without and with all versions |
| `RestoreArchive`, `DestroyArchive` | the REST archive calls on a version of the series |

The guards are those of `PermissionServiceImpl` (a PWC is for its owner, an
administrator may do everything), `ExceptionServiceImpl` (versioning, already
checked out), and, when `Guided` is TRUE, of the allowable actions that
`CompileServiceImpl` computes: a client that shows only what it is allowed to do
issues only such calls.  `CheckInFails` is a call that throws after it has
written; calls that throw before they write leave everything as it is and are
not actions.

### 3.2 Abstractions

* A call is one step.  Section 5 opens it.
* All documents are of versionable types.
* Every user has `cmis:write` on every document, so that what a permission
  check still decides is the PWC rule; every document has a content stream.
* Properties, renditions, policies and relationships are not part of the state;
  `updateProperties`, `appendContentStream`, `deleteContentStream`, and
  `setContentStream` on a PWC, change no version flag.
* The parent of an archived document is still there when it is restored.
* CouchDB is not compacted between a deletion and a restore.
* The bulk check-in is check-outs and check-ins one after the other.
* `Guided` assumes that the allowable actions are those of the moment of the
  call; the REST bulk calls do not consult them.
* A view that lists several latest versions (possible once an administrator has
  rewritten a superseded one) may return any of them: the model chooses.

### 3.3 Runs and bounds

Ids are never used again, so they bound the length of a history: a document id is
spent by every version and every PWC, a series id by every new series.  The runs
set `CHECK_DEADLOCK FALSE` for this reason: when the ids are spent and everything is
deleted and destroyed the model has nothing left to do.  Documents, series and
users other than administrators are interchangeable, no property singles one out,
and no liveness is checked, so symmetry is sound.

| Run | Instance | Shows |
|---|---|---|
| `series_free` | 5 documents, 1 series, 2 users, no administrator, any call | types; one latest version, with the greatest label; no label twice; archive and repository disjoint; a checked-out series names a PWC of its own; superseded versions are final; a deletion moves nothing up |
| `series_guided` | 5 documents, 2 series, 2 users and an administrator, guided clients | every PWC is the one its series names; a checked-out series is locked; a series whose PWC is gone stays locked |

Five documents are a version, its PWC, the version checked in, a second PWC and
one more version: two full cycles, with deletions, restores and foreign content
streams at every point between.  Two users are an owner and somebody else.  A
second series only matters where a step could touch the wrong one, which the
guided run checks.  What an administrator cannot break either
(the last four properties of `series_free`) is proved for every set of
administrators (section 10.1).

## 4. SolrTracker: the change log and the search index

### 4.1 State and actions

| Variable | In the code |
|---|---|
| `clock` | `System.currentTimeMillis()` |
| `live`, `version` | the contents, and how often each was written |
| `log` | the change documents: id, creation time (which is the token), object, kind |
| `op` | per thread of the core server, the call it runs and how far it is |
| `index` | per content, the version its Solr entry was made from |
| `token` | the token stored in Solr, as the change it names |
| `run` | the tracker's run: mode, who asked for it, the events left, the content read but not sent, the change whose token is to be stored |
| `fullDue` | a request FULL has emptied the core and not yet started |
| `budget` | bound on failures and on requests of the administrator |
| `ordered`, `given` | history variables of the properties |

A call goes through `Begin` (the content is written), `Stamp` (the event gets its
time), `Append` (the event is stored), for a deletion `Remove`, and then, if it
asks for indexing, `CallIndexing`, after which it waits for the run's end.  With
`solr.indexing.force` off every call asks while it still holds the object's write
lock, and a deletion does so before the removal; with it on the calls that
`SearchEngineServiceWrapper` overrides ask after everything else.

A run, guarded by the static `LOCK`, alternates `AskChanges` (or
`AskNothingNew`) with the registration of the events it extracted: `ReadContent`
and `SendUpdate` for a creation or an update, `SkipContent` when the content is
gone, `RemoveEntry`, `IgnoreChange`, `TimeOut` when the core cannot get the lock
its cache deletion needs; then `StoreToken`.  A full run asks again until nothing is
new.  `InitCore` and `StartFull` are the administrator's requests, `Schedule` the
Quartz job, `Crash` a stop of Solr at any point of a run.

### 4.2 Abstractions

* `getContentChanges` is atomic, and so is every single request to Solr or CouchDB.
* The AtomPub client hands the server's token through unchanged (external).
* The events of an answer are split among threads in order, and the threads
  are joined one after the other: registrations happen in sequence.  A
  thread that times out takes the rest of its part of the list with it: any number of
  the events that follow, since the size of a part is configured.
* A failed read of the token followed by a failed store of the empty one is left
  out; so are session failures, which end a run as `Crash` does.
* A client uses a new content only after the call that made it has returned.
* A move or another change of fields is an UPDATED event like any other.

### 4.3 Fairness

* `WF(Stamp \/ Append \/ Remove)` per caller and `WF(Advances)`: a thread that can
  go on goes on; every request has a time limit.
* `WF(Schedule)`: the job is triggered by a cron expression while Solr runs.
* `SF(CallIndexing)` and `SF(StartFull)`: they wait for the static `LOCK`.  The
  monitor promises no order, but its competitors leave it free for whole
  seconds between two triggers, again and again, and a thread that waits at such a
  moment enters.
* Nothing else is fair: calls, requests of the administrator, failures and time
  itself need never come.

### 4.4 The abstract feed

`ChangeFeed` has a version and an entry per content and a set of *dirty* contents.
Its actions are the only things that may happen to them: a content changes and is
dirty until its entry is right again (`Write`); the entry of a dirty content is
removed or made from a version that is not older (`Register`); the feed catches up
with contents whose entry is right (`Settle`), forgets how far it was (`Recede`), or
starts over (`Rebuild`).  The mapping takes for dirty what a call is working on or
what has an event ahead of the stored token.  So a user of the search may rely on
this: the entry of a clean content is right, is not touched, and never goes back
to an older version, whatever run, crash or full indexing is going on.

### 4.5 Runs and bounds

| Run | Instance | Shows |
|---|---|---|
| `tracker_feed` | 2 callers, 2 contents, 3 events, forced indexing and wrapped calls, scheduler, full indexing, crashes and failed reads | no content is out of step behind the stored token (`IndexedUpToToken`); the index equals the repository whenever no call runs and nothing has failed (`SyncWhenQuiet`); the tracker implements `ChangeFeed` (`FollowsFeed`) |
| `tracker_faults` | the same, indexing not forced, every kind of failure, applyAcl among the calls | types; the token never passes a change no run was given (`Delivered`) |
| `tracker_live` | 1 caller, 1 content, 3 events, crash, full indexing, scheduler | the index converges (`Converges`); a full indexing ends while changes are stored in order (`OrderedFullEnds`) |

Three events are the least that let one be discarded, one be handled and one arrive
late; a delta of two is shorter than the log, so that a run must take up where the
last one stopped (with a limit of one the code makes no progress at all: the one
item is the one it discards).  The clock goes to 2, so that events may tie, and may
be stored in the wrong order.  Two failures or requests are enough for one to hit
the recovery from another.

The properties say something only while `ordered` holds, and it never becomes TRUE
again; so the constraint `InOrder`, which does not explore past its end, hides no
violation of a safety property.  It is not used for liveness, nor is symmetry.
`CHECK_DEADLOCK FALSE`: the ids run out, and without a scheduler the tracker may
have nothing to do.

`ordered` is a real condition and not a convenience: section 9 says what happens
without it.

## 5. VersionThreads: the writes inside a versioning call

### 5.1 State and actions

To the stores of `VersionSeries` come `attached` (documents whose attachment is in
the repository), `shelved` (how many archive records an attachment has), `records`
(the archive records of documents, each with the revision it names) and `call`: per
caller, the call in progress, the step it is at, what it has read, what it will
write, and the locks it holds.  `After` gives the order of the steps of each call; it is
mapped to `VersioningServiceImpl`, and the other calls' order to the lines of their steps.

| Steps | In the code |
|---|---|
| `Send...` | the client's side; guided clients look at the allowable actions now, not when the call gets its lock; saveAllVersions shows them none |
| `Admit`, `Refuse` | the lock, the checks under it, and what is read before the first write |
| `Supersede`, `Create`, `Resave`, `ResaveFormer`, `Name` | `updateVersionProperties`, the new document, the two change events that save it and the former version again, `updateVersionSeriesWithPwc` |
| `Remove`, `Clear`, `Latest`, `LockLatest` | the removal of the PWC, `cancelCheckOut`'s series node, the lock on the latest version |
| `Detach`, `Rewrite`, `Archive`, `Remove`, `Promote` | `deleteDocument`, version by version |
| `Revive`, `Attach`, `Drop`, `DropHalf`, `LoopEnds` | `restoreDocument` and `destoryDocument`, whose loop swallows exceptions |
| `ReadLock`, `AllRead` | `getAllVersions`, which collects locks |
| `...Fails`, `Fail` | a write that meets a document which is gone; CouchDB or the server failing between any two steps |

Locks are reentrant and per document.  Abstractions: the content cache returns what
the database has (section 6 has what it does instead); two ids do not share one
of the 4096 lock stripes; a lock that is held is not collected (section 11).

### 5.2 Runs and bounds

| Run | Instance | Shows |
|---|---|---|
| `threads` | 4 documents, 1 series, 2 users, guided, minor versions, 5 calls and failures in all | types; `OneLatestUnlessMixed`, `NothingLost`, `SeriesNamesPwc`, `PwcNamed`, `OnlyListingDeadlocks` |
| `refinement` | 1 user, 3 documents, 2 series, every call but getAllVersions, no failure | the steps of a call add up to the one step of `VersionSeries` (`RefinesWholeCalls`) |

Three documents are a version, its PWC and the version it becomes; with a fourth a
series can have two PWCs at once.  Five calls and
failures are a creation, a check-out, two overlapping calls after it and a failure in
one of them; a second pair of overlapping calls could only repeat what the first
did to the one series.  `Budget` and the ids run out, so `CHECK_DEADLOCK FALSE`;
that calls wait for each other is a property of its own.

The properties name what the code depends on.  A series keeps one latest version
**unless two calls have worked on it at once** (`mixed`, the set of the series that
met this): a lock guards a document, and `checkIn`, `setContentStream` and `deleteDocument` write documents other than
the one they lock.  Nor does it survive a restore that failed.  A PWC is named by its
series unless a call ended half-way or two calls on the series overlapped: checkOut
locks the version it is given, so that when saveAllVersions replaces that version
meanwhile, the new version can be checked out as well and the series has two PWCs.  Nothing that was created is ever lost, with or without failures.  Callers
that wait for each other in a circle (`OnlyListingDeadlocks`) are a getAllVersions, which
collects read locks one by one, and a cancelCheckOut or checkIn, which asks for the
latest version's lock under that of the PWC.  The run meets this circle; with a listing
that locks for writing (`ReadLockForWriting`) it would meet others.  The refinement holds for one caller only: with two, an overlap leaves
states whole calls do not reach.

`VersionRefinement` remembers the stores as they were when the last call ended, and
how it ended, since what `VersionSeries` sees must not move while a call is in
progress; a refused call has changed nothing and is a stutter.

## 6. ContentCache: updates with a change token

### 6.1 State and actions

| Variable | In the code |
|---|---|
| `stored` | the CouchDB node: what it says, its change token, its revision |
| `heap`, `cached` | the Java objects that hold the content, and the one in `contentCache`: threads share it and change it in place |
| `events`, `latest` | the number of change events, the cached latest change |
| `call` | per caller, its call, the objects it refers to, the revision it will replace |

`updateProperties` and `applyAcl` go through `Lock`, `Hit` or `Miss` and `Put`
(read-through), `Change` or `Conflict` (`updateConflict`), `Write`, `Cache`, `Event`,
`Latest`, `Note`, `Mark`, `Write` again and `Recache`: the change event is stored
between two savings of the content.  `updateProperties` holds the write lock,
`applyAcl` the read lock; a look at a content on behalf of another one (a parent, a
member of a list), the event of another content and `getRepositoryInfo` hold none.
`Throws` is a write whose revision was replaced, or any database call.

### 6.2 Run and bounds

`content_cache`: 2 users, 3 calls in all, 5 Java objects, expiry at any time, one
failure.  Two calls overlap and the third is the client that comes later with an old
or a new token.  Five objects are more than the calls and the cache refer to at a time: the module
assumes more than two for each user, the one it has in hand and the one it is
about to put in the cache, so that Java never has to use an object again that
somebody still refers to.

* `SavesOnWhatWasRead`, `TokenUsedOnce`: an update overwrites only what its client
  had read, though the check is made against the cached object; at most one update
  completes with a token.  Both stop holding once two calls have used the content at
  the same time, one of them to change it, with no lock to keep them apart
  (`mixed`): an unlocked fill puts an old object in the cache, and
  two applyAcl calls share a read lock.
* `CoherentAtRest`: between calls the cached object says what the node says.  A
  failure after the change in place leaves an object the database never had.
* `LatestAtRest`: between calls the cached latest change is the latest one, unless two
  went through the cache at once.  The tracker compares its token with this one
  (`cmis/service/impl/RepositoryServiceImpl.java:74`).

## 7. FolderTree: the tree, its cache, deleteTree and archives

### 7.1 State and actions

| Variable | In the code |
|---|---|
| `up` | `parentId` of the nodes that exist |
| `archives` | archive records: node, parent, `deletedWithParent`, and (history) whose deletion made it |
| `filed` | per node, how many archive records it has had: each gets a new CouchDB id, so that a call which deletes a record it read earlier never deletes a later one |
| `trees` | `treeCache`: the children a folder is said to have |
| `call`, `tasks` | the threads of callers and pools; the `DeleteTask`s submitted |

`SendCreate` makes the checks of a create, without a lock; `Write` and `List` are
the node and its parent's cached tree.  A move (`Lock`, `Tree`, `Put`) changes the
cached trees before the node.  `deleteObjectInternal` (`LockDeletion`, `Check`,
`Archive`, `Remove`) is run by callers and by pool threads.  `deleteTree` (`Enter`,
`Walk`, `Climb`, `Await`) submits documents to the pool of their folder, waits for
it, then submits the folder to the pool of the one above.  `restoreArchive` keeps a
stack of folders (`RestoreFolder`, `RestoreDocument`, `ListRestored`, `Close`,
`GivesUp`); `DestroyArchive` is one step.  `Miss` is the fill of a cached tree, a step
before its use; `Throws` a deletion that fails half-way.

### 7.2 Run and bounds

`folder_tree`: three folders, a document and an item, two users, one pool thread,
three starting trees, 3 calls and expiries, one failure.  The starting trees spare the
calls that would build them: folders side by side with an item, a folder in a folder
with a document in it, a folder that holds a document.  Three calls are two that
overlap and one that meets what they left.  One pool thread runs tasks in any
order; that two tasks overlap adds nothing, since two users' deletions do.  A document
and a folder share a name.

* `Parented`: every node has a parent that exists, unless it came into a folder that
  was being removed or did not list it (`strays`), was passed over by deleteTree, or
  its own deletion failed.
* `NothingLost`: what was created exists or has an archive record until that is
  destroyed.
* `ListsChildren`: between calls a cached tree lists the folder's children, except
  restored folders, unless it was read across a change (`crossed`).
* `NamesDistinct`: namesakes are items, were restored, or were checked while the other
  was on its way (`raced`).

## 8. AclCache: inherited ACLs and the tasks that clear them

`up`, `gone`, `local` and `inherits` are the nodes' parents, which of them are in the
archive, their ACLs and inheritance flags (`Unset` where the default holds), `cached` the
ACL cache, `trees` the tree cache, `tasks` the clearing tasks not yet run.  A calculation
reads one node of the chain at a time (`Calculate`, `Read`) and puts its result in a step
of its own (`Put`); `ApplyAcl` writes the node, `Clear` submits the tasks and answers at
once; `RunClear` and `RunDescend` are the two kinds of task, the second submits the
next level.  Both find the children as `getChildren` does, in the cached tree (`Listing`),
which a use of it fills (`Lists`).  An exception can come between the write of the node and
the tasks, or from `getChildren` (`ClearFails`, `DescendFails`).  `Move`, `Delete` and
`Restore` change the tree and the cached trees; a folder does not come back into the cached
tree of its parent, and a tree may lack folders from the start, restored before the run.

Abstractions: one principal stands for all, since entries are merged by principal; a
node is written, moved, deleted and restored, and a cached tree is used, in one step
(FolderTree and ContentCache have the steps); nothing is created during a run.

`acl_cache`: a document in a folder in the root, two users one of whom may change
things, top-level folders inherit (as shipped), 3 calls, expiries and failures.  Three
nodes are the least where a task has to go down twice.  Three calls are a deletion, a
restore and an applyAcl that misses what was restored.  Two managers' applyAcl calls that
overlap are left to the theorem, which has any number; so are folders that do not
inherit at the top.

* `OutdatedIsDue`: an outdated cached ACL has a task on its way to it (one that clears
  it, or one that descends, or is about to be submitted, at a node of the `Line` it
  inherits from: the least set closed under the parents of nodes that inherit).  The
  exceptions are what the code leaves wrong: its calculation ended after the clearing
  (`late`); it or a node above it was moved, deleted or restored since, which clears no
  ACL below (`moved`); a clearing failed or found it, or a node above it that it inherits
  through, missing in a cached tree (`missed`).  A node is in `missed` only if its ACL was out of
  date at that moment, and an expiry, a clearing or a new calculation takes it out of all three.
* `Heals`: again and again the cache is right (with the same exceptions).  Fairness:
  a caller's steps are finite and need no lock of another (`WF` of `Step`), and a pool
  thread runs every task submitted (`WF` of `Run`); calls, failures and expiries need
  not come.

## 9. Where the code and its words disagree

Two runs end in a violation of what the repository says of itself:

| Run | Claim | What happens |
|---|---|---|
| `series_v_LatestMovesUp` | "Move up the latest version" (`businesslogic/impl/ContentServiceImpl.java:1654`) | createDocument, setContentStream, deleteObject of the new version (`DeleteVersion`): the view asked for the new latest version lists only versions flagged as latest; after the deletion there is none, and the version that is left is not the latest |
| `folder_v_RestoresWhatWentTogether` | "Restored only when deletedWithParent flag is true" (`ContentServiceImpl.java:2133`), a flag that "controls whether it's deleted with the parent all together" (1668) | every `DeleteTask` sets the flag (`ObjectServiceImpl.java:917`), that of the folder given to deleteTree too: restoring a folder brings back a subfolder that had been deleted, alone, before |

Met while modelling, without a run of their own:

*Versions*

* "All versions except for PWC are locked when checked out."
  (`cmis/aspect/impl/ExceptionServiceImpl.java:705`): only updateProperties makes
  that check; setContentStream supersedes the latest version of a checked-out series.
  `LockedWhileCheckedOut` holds for guided clients.
* Checking in a PWC that was created as the first version deletes it and then fails
  (`ContentServiceImpl.java:785`): the content is gone (`CheckInFails`).
* A PWC can itself be checked out: `VersioningServiceImpl.checkOut` (line 62) calls
  `constraintAlreadyCheckedOut`, which lets a PWC pass
  (`ExceptionServiceImpl.java:683-690`).  The first PWC is then no longer named by
  its series.
* deleteObject with all versions deletes somebody else's PWC, which the PWC rule of
  `PermissionServiceImpl.java:140` forbids on the PWC itself.
* Versions major, minor, major leave two versions flagged as latest major: a minor
  version keeps its predecessor's flag, and the next major one clears only its own
  predecessor's (`ContentServiceImpl.java:939-957`).  The DAO logs this as an
  anomaly (`dao/impl/couch/ContentDaoServiceImpl.java:417`).
* createDocumentFromSource updates the copy before it is created, which always
  throws (`ContentServiceImpl.java:591`), and leaves an empty version series.
* A failure after a deletion has archived the attachment leaves a document that can
  no longer be deleted: archiving an attachment that is gone throws (`DetachFails`).
* cancelCheckOut holds the PWC's write lock and asks for the latest version's, while
  getAllVersions may hold that one's read lock and ask for the PWC's: both wait for
  ever.
* Overlapping restores, or a deletion that overtakes a restore, leave documents
  without an attachment.  A failed restore leaves the record of a version it has
  restored; a later one puts that version back as it was, latest flag included.

*Caches and tree*

* restoreContent leaves the parent's cached tree alone
  (`dao/impl/cached/ContentDaoServiceImpl.java:1045`): a restored folder is not
  listed until the entry expires, and deleteObject takes its parent for empty.
* deleteTree passes items over, and deletes the folder when a child could not be
  deleted ("FIXME Consider orphans", `ObjectServiceImpl.java:1031`).  The archive of an
  item cannot be restored.  The pool of the folder that was asked for is never shut
  down.
* moveObject does not ask whether the target lies under the source
  (`ObjectServiceImpl.java:877`); a deleteTree of such a loop overflows the stack.
* Moving an item changes the cached object only (`ContentServiceImpl.java:1524-1533`).
* applyAcl's answer may be the old cached ACL, since the clearing tasks have not run
  yet; a move clears none of the cached ACLs it makes wrong.
* A calculation that read a node before an applyAcl to it and puts its result after the
  clearing leaves the old ACL until it expires (`ContentServiceImpl.java:1848`).
* The clearing tasks go by the cached tree (`cmis/service/impl/AclServiceImpl.java:181`).
  Delete a folder, restore it, ask for its ACL, apply an ACL to its parent: the
  folder's cached ACL stays as it was.  The same follows when the change event cannot be
  written after the node was (155): nothing is cleared.

*Tracker*

* The loop that is to "repeat until indexing all change logs"
  (`solr/.../CoreTracker.java:256`) goes on for ever when two events of one
  millisecond end the log.
* An event stamped first and stored last is behind the token when it appears: "the
  changes are returned by ASCENDING" order (`CoreTracker.java:342`) of their stamps,
  not of their appearance.
* The discarded first item of an answer is not the token's own change when two share
  a millisecond (`CoreTracker.java:184-185`): a change is then never indexed.
* An applyAcl after a creation or an update, in the same answer, hides it: only
  the last event of an object is kept (`CoreTracker.java:209`) and SECURITY events are
  ignored (`Registration.java:98-100`).  `IndexedUpToToken` is therefore checked, and
  proved, without that kind of change.
* With `solr.indexing.force` off the caller waits for the tracker under the object's
  write lock (`ContentServiceImpl.java:1453`), the tracker asks the core to delete the
  object from its cache under the same lock, gives up after five seconds
  (`NemakiCacheManager.java:37`, `rest/CacheResource.java:50`), the event is lost, and
  the token advances.  `tracker_faults` explores this; `IndexedUpToToken` needs
  forced indexing.
* checkIn, checkOut, move, setContentStream, appendContentStream,
  createDocumentFromSource and applyAcl are not overridden by
  `SearchEngineServiceWrapper`, so with forced indexing they leave the index behind
  until the next run, although `nemakiware.properties:28` promises an index that is
  updated synchronously.  `SyncWhenQuiet` is checked for the calls that are.

## 10. What is proved

The proofs hold for every number of documents, series, users, callers, contents and
changes, every tree, every limit and every choice of the calls and failures that
occur.  They rest only on the named assumptions of the modules: the model values
are distinct, the numbers are numbers; the change log has finitely many ids
(`SolrTrackerAssumptions`), the server finitely many callers
(`VersionThreadsAssumptions`, `ContentCacheAssumptions`); there is room for a new
Java object (section 6.2); the root of the tree is its own parent
(`AclCacheAssumptions`), a starting tree is rooted and has no namesakes
(`FolderTreeAssumptions`).  A theorem that needs more, such as guided clients, says so
in its `ASSUME`.

### 10.1 VersionSeriesProofs

* `TypeCorrect`: `TypeOK` is inductive as it stands, since it says that live and
  archived documents are stored ones and that the series of a stored document exists.
* `SupersededFinal`, `DeleteKeepsRevisions`: from `FlagsOK` (a latest version is
  not a PWC, and is latest major exactly when it is major), every step has one of
  three shapes (`StepShape`): no stored document changes, one is created, or one
  is created and its predecessor superseded.  "Moving up" is always a
  stutter, because what the view lists already has the flags that are written
  (`MovedUpIsStutter`).
* `OneLatest`, `NewestLatest`, `DistinctLabels`: the three are inductive
  together (`Lineage`) and not alone.  A new label is distinct because its
  predecessor's is the greatest, which holds because there is one latest version.
  They need `Disciplined`: no administrator, or guided clients.
* `LiveXorArchivedAlways`, `SeriesNamesPwcAlways`: for every client.
* `PwcMatchesSeriesAlways`, `GuidedLock`, `LostPwcLocks`: for guided clients; the
  first is the invariant from which the two action properties follow.

### 10.2 SolrTrackerProofs and ChangeFeedProofs

* `TypeCorrect`: `TypeOK` with the finiteness of the log and the fact that nothing
  remains of a finished run (`Typed`).  Its last conjunct, that exactly the caller
  named by the run waits, is what makes `RunEnds` typed.
* `DeliveredAlways`, for every failure, limit and setting.  `Delivered` is not
  inductive: `StoreToken` stores a change the run chose earlier.  `Delivery` adds
  that everything up to that change was given, and that times are distinct while
  `ordered` holds.  The step that carries the argument is `AskCovers`: the answer is
  a prefix of the log from the token on (`AnswerPrefix`), and the one item that is
  discarded is the token's own change.
* `IndexedAlways`, under `Lossless`: forced indexing, no SECURITY changes, and no
  failures but crashes and failed reads of the token.  Its invariant has two parts.
  `Chain` relates calls and log: one call at a time works on a content, the last
  event of a content says DELETED exactly when the content is gone or about to
  be removed, and every live content has an event or will have one.  `Tracking`
  relates log, run and index: a content is *caught* by a change x when it is being
  written, or has an event after x, or its entry is right; every content is caught
  by the stored token, and during a run each one is caught by the run's last
  change, or has an event in the run's hands that tells the truth about it, or has
  been read and not been written since unless another event is to come.  The
  existence of the last event of a content in an answer is the well-founded
  argument of `LastExists`.
* `TrackerFollowsFeed`, under `Lossless`: every step of the tracker is a step of
  `ChangeFeed` or changes nothing the feed sees (`FeedNext`, one lemma per kind of
  step).  Two things are needed beyond `IndexedUpToToken`, which says in the state
  after the step why a content may become clean.  `Hands` says that no entry is newer
  than its content, that every event a run still holds is ahead of the stored token,
  and that the content it has read was read no earlier than its entry was made:
  without it a registration could touch a clean content, or take an entry back.  And
  `HasEvent`, a part of `Chain`, makes every content dirty again when the token is
  emptied.
* `IndexIsSynchronous` (`SyncWhenQuiet`), under `Prompt`: `Lossless`, every call asks for
  indexing, and a delta holds more than one change (the setting is 100).  It is a
  count: `Prompted` says that at most as many changes are ahead of the token as
  callers still owe a run, because Append adds one of each and a run that is given
  changes takes at least one off before it lets its caller go (`StoreTokenPrompted`).
  A run that finds nothing new has nothing ahead of it: the answer has room for the
  token's own change, which is discarded, and for the first one after it
  (`NothingAhead`); with a limit of one the token would never move.
* `CleanIsRightAlways`: whatever implements the feed, the entry of a content that is
  not dirty is right until the feed is lost.

### 10.3 VersionThreadsProofs

Four invariants; the last three each rest on the first.

* `Typed` says of the stores what `TypeOK` says and more (an id in a series node is a
  PWC created in that series), and of every call in progress what it may rely on: what
  it has read and made fits its step (`KnowsDocs`, `KnowsNew`, `KnowsPlace`,
  `KnowsTodo`), and its locks are those its step needs (`KnowsLocks`).  `Grows` is the
  frame: a step never takes away a created document, nor its series, its label or
  its being a PWC, so that what a call read stays true of everything but the flags.
  From it come `TypesKept`, `SeriesAlwaysNamesPwc`, `DocumentsKeepIdentity`, and
  `NoWritersDeadlock`: the only lock taken under another one is that of the latest
  version, which is never a PWC, by a call that holds, for a guided client, a PWC.
  In a circle of any size whoever is waited for waits itself, at its nested lock
  or in a listing; without the second kind a nested lock would ask for a PWC, and
  without the first nobody would hold what a listing asks for.
* `AllSafe`, for `NothingIsLost`, counts.  "It exists or is archived" is not inductive:
  several restores may hold the same record, and a deletion may overtake one.  Per
  document, `Placed` says that at most one call is moving it between the stores, and
  `Backed` that it has as many records as calls that still count on one, and one
  more while it is not in the repository; the same for the attachment.  A client that is
  not guided may cancel the check-out of a version, which deletes it without an
  archive record, hence `Guided`.
* `AllOrderly`, for `OneVersionIsLatest`: on a series that is not `mixed` at most one
  call works (`Alone`), its documents and records are as whole calls leave them but
  for what that call is doing (`Tidy`), and the call knows the truth (`Aware`).  It
  needs guided clients without administrators: for an administrator the check that a
  content stream goes to the latest version is not made again under the lock.
* `AllSettled`, for `PwcsAreNamed`, needs guided clients only, administrators included,
  and holds until a call ends half-way.  On a series that is not `mixed` at most one
  call works; every PWC that is there, or that a restore can bring back, is the one
  the node names unless that call is about to name it (`Fits`), and it has at most one
  record, and that only while it is gone or in the call's hands.  The call knows
  (`Mindful`) that there is no PWC before checkOut makes one and none after one was
  returned, and that the records it restores from are still there.  A call that works
  elsewhere spares the series (`Spares`).

### 10.4 VersionRefinementProofs

`CallsAreWhole` (`RefinesWholeCalls`), for a single caller that is not guided, without
failures.  The run compares the two specifications on three documents; the proof needs to
say at every step what is in the databases.  `Story` does, in terms of `seen` (the
state after the last call) and of what the call has done since: the document it has
created and the node it has named (`Adds`), the document returned, the series freed, the
version superseded and the one that follows it (`Cancels`, `Renews`), the documents
dealt with and the one in hand (`Deletes`, `Restores`, `Purges`).  Everything the call
read or asked before it wrote is stated of `seen`, which is what `VersionSeries` asks in
one step.  `InOrder` says the same of the content streams, which `VersionSeries` does
not have: without it a deletion could end half-way for want of a stream, a
restore for want of an archived one, and the effects would not be those of a whole
call.  `OneEach` and `RecordsSound` say that a document has one archive record, of its
last revision, so that a restore does not write an older one.

A step either goes on, and nothing is seen of it (`GoesOn`), or ends the call, and
what was written is one action of `VersionSeries` (`AddsWhole`, `RenewsWhole`,
`CancelsWhole`, `DeletesVersionWhole` and the cases of `JoinedLoopEnds`,
`JoinedRewrite` and `JoinedDetachEnds`), or nothing (`EndsUnwritten`).  The failures
that overlapping calls cause do not happen (`NeverResaveFails` and its like);
the one that does is checkIn without a version to supersede
(`JoinedSupersedeFails`).  It rests on `Typed` and `Grows` of section 10.3.

### 10.5 ContentCacheProofs

`Sound` is one invariant with six parts, since each is needed to keep another.
`Exclusive` is the lock.  `Apart` is what is left of exclusion when a fill takes no
lock: unless `mixed`, a call that changes the content is the only one with an object
of it.  `TokensUnused` says of every object, cached or in hand, that its token has not
been used up, which is what makes `TokensServeOnce` hold although the token is compared with
the cached object's.  `AllSettled` says at which steps of which call the cached object, the
node and the last event may differ: only while an update is underway.  `Current` is the same
for the cached latest change.  That a new object is new, so that writing to it changes
no other's, is `RoomForOne`, a counting argument over the objects referred to.
`ContentTypesKept`, `UpdatesSaveOnWhatWasRead`, `TokensServeOnce`,
`CacheCoherentAtRest` and `LatestChangeAtRest` are read off it.

### 10.6 AclCacheProofs

`OutdatedIsCleared`: `OutdatedIsDue` is inductive with the types.  The ACL of a node is
a walk up the tree; as the least set closed under parents, `Line` needs neither
recursion nor the fact that the tree has no cycles, and the lemmas about it
(`FromGoesOn`, `FromIsLeast`, `FromBelow`) are all the proof knows of trees.  `Due` follows
the nodes that inherit.  The weaker form, "a task somewhere above", is not
inductive: when `RunDescend` goes down from a node it submits tasks for the children that
inherit only, and a task above one that does not inherit would be gone with nothing in
its place.  `SubmittedGoOn` is the heart: what a task for a node was due for is due by one
of the tasks it submits, or goes through a child it misses.  `MovedIsDue` says that a
change of one node's place leaves alone every line that does not have the node.

The theorem assumes nothing of the cached trees: whatever they leave out, what is not
found because of it is in `missed`.

### 10.7 FolderTreeProofs

`FolderTreeInvariant` has eleven parts; `FolderTypes`, `NodesKeepParents`,
`NoNodeIsLost` and `NamesStayDistinct` are read off it, and
`CachedTreesListChildren` rests on it.

* `Typed`, `Assigned`, `Excludes`, `Removing`: what each call holds at each step; a task
  that was taken is the deletion its pool thread is at; write locks exclude; what is
  about to be removed still exists, since only the holder of its lock can remove it.
* `Kept` and `Numbered`, for `NothingLost`: a node exists, or was destroyed, or has an
  archive record *that no call in progress is about to drop*.  This needs that
  a record dropped late is the one that was read, and not one made since:
  every record has a number of its own (`filed`), as it has an id of its own in
  CouchDB.
* `Listed` and `Emptied`, for `Parented`: a folder that a deleteTree has listed holds
  only what the call has still to enter or delete, what it has submitted to that
  folder's pool, and what is excused; so, when the pool is done and the folder is
  submitted in its turn, it holds only what is excused.
* `Checked` and `Distinct`, for `NamesDistinct`: two calls on their way to one folder with
  one name are in `raced`, and a call whose check found nothing meets nobody but
  these.

* `Cached`, for `ListsChildren`, is kept by every step of a run in which the eleven
  parts hold.  `Mirror` says at every moment what `ListsChildren` says between calls: a
  cached tree lists what *belongs* to its folder, where a move between its two
  halves has its node where it is going, but for what a create or a restore has
  written and is about to list.  What a call has read from the database obeys this
  only if nothing came in between (`HeldFits`); otherwise the folder is in `crossed`.
  `Moved` (a node is moved to another folder than its own, and stays while it is) makes
  moveTreeCache right, and `Fresh` (what is created was never there before) makes
  sure that no cached tree lists a node ahead of its creation.

Nothing in it says that the tree has no cycles, and the theorems hold for folders moved
under themselves.

### 10.8 What is only model-checked

* Liveness (`Converges`, `OrderedFullEnds`, `Heals`): fairness and ENABLED are beyond
  the prover.
* The refuted claims of section 9, which are counterexamples.

No module declares a recursive operator; the models need none.  What a recursive
definition computes for every input could not be proved here, since the induction
theorems of the library take an operator as their parameter.

## 11. What is not modelled, and why

`PROJECT.json` lists every component with its status and every hazard at its line;
those without a property say why.  Left out for good: the user interface and the
set-up tools (forms and input), the CMIS bindings and REST marshalling (no state of
their own), the translation of CMIS queries to Solr's syntax (text), the compilation
of response objects apart from the allowable actions, and connection set-up.  The
repository's JavaScript is third-party libraries (AngularJS, D3, jQuery plug-ins) and
the stock administration page of Solr; NemakiWare's own logic, and so every model
here, is in its Java code.

Assumptions the models share:

* A lock that is held stays one lock.  `Striped.lazyWeakReadWriteLock`
  (`util/lock/impl/ThreadLockServiceImpl.java:18`) references its locks weakly and a
  caller keeps only the read or the write half, so a collection could part two
  callers of one object.
* Two objects do not share a lock stripe.
* One server: the locks and the caches are in its memory.
