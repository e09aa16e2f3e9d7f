------------------------- MODULE VersionThreadsProofs -------------------------
(***************************************************************************)
(* Proofs about VersionThreads, for every number of documents, series and  *)
(* callers, and of calls and failures.                                     *)
(***************************************************************************)
EXTENDS VersionThreads, FiniteSetTheorems, TLAPS

USE VersionThreadsAssumptions

-----------------------------------------------------------------------------
(***************************************************************************)
(* The order of steps                                                      *)
(***************************************************************************)

Versioning == {"checkIn", "setContentStream", "saveVersion"}
Returning  == {"cancelCheckOut", "checkIn"}
Deleting   == {"deleteVersion", "deleteSeries"}
Creating   == {"createDocument", "createPwc"}

StepNames ==
  {"lock", "create", "name", "resave", "resaveFormer", "supersede", "remove",
   "clear", "latest", "lockLatest", "detach", "rewrite", "archive", "promote",
   "revive", "attach", "drop", "readLock"}

\* Which calls take a step, and which step comes next.
StepFits(op, st, next) ==
  /\ st \in StepNames
  /\ st = "lock" =>
       /\ op \in Locking
       /\ op \in Returning <=> next = "remove"
       /\ op = "setContentStream" <=> next = "supersede"
       /\ op = "checkOut" <=> next = "create"
       /\ op \in Deleting <=> next = "detach"
       /\ op \in Returning \cup Deleting \cup {"setContentStream", "checkOut"}
  /\ st = "supersede" => op \in Versioning /\ next = "create"
  /\ st = "create" =>
       /\ op \in Creating \cup Versioning \cup {"checkOut"}
       /\ next = IF op \in {"createPwc", "checkOut"} THEN "name" ELSE "resave"
  /\ st = "name" => op \in {"createPwc", "checkOut"} /\ next = "resave"
  /\ st = "resave" =>
       /\ op \in Creating \cup Versioning \cup {"checkOut"}
       /\ next = IF op \in Versioning THEN "resaveFormer" ELSE "end"
  /\ st = "resaveFormer" =>
       op \in Versioning /\ next = IF op = "checkIn" THEN "latest" ELSE "end"
  /\ st = "remove" =>
       /\ op \in Returning => next = "clear"
       /\ op = "deleteVersion" => next = "latest"
       /\ op = "deleteSeries" => next = "detach"
       /\ op \in Returning \cup Deleting
  /\ st = "clear" =>
       op \in Returning /\ next = IF op = "checkIn" THEN "supersede" ELSE "latest"
  /\ st = "latest" =>
       /\ op \in Returning \cup {"deleteVersion"}
       /\ next = IF op = "deleteVersion" THEN "promote" ELSE "lockLatest"
  /\ st = "lockLatest" => op \in Returning /\ next = "end"
  /\ st = "promote" => op = "deleteVersion" /\ next = "end"
  /\ st = "detach" => op \in Deleting /\ next = "rewrite"
  /\ st = "rewrite" =>
       /\ op \in Deleting \cup {"restore"}
       /\ next = IF op = "restore" THEN "end" ELSE "archive"
  /\ st = "archive" => op \in Deleting /\ next = "remove"
  /\ st = "revive" => op = "restore" /\ next = "attach"
  /\ st = "attach" => op = "restore" /\ next = "drop"
  /\ st = "drop" =>
       op \in ArchiveCalls /\ next = IF op = "restore" THEN "revive" ELSE "drop"
  /\ st = "readLock" => op = "getAllVersions" /\ next = "readLock"

LEMMA Operations ==
  DOMAIN After = Creating \cup Versioning \cup Returning \cup Deleting
                   \cup ArchiveCalls \cup {"checkOut", "getAllVersions"}
BY DEF After, Creating, Versioning, Returning, Deleting, ArchiveCalls

LEMMA LockingCalls ==
  Locking = Returning \cup Deleting \cup {"checkOut", "setContentStream"}
<1>1. \A op \in DOMAIN After : "lock" \in DOMAIN After[op]
        <=> op \in Returning \cup Deleting \cup {"checkOut", "setContentStream"}
  BY DEF After, Returning, Deleting
<1>2. QED
  BY <1>1, Operations DEF Locking, Creating, Versioning, Returning, Deleting, ArchiveCalls

LEMMA StepOrder ==
  \A op \in DOMAIN After : \A st \in DOMAIN After[op] :
    /\ StepFits(op, st, After[op][st])
    /\ After[op][st] \in DOMAIN After[op] \cup {"end"}
<1>1. SUFFICES ASSUME NEW op \in DOMAIN After, NEW st \in DOMAIN After[op]
               PROVE  /\ StepFits(op, st, After[op][st])
                      /\ After[op][st] \in DOMAIN After[op] \cup {"end"}
  OBVIOUS
<1>2. CASE op = "createDocument"
  BY <1>1, <1>2, LockingCalls DEF After, StepFits, StepNames, Creating, Versioning,
     Returning, Deleting, ArchiveCalls
<1>3. CASE op = "createPwc"
  BY <1>1, <1>3, LockingCalls DEF After, StepFits, StepNames, Creating, Versioning,
     Returning, Deleting, ArchiveCalls
<1>4. CASE op = "checkOut"
  BY <1>1, <1>4, LockingCalls DEF After, StepFits, StepNames, Creating, Versioning,
     Returning, Deleting, ArchiveCalls
<1>5. CASE op = "cancelCheckOut"
  BY <1>1, <1>5, LockingCalls DEF After, StepFits, StepNames, Creating, Versioning,
     Returning, Deleting, ArchiveCalls
<1>6. CASE op = "checkIn"
  BY <1>1, <1>6, LockingCalls DEF After, StepFits, StepNames, Creating, Versioning,
     Returning, Deleting, ArchiveCalls
<1>7. CASE op = "setContentStream"
  BY <1>1, <1>7, LockingCalls DEF After, StepFits, StepNames, Creating, Versioning,
     Returning, Deleting, ArchiveCalls
<1>8. CASE op = "saveVersion"
  BY <1>1, <1>8, LockingCalls DEF After, StepFits, StepNames, Creating, Versioning,
     Returning, Deleting, ArchiveCalls
<1>9. CASE op = "deleteVersion"
  BY <1>1, <1>9, LockingCalls DEF After, StepFits, StepNames, Creating, Versioning,
     Returning, Deleting, ArchiveCalls
<1>10. CASE op = "deleteSeries"
  BY <1>1, <1>10, LockingCalls DEF After, StepFits, StepNames, Creating, Versioning,
     Returning, Deleting, ArchiveCalls
<1>11. CASE op = "restore"
  BY <1>1, <1>11, LockingCalls DEF After, StepFits, StepNames, Creating, Versioning,
     Returning, Deleting, ArchiveCalls
<1>12. CASE op = "destroy"
  BY <1>1, <1>12, LockingCalls DEF After, StepFits, StepNames, Creating, Versioning,
     Returning, Deleting, ArchiveCalls
<1>13. CASE op = "getAllVersions"
  BY <1>1, <1>13, LockingCalls DEF After, StepFits, StepNames, Creating, Versioning,
     Returning, Deleting, ArchiveCalls
<1>14. QED
  BY <1>1, <1>2, <1>3, <1>4, <1>5, <1>6, <1>7, <1>8, <1>9, <1>10, <1>11, <1>12, <1>13
     DEF After

-----------------------------------------------------------------------------
(***************************************************************************)
(* The inductive invariant of the types: what is stored, and what a call   *)
(* in progress knows of it.                                                *)
(***************************************************************************)

\* x is a revision that document d may have: all of them agree but for the
\* flags that say whether it is the latest (major) version, and a PWC is never
\* the latest version.
Alike(d, x) ==
  /\ d \in V!Created /\ x \in V!Revision
  /\ x.vs = rev[d].vs /\ x.pwc = rev[d].pwc
  /\ x.major = rev[d].major /\ x.label = rev[d].label
  /\ x.latest => ~x.pwc

Stored ==
  /\ rev \in [Doc -> V!Revision \cup {Absent}]
  /\ series \in [Series -> V!SeriesNode \cup {Absent}]
  /\ live \subseteq V!Created /\ attached \subseteq V!Created
  /\ shelved \in [Doc -> Nat]
  /\ \A d \in V!Created : Alike(d, rev[d]) /\ series[rev[d].vs] # Absent
  /\ V!SeriesNamesPwc

Filed ==
  /\ records \subseteq Record /\ IsFiniteSet(records)
  /\ \A r \in records : Alike(r.doc, r.rev)

Counted ==
  /\ budget \in Nat
  /\ mixed \subseteq Series
  /\ failed \subseteq DOMAIN After
  /\ destroyed \subseteq Doc

Steps(op) ==
  DOMAIN After[op] \cup (IF op \in ArchiveCalls THEN {"over"} ELSE {})

\* d is a document of the series the call works on.
Own(c, d) == d \in V!Created /\ rev[d].vs = SeriesOf(c)

\* The documents a call refers to, and the revisions it has of them.
KnowsDocs(c) ==
  /\ c.doc = NoDoc <=> c.op \in Creating
  /\ c.doc # NoDoc => Own(c, c.doc)
  /\ c.former # NoDoc =>
       Own(c, c.former) /\ Alike(c.former, c.copy) /\ ~rev[c.former].pwc
  /\ c.new # NoDoc => Own(c, c.new) /\ Alike(c.new, c.made)
  /\ c.at # NoDoc => Own(c, c.at)

\* The new document: what will be stored, and under which id it is.
KnowsNew(c) ==
  /\ c.step \in {"create", "name", "resave"} =>
       /\ c.made \in V!Revision /\ (c.made.latest => ~c.made.pwc)
       /\ c.made.vs = SeriesOf(c) /\ series[c.made.vs] # Absent
       /\ c.made.pwc <=> c.op \in {"createPwc", "checkOut"}
  /\ c.step \in {"name", "resave"} => c.new # NoDoc
  /\ c.new # NoDoc =>
       /\ c.step \in {"name", "resave", "resaveFormer", "latest", "lockLatest"}
       /\ c.op \in Creating \cup Versioning \cup {"checkOut"}

\* The document being removed or restored.
KnowsPlace(c) ==
  /\ c.step = "rewrite" => c.at # NoDoc /\ Alike(c.at, c.copy)
  /\ c.op \in Deleting /\ c.step \in {"archive", "remove"} => c.at # NoDoc
  /\ c.op \in Returning => c.at = NoDoc
  /\ c.former # NoDoc =>
       c.op \in Versioning \cup Returning \/ c.step = "promote"
  /\ c.op = "restore" /\ c.step \in {"attach", "drop"} =>
       c.at # NoDoc /\ c.record \in Record /\ c.record.doc = c.at

\* What is left to remove, restore, destroy or lock.
KnowsTodo(c) ==
  IF c.op \in ArchiveCalls
  THEN \A r \in c.todo : r \in Record /\ Alike(r.doc, r.rev) /\ Own(c, r.doc)
  ELSE \A d \in c.todo : Own(c, d)

\* What was checked before, and the locks.
KnowsLocks(c) ==
  /\ c.op = "setContentStream" => ~rev[c.doc].pwc
  /\ Guided /\ c.op \in Returning => rev[c.doc].pwc
  /\ Guided /\ c.op = "checkOut" => ~rev[c.doc].pwc
  /\ c.writes \subseteq {c.doc}
  /\ c.step = "lock" \/ c.op = "getAllVersions" => c.writes = {}
  /\ c.reads # {} => c.op = "getAllVersions"

Knows(c) ==
  /\ c \in Call
  /\ c.op = "none" => c = Rest
  /\ c.op # "none" =>
       /\ c.step \in Steps(c.op)
       /\ KnowsDocs(c) /\ KnowsNew(c) /\ KnowsPlace(c) /\ KnowsTodo(c) /\ KnowsLocks(c)

Calling == call \in [User -> Call] /\ \A u \in User : Knows(call[u])

Typed == Stored /\ Filed /\ Counted /\ Calling

-----------------------------------------------------------------------------
(***************************************************************************)
(* Steps only add to what is known                                         *)
(***************************************************************************)

\* What a document is stays as it is.
Grows ==
  /\ \A d \in V!Created :
       /\ d \in V!Created'
       /\ rev'[d].vs = rev[d].vs /\ rev'[d].pwc = rev[d].pwc
       /\ rev'[d].major = rev[d].major /\ rev'[d].label = rev[d].label
  /\ \A s \in Series : series[s] # Absent => series'[s] # Absent

LEMMA AlikeStable ==
  ASSUME Grows, NEW d, NEW x, Alike(d, x)  PROVE Alike(d, x)'
BY DEF Grows, Alike

LEMMA CreatedHas == ASSUME NEW d \in V!Created PROVE d \in Doc /\ d # NoDoc
BY DEF V!Created

LEMMA OwnStable ==
  ASSUME Grows, NEW c, c.doc # NoDoc => c.doc \in V!Created, NEW d, Own(c, d)
  PROVE  Own(c, d)' /\ SeriesOf(c)' = SeriesOf(c)
BY DEF Grows, Own, SeriesOf

LEMMA KnowsStable ==
  ASSUME Stored, Grows, NEW c, Knows(c)  PROVE Knows(c)'
<1>1. CASE c.op = "none"
  BY <1>1 DEF Knows
<1>2. CASE c.op # "none"
  <2>1. /\ c \in Call /\ c.step \in Steps(c.op)
        /\ KnowsDocs(c) /\ KnowsNew(c) /\ KnowsPlace(c) /\ KnowsTodo(c) /\ KnowsLocks(c)
    BY <1>2 DEF Knows
  <2>2. c.doc # NoDoc => c.doc \in V!Created
    BY <2>1 DEF KnowsDocs, Own
  <2>3. \A d : Own(c, d) => Own(c, d)'
    BY <2>2, OwnStable
  <2>4. \A d, x : Alike(d, x) => Alike(d, x)'
    BY AlikeStable
  <2>5. SeriesOf(c)' = SeriesOf(c)
    BY <2>2 DEF SeriesOf, Grows
  <2>6. KnowsDocs(c)'
    <3>1. c.former # NoDoc => rev'[c.former].pwc = rev[c.former].pwc
      BY <2>1 DEF KnowsDocs, Own, Grows
    <3>2. QED  BY <2>1, <2>3, <2>4, <3>1 DEF KnowsDocs
  <2>7. KnowsNew(c)'
    <3>1. c.made \in V!Revision => c.made.vs \in Series
      BY DEF V!Revision
    <3>2. c.made.vs \in Series => (series[c.made.vs] # Absent => series'[c.made.vs] # Absent)
      BY DEF Grows
    <3>3. QED  BY <2>1, <2>5, <3>1, <3>2 DEF KnowsNew
  <2>8. KnowsPlace(c)'
    BY <2>1, <2>4 DEF KnowsPlace
  <2>9. KnowsTodo(c)'
    BY <2>1, <2>3, <2>4 DEF KnowsTodo
  <2>10. KnowsLocks(c)'
    <3>1. c.doc # NoDoc => rev'[c.doc].pwc = rev[c.doc].pwc
      BY <2>2 DEF Grows
    <3>2. c.op \in {"setContentStream", "checkOut"} \cup Returning => c.doc # NoDoc
      BY <2>1 DEF KnowsDocs, Creating, Returning
    <3>3. QED  BY <2>1, <3>1, <3>2 DEF KnowsLocks
  <2>11. QED  BY <1>2, <2>1, <2>6, <2>7, <2>8, <2>9, <2>10 DEF Knows
<1>3. QED  BY <1>1, <1>2

LEMMA RestType == Rest \in Call /\ Rest.op = "none"
BY DEF Rest, Call

LEMMA KnowsRest == Knows(Rest) /\ Knows(Rest)'
BY RestType DEF Knows

\* A step of one caller: the others know what they knew.
LEMMA OneCalls ==
  ASSUME Stored, Grows, Calling, NEW u \in User, NEW x, Knows(x)',
         call' = [call EXCEPT ![u] = x]
  PROVE  Calling'
<1>1. x \in Call
  BY DEF Knows
<1>2. call' \in [User -> Call]
  BY <1>1 DEF Calling
<1>3. ASSUME NEW v \in User  PROVE Knows(call[v])'
  <2>1. CASE v = u
    BY <2>1 DEF Calling
  <2>2. CASE v # u
    <3>1. PICK c : c = call[v]
      OBVIOUS
    <3>2. Knows(c)
      BY <3>1 DEF Calling
    <3>3. Knows(c)'
      BY <3>2, KnowsStable
    <3>4. call'[v] = c
      BY <2>2, <3>1 DEF Calling
    <3>5. QED  BY <3>3, <3>4
  <2>3. QED  BY <2>1, <2>2
<1>4. QED  BY <1>2, <1>3 DEF Calling

\* The next step of a call.
LEMMA Continuing ==
  ASSUME NEW u \in User, NEW c, c.op \in DOMAIN After, c.step \in DOMAIN After[c.op],
         Continues(u, c)
  PROVE  \E next : 
           /\ next = After[c.op][c.step]
           /\ StepFits(c.op, c.step, next)
           /\ next \in DOMAIN After[c.op] \cup {"end"}
           /\ next = "end" => call' = [call EXCEPT ![u] = Rest]
           /\ next # "end" => call' = [call EXCEPT ![u] = [c EXCEPT !.step = next]]
BY StepOrder DEF Continues

-----------------------------------------------------------------------------
(***************************************************************************)
(* What the steps do to what is stored                                     *)
(***************************************************************************)

LEMMA StoresStay ==
  ASSUME Stored, Filed, UNCHANGED stores  PROVE Stored' /\ Filed' /\ Grows
<1>1. V!Created' = V!Created /\ rev' = rev /\ series' = series /\ live' = live
      /\ attached' = attached /\ shelved' = shelved /\ records' = records
  BY DEF stores, V!Created
<1>2. \A d, x : Alike(d, x)' <=> Alike(d, x)
  BY <1>1 DEF Alike
<1>3. V!SeriesNamesPwc' <=> V!SeriesNamesPwc
  BY <1>1 DEF V!SeriesNamesPwc
<1>4. Stored'
  BY <1>1, <1>2, <1>3 DEF Stored
<1>5. Filed'
  BY <1>1, <1>2 DEF Filed
<1>6. QED  BY <1>1, <1>4, <1>5 DEF Grows

\* The presence of documents and attachments changes, and no revision does.
LEMMA RevisionsStay ==
  ASSUME Stored, rev' = rev, series' = series,
         live' \subseteq V!Created, attached' \subseteq V!Created,
         shelved' \in [Doc -> Nat]
  PROVE  Stored' /\ Grows
<1>1. V!Created' = V!Created
  BY DEF V!Created
<1>2. \A d, x : Alike(d, x)' <=> Alike(d, x)
  BY <1>1 DEF Alike
<1>3. V!SeriesNamesPwc' <=> V!SeriesNamesPwc
  BY <1>1 DEF V!SeriesNamesPwc
<1>4. Stored'
  BY <1>1, <1>2, <1>3 DEF Stored
<1>5. QED  BY <1>1, <1>4 DEF Grows

LEMMA FiledStays ==
  ASSUME Filed, Grows, IsFiniteSet(records'),
         \A r \in records' \ records : r \in Record /\ Alike(r.doc, r.rev)'
  PROVE  Filed'
<1>1. \A r \in records : Alike(r.doc, r.rev)'
  BY AlikeStable DEF Filed
<1>2. QED  BY <1>1 DEF Filed

\* A document is written again.
LEMMA WriteAgain ==
  ASSUME Stored, Filed, NEW d, NEW r, Alike(d, r),
         rev' = [rev EXCEPT ![d] = r], series' = series,
         live' \subseteq V!Created, UNCHANGED <<attached, shelved, records>>
  PROVE  Stored' /\ Filed' /\ Grows
<1>1. d \in V!Created /\ r \in V!Revision /\ d \in Doc
  BY DEF Alike, V!Created
<1>2. rev' \in [Doc -> V!Revision \cup {Absent}]
  BY <1>1 DEF Stored
<1>3. V!Created' = V!Created
  BY <1>1 DEF V!Created, Stored
<1>4. \A e \in Doc : rev'[e] = IF e = d THEN r ELSE rev[e]
  BY DEF Stored
<1>5. \A e \in V!Created : /\ rev'[e].vs = rev[e].vs /\ rev'[e].pwc = rev[e].pwc
                           /\ rev'[e].major = rev[e].major /\ rev'[e].label = rev[e].label
  BY <1>4 DEF Alike, V!Created
<1>6. Grows
  BY <1>3, <1>5 DEF Grows
<1>7. \A e \in V!Created' : Alike(e, rev[e])' /\ series'[rev'[e].vs] # Absent
  <2>1. TAKE e \in V!Created'
  <2>2. CASE e = d
    BY <1>1, <1>3, <1>4, <1>5, <2>2 DEF Alike, Stored
  <2>3. CASE e # d
    BY <1>3, <1>4, <1>5, <2>3 DEF Alike, Stored, V!Created
  <2>4. QED  BY <2>2, <2>3
<1>8. V!SeriesNamesPwc'
  BY <1>3, <1>5 DEF V!SeriesNamesPwc, Stored
<1>9. Stored'
  BY <1>2, <1>3, <1>7, <1>8 DEF Stored
<1>10. Filed'
  BY <1>6, FiledStays DEF Filed
<1>11. QED  BY <1>6, <1>9, <1>10

LEMMA WritesAgain ==
  ASSUME Stored, Filed, NEW d, NEW r, Alike(d, r), Writes(d, r)
  PROVE  Stored' /\ Filed' /\ Grows
<1>1. live' \subseteq V!Created
  BY DEF Writes, Stored
<1>2. QED  BY <1>1, WriteAgain DEF Writes

\* A new document is written.
LEMMA WriteNew ==
  ASSUME Stored, Filed, NEW n \in Doc, NEW r, V!Fresh(n),
         r \in V!Revision, r.latest => ~r.pwc, series[r.vs] # Absent,
         rev' = [rev EXCEPT ![n] = r], live' = live \cup {n},
         attached' = attached \cup {n}, UNCHANGED <<series, shelved, records>>
  PROVE  Stored' /\ Filed' /\ Grows /\ V!Created' = V!Created \cup {n} /\ Alike(n, r)'
<1>1. rev' \in [Doc -> V!Revision \cup {Absent}]
  BY DEF Stored
<1>2. \A e \in Doc : rev'[e] = IF e = n THEN r ELSE rev[e]
  BY DEF Stored
<1>3. n \notin V!Created
  BY DEF V!Created, V!Fresh
<1>4. V!Created' = V!Created \cup {n}
  BY <1>2 DEF V!Created
<1>5. \A e \in V!Created : e \in Doc /\ rev'[e] = rev[e]
  BY <1>2, <1>3 DEF V!Created
<1>6. Grows
  BY <1>4, <1>5 DEF Grows
<1>7. Alike(n, r)'
  BY <1>2, <1>4 DEF Alike
<1>8. \A e \in V!Created' : Alike(e, rev[e])' /\ series'[rev'[e].vs] # Absent
  <2>1. TAKE e \in V!Created'
  <2>2. CASE e = n
    BY <1>2, <1>7, <2>2
  <2>3. CASE e # n
    BY <1>4, <1>5, <2>3 DEF Alike, Stored
  <2>4. QED  BY <2>2, <2>3
<1>9. V!SeriesNamesPwc'
  BY <1>4, <1>5 DEF V!SeriesNamesPwc, Stored
<1>10. Stored'
  BY <1>1, <1>4, <1>8, <1>9 DEF Stored
<1>11. Filed'
  BY <1>6, FiledStays DEF Filed
<1>12. QED  BY <1>4, <1>6, <1>7, <1>10, <1>11

\* A series node is written.
LEMMA WriteSeries ==
  ASSUME Stored, Filed, NEW s \in Series, NEW node \in V!SeriesNode,
         node.out => /\ node.id \in V!Created
                     /\ rev[node.id].pwc /\ rev[node.id].vs = s,
         series' = [series EXCEPT ![s] = node], live' \subseteq V!Created,
         UNCHANGED <<rev, attached, shelved, records>>
  PROVE  Stored' /\ Filed' /\ Grows /\ series'[s] # Absent
<1>1. \A q \in Series : series'[q] = IF q = s THEN node ELSE series[q]
  BY DEF Stored
<1>2. series' \in [Series -> V!SeriesNode \cup {Absent}]
  BY DEF Stored
<1>3. V!Created' = V!Created
  BY DEF V!Created
<1>4. \A d, x : Alike(d, x)' <=> Alike(d, x)
  BY <1>3 DEF Alike
<1>5. Grows
  BY <1>1, <1>3 DEF Grows
<1>6. V!SeriesNamesPwc'
  BY <1>1, <1>3 DEF V!SeriesNamesPwc, Stored
<1>7. \A d \in V!Created : rev[d].vs \in Series
  BY DEF Stored, Alike, V!Revision
<1>8. Stored'
  BY <1>1, <1>2, <1>3, <1>4, <1>6, <1>7 DEF Stored
<1>9. Filed'
  BY <1>5, FiledStays DEF Filed
<1>10. QED  BY <1>1, <1>5, <1>8, <1>9

-----------------------------------------------------------------------------
(***************************************************************************)
(* What the steps do to the calls                                          *)
(***************************************************************************)

\* The fields of a call under way.
LEMMA Busy ==
  ASSUME Calling, NEW u \in User, call[u].step # "end"
  PROVE  /\ Knows(call[u]) /\ call[u] \in Call
         /\ call[u].op # "none" /\ call[u].op \in DOMAIN After
         /\ call[u].step \in Steps(call[u].op)
         /\ KnowsDocs(call[u]) /\ KnowsNew(call[u]) /\ KnowsPlace(call[u])
         /\ KnowsTodo(call[u]) /\ KnowsLocks(call[u])
         /\ call[u].step # "over" => call[u].step \in DOMAIN After[call[u].op]
<1>1. Knows(call[u])
  BY DEF Calling
<1>2. Rest.step = "end"
  BY DEF Rest
<1>3. call[u].op # "none"
  BY <1>1, <1>2 DEF Knows
<1>4. call[u].op \in DOMAIN After
  BY <1>1, <1>3 DEF Knows, Call
<1>5. QED  BY <1>1, <1>3, <1>4 DEF Knows, Steps

\* A call that goes on with the same fields.
LEMMA KnowsNext ==
  ASSUME NEW c, Knows(c), c.op \in DOMAIN After, c.step \in DOMAIN After[c.op],
         NEW next \in DOMAIN After[c.op], StepFits(c.op, c.step, next),
         c.step \in {"name", "resave", "resaveFormer", "remove", "clear",
                     "rewrite", "archive", "attach"}
  PROVE  Knows([c EXCEPT !.step = next])
<1> DEFINE x == [c EXCEPT !.step = next]
<1>1. /\ c \in Call /\ c.op # "none" /\ KnowsDocs(c) /\ KnowsNew(c)
      /\ KnowsPlace(c) /\ KnowsTodo(c) /\ KnowsLocks(c)
  BY Operations DEF Knows, Creating, Versioning, Returning, Deleting, ArchiveCalls
<1>2. next \in StepNames
  <2>1. StepFits(c.op, next, After[c.op][next])
    BY StepOrder
  <2>2. QED  BY <2>1 DEF StepFits
<1>3. /\ x.op = c.op /\ x.step = next /\ x.doc = c.doc /\ x.at = c.at
      /\ x.former = c.former /\ x.new = c.new /\ x.copy = c.copy /\ x.made = c.made
      /\ x.record = c.record /\ x.todo = c.todo /\ x.writes = c.writes /\ x.reads = c.reads
  BY <1>1 DEF Call
<1>4. x \in Call
  BY <1>1, <1>2 DEF Call, StepNames
<1>5. SeriesOf(x) = SeriesOf(c)
  BY <1>3 DEF SeriesOf
<1> HIDE DEF x
<1>6. KnowsDocs(x)
  BY <1>1, <1>3, <1>5 DEF KnowsDocs, Own
<1>7. next \notin {"lock", "create", "name", "rewrite", "attach"}
  BY DEF StepFits, Returning, Deleting
<1>8. KnowsNew(x)
  <2>1. /\ next = "resave" => c.step = "name"
        /\ c.step \in {"name", "resave", "resaveFormer"} =>
             next \in {"resave", "resaveFormer", "latest"}
    BY <1>2 DEF StepFits, StepNames, Returning, Deleting
  <2>2. QED  BY <1>1, <1>3, <1>5, <1>7, <2>1 DEF KnowsNew
<1>9. KnowsPlace(x)
  <2>1. /\ next = "drop" => c.step = "attach"
        /\ next = "archive" => c.step = "rewrite"
        /\ next = "remove" => c.step = "archive"
    BY DEF StepFits, Returning, Deleting
  <2>2. QED  BY <1>1, <1>3, <1>7, <2>1 DEF KnowsPlace
<1>10. KnowsTodo(x)
  BY <1>1, <1>3, <1>5 DEF KnowsTodo, Own
<1>11. KnowsLocks(x)
  BY <1>1, <1>3, <1>7 DEF KnowsLocks
<1>12. Knows(x)
  BY <1>1, <1>3, <1>4, <1>6, <1>8, <1>9, <1>10, <1>11 DEF Knows, Steps
<1>13. QED  BY <1>12 DEF x

\* The conclusion of every step of a call.
LEMMA TypedNext ==
  ASSUME Typed, Stored', Filed', Counted', Grows, NEW u \in User, NEW y,
         y.op \in DOMAIN After, y.step \in DOMAIN After[y.op], Continues(u, y),
         \A next \in DOMAIN After[y.op] :
           StepFits(y.op, y.step, next) => Knows([y EXCEPT !.step = next])
  PROVE  Typed'
<1>1. PICK next \in DOMAIN After[y.op] \cup {"end"} :
           /\ StepFits(y.op, y.step, next)
           /\ next = "end" => call' = [call EXCEPT ![u] = Rest]
           /\ next # "end" => call' = [call EXCEPT ![u] = [y EXCEPT !.step = next]]
  BY Continuing
<1>2. CASE next = "end"
  <2>1. Calling'
    BY <1>1, <1>2, KnowsRest, OneCalls DEF Typed
  <2>2. QED  BY <2>1 DEF Typed
<1>3. CASE next # "end"
  <2>1. PICK x : x = [y EXCEPT !.step = next]
    OBVIOUS
  <2>2. Knows(x)
    BY <1>1, <1>3, <2>1
  <2>3. Knows(x)'
    BY <2>2, KnowsStable DEF Typed
  <2>4. Calling'
    BY <1>1, <1>3, <2>1, <2>3, OneCalls DEF Typed
  <2>5. QED  BY <2>4 DEF Typed
<1>4. QED  BY <1>2, <1>3

LEMMA TypedEnds ==
  ASSUME Typed, Stored', Filed', Counted', Grows, NEW u \in User, Ends(u)
  PROVE  Typed'
<1>1. Calling'
  BY KnowsRest, OneCalls DEF Typed, Ends
<1>2. QED  BY <1>1 DEF Typed

LEMMA CountedFine == ASSUME Counted, Fine, UNCHANGED destroyed PROVE Counted'
BY DEF Counted, Fine

LEMMA TypedThrows ==
  ASSUME Typed, NEW u \in User, Throws(u), call[u].step # "end",
         UNCHANGED mixed, budget' \in Nat
  PROVE  Typed' /\ Grows
<1>1. Stored' /\ Filed' /\ Grows
  BY StoresStay DEF Typed, Throws
<1>2. Counted'
  BY Busy DEF Typed, Counted, Throws, stores
<1>3. QED  BY <1>1, <1>2, TypedEnds DEF Throws

LEMMA SameFields ==
  ASSUME Typed, Stored', Filed', Counted', Grows, NEW u \in User,
         call[u].step \in {"name", "resave", "resaveFormer", "remove", "clear",
                           "rewrite", "archive", "attach"},
         Continues(u, call[u])
  PROVE  Typed'
<1>1. PICK c : c = call[u]
  OBVIOUS
<1>2. Knows(c) /\ c.op \in DOMAIN After /\ c.step \in DOMAIN After[c.op]
  BY <1>1, Busy DEF Typed
<1>3. \A next \in DOMAIN After[c.op] :
        StepFits(c.op, c.step, next) => Knows([c EXCEPT !.step = next])
  BY <1>1, <1>2, KnowsNext
<1>4. QED  BY <1>1, <1>2, <1>3, TypedNext

-----------------------------------------------------------------------------
(***************************************************************************)
(* The steps that write, one by one                                        *)
(***************************************************************************)

LEMMA TypedName ==
  ASSUME Typed, NEW u \in User, Name(u)  PROVE Typed' /\ Grows
<1>1. PICK c : c = call[u]
  OBVIOUS
<1>2. c.step = "name"
  BY <1>1 DEF Name, Goes
<1>3. KnowsDocs(c) /\ KnowsNew(c) /\ c \in Call /\ c.made.pwc
  <2>1. /\ KnowsDocs(c) /\ KnowsNew(c) /\ c \in Call
        /\ c.op \in DOMAIN After /\ c.step \in DOMAIN After[c.op]
    BY <1>1, <1>2, Busy DEF Typed
  <2>2. c.op \in {"createPwc", "checkOut"}
    BY <1>2, <2>1, StepOrder DEF StepFits
  <2>3. QED  BY <1>2, <2>1, <2>2 DEF KnowsNew
<1>4. /\ c.made \in V!Revision /\ c.made.vs \in Series /\ c.new \in V!Created
      /\ rev[c.new].pwc /\ rev[c.new].vs = c.made.vs /\ c.new \in Doc
  BY <1>2, <1>3 DEF KnowsDocs, KnowsNew, Alike, V!Revision, V!Created
<1>5. PICK node : node = V!CheckedOut(c.new, u)
  OBVIOUS
<1>6. node \in V!SeriesNode /\ node.id = c.new
  BY <1>4, <1>5 DEF V!CheckedOut, V!SeriesNode
<1>7. PICK s : s = c.made.vs
  OBVIOUS
<1>8. Stored' /\ Filed' /\ Grows
  <2>1. series' = [series EXCEPT ![s] = node] /\ UNCHANGED <<live, rev, attached, shelved, records>>
    BY <1>1, <1>5, <1>7 DEF Name
  <2>2. live' \subseteq V!Created
    BY <2>1 DEF Typed, Stored
  <2>3. s \in Series /\ rev[node.id].pwc /\ rev[node.id].vs = s /\ node.id \in V!Created
    BY <1>4, <1>6, <1>7
  <2>4. QED  BY <1>6, <2>1, <2>2, <2>3, WriteSeries DEF Typed
<1>9. Counted'
  BY CountedFine DEF Name, Typed
<1>10. QED  BY <1>1, <1>2, <1>8, <1>9, SameFields DEF Name

LEMMA TypedResave ==
  ASSUME Typed, NEW u \in User, Resave(u)  PROVE Typed' /\ Grows
<1>1. PICK c : c = call[u]
  OBVIOUS
<1>2. c.step = "resave"
  BY <1>1 DEF Resave, Goes
<1>3. KnowsDocs(c) /\ KnowsNew(c)
  BY <1>1, <1>2, Busy DEF Typed
<1>4. Alike(c.new, c.made) /\ Alike(c.new, rev[c.new])
  BY <1>2, <1>3 DEF KnowsDocs, KnowsNew, Own, Typed, Stored
<1>5. PICK r : Alike(c.new, r) /\ Writes(c.new, r)
  BY <1>1, <1>4 DEF Resave
<1>6. Stored' /\ Filed' /\ Grows
  BY <1>5, WritesAgain DEF Typed
<1>7. Counted'
  BY <1>5, CountedFine DEF Writes, Typed
<1>8. QED  BY <1>1, <1>2, <1>6, <1>7, SameFields DEF Resave

LEMMA TypedResaveFormer ==
  ASSUME Typed, NEW u \in User, ResaveFormer(u)  PROVE Typed' /\ Grows
<1>1. PICK c : c = call[u]
  OBVIOUS
<1>2. c.step = "resaveFormer" /\ Writes(c.former, c.copy)
  BY <1>1 DEF ResaveFormer, Goes
<1>3. KnowsDocs(c)
  BY <1>1, <1>2, Busy DEF Typed
<1>4. c.former # NoDoc
  BY <1>2 DEF Writes, Typed, Stored, V!Created
<1>5. Stored' /\ Filed' /\ Grows
  BY <1>2, <1>3, <1>4, WritesAgain DEF Typed, KnowsDocs
<1>6. Counted'
  BY <1>2, CountedFine DEF Writes, Typed
<1>7. QED  BY <1>1, <1>2, <1>5, <1>6, SameFields DEF ResaveFormer

LEMMA TypedRewrite ==
  ASSUME Typed, NEW u \in User, Rewrite(u)  PROVE Typed' /\ Grows
<1>1. PICK c : c = call[u]
  OBVIOUS
<1>2. c.step = "rewrite"
  BY <1>1 DEF Rewrite, Goes
<1>3. KnowsPlace(c)
  BY <1>1, <1>2, Busy DEF Typed
<1>4. Alike(c.at, c.copy) /\ Alike(c.at, rev[c.at])
  BY <1>2, <1>3 DEF KnowsPlace, Alike, Typed, Stored
<1>5. PICK r : Alike(c.at, r) /\ Writes(c.at, r)
  BY <1>1, <1>4 DEF Rewrite
<1>6. Stored' /\ Filed' /\ Grows
  BY <1>5, WritesAgain DEF Typed
<1>7. Counted'
  BY <1>5, CountedFine DEF Writes, Typed
<1>8. QED  BY <1>1, <1>2, <1>6, <1>7, SameFields DEF Rewrite

LEMMA TypedPromote ==
  ASSUME Typed, NEW u \in User, Promote(u)  PROVE Typed' /\ Grows
<1>1. PICK c : c = call[u]
  OBVIOUS
<1>2. c.step = "promote"
  BY <1>1 DEF Promote, Goes
<1>3. /\ KnowsDocs(c) /\ c \in Call /\ c.op \in DOMAIN After /\ c.step \in DOMAIN After[c.op]
  BY <1>1, <1>2, Busy DEF Typed
<1>4. PICK r : r = [c.copy EXCEPT !.latest = TRUE, !.latestMajor = c.copy.major]
  OBVIOUS
<1>5. Writes(c.former, r)
  BY <1>1, <1>4 DEF Promote
<1>6. c.former # NoDoc
  BY <1>5 DEF Writes, Typed, Stored, V!Created
<1>7. Alike(c.former, r)
  BY <1>3, <1>4, <1>6 DEF KnowsDocs, Alike, V!Revision
<1>8. Stored' /\ Filed' /\ Grows
  BY <1>5, <1>7, WritesAgain DEF Typed
<1>9. Counted'
  BY <1>5, CountedFine DEF Writes, Typed
<1>10. Ends(u)
  <2>1. Continues(u, c)
    BY <1>1 DEF Promote
  <2>2. QED  BY <1>2, <1>3, <2>1, Continuing DEF StepFits, Ends
<1>11. QED  BY <1>8, <1>9, <1>10, TypedEnds

LEMMA TypedSupersede ==
  ASSUME Typed, NEW u \in User, Supersede(u)  PROVE Typed' /\ Grows
<1>1. PICK c : c = call[u]
  OBVIOUS
<1>2. c.step = "supersede"
  BY <1>1 DEF Supersede, Goes
<1>3. /\ KnowsDocs(c) /\ KnowsNew(c) /\ KnowsPlace(c) /\ KnowsTodo(c)
      /\ KnowsLocks(c) /\ c \in Call
      /\ c.op \in DOMAIN After /\ c.step \in DOMAIN After[c.op] /\ c.op # "none"
  BY <1>1, <1>2, Busy DEF Typed
<1>4. PICK r : r = V!Superseded(c.copy, c.major)
  OBVIOUS
<1>5. PICK m : m = V!NextVersion(c.copy, c.major)
  OBVIOUS
<1>6. Writes(c.former, r)
  BY <1>1, <1>4 DEF Supersede
<1>7. c.former # NoDoc
  BY <1>6 DEF Writes, Typed, Stored, V!Created
<1>8. /\ Alike(c.former, c.copy) /\ ~rev[c.former].pwc /\ Own(c, c.former)
      /\ c.major \in BOOLEAN
  BY <1>3, <1>7 DEF KnowsDocs, Call
<1>9. Alike(c.former, r)
  BY <1>4, <1>8 DEF Alike, V!Superseded, V!Revision
<1>10. Stored' /\ Filed' /\ Grows
  BY <1>6, <1>9, WritesAgain DEF Typed
<1>11. Counted'
  BY <1>6, CountedFine DEF Writes, Typed
<1>12. /\ m \in V!Revision /\ ~m.pwc /\ m.vs = SeriesOf(c)
       /\ series[m.vs] # Absent
  <2>1. c.copy \in V!Revision /\ c.copy.vs = rev[c.former].vs
    BY <1>8 DEF Alike
  <2>2. V!IncreasedVersionLabel(c.copy.label, c.major) \in Nat \X Nat
    BY <2>1 DEF V!IncreasedVersionLabel, V!Revision
  <2>3. m \in V!Revision /\ ~m.pwc /\ m.vs = c.copy.vs
    BY <1>5, <1>8, <2>1, <2>2 DEF V!NextVersion, V!Version, V!Revision
  <2>4. QED  BY <1>8, <2>1, <2>3 DEF Own, Typed, Stored
<1>13. PICK y : y = [c EXCEPT !.copy = r, !.made = m]
  OBVIOUS
<1>14. Continues(u, y) /\ y.op = c.op /\ y.step = c.step
  BY <1>1, <1>3, <1>4, <1>5, <1>13 DEF Supersede, Call
<1>15. ASSUME NEW next \in DOMAIN After[y.op], StepFits(y.op, y.step, next)
       PROVE  Knows([y EXCEPT !.step = next])
  <2>1. PICK x : x = [y EXCEPT !.step = next]
    OBVIOUS
  <2>2. next = "create" /\ c.op \in Versioning
    BY <1>2, <1>14, <1>15 DEF StepFits
  <2>3. /\ x.op = c.op /\ x.step = "create" /\ x.doc = c.doc /\ x.at = c.at
        /\ x.former = c.former /\ x.new = c.new /\ x.copy = r /\ x.made = m
        /\ x.todo = c.todo /\ x.writes = c.writes /\ x.reads = c.reads
    BY <1>3, <1>13, <2>1, <2>2 DEF Call
  <2>4. x \in Call
    <3>1. r \in V!Revision /\ m \in V!Revision /\ c \in Call
      BY <1>3, <1>9, <1>12 DEF Alike
    <3>2. y \in Call
      BY <1>13, <3>1 DEF Call
    <3>3. QED  BY <2>1, <2>2, <3>2 DEF Call
  <2>5. c.doc # NoDoc /\ c.new = NoDoc
    BY <1>2, <1>3, <2>2 DEF KnowsDocs, KnowsNew, Creating, Versioning
  <2>6. SeriesOf(x) = SeriesOf(c)
    BY <2>3, <2>5 DEF SeriesOf
  <2>7. KnowsDocs(x)
    BY <1>3, <1>8, <1>9, <2>3, <2>5, <2>6 DEF KnowsDocs, Own
  <2>8. KnowsNew(x)
    BY <1>12, <2>2, <2>3, <2>5, <2>6 DEF KnowsNew, Versioning
  <2>9. KnowsPlace(x) /\ KnowsTodo(x) /\ KnowsLocks(x)
    BY <1>3, <2>2, <2>3, <2>6 DEF KnowsPlace, KnowsTodo, KnowsLocks, Own, Versioning, Deleting
  <2>10. Knows(x)
    BY <1>3, <1>14, <2>2, <2>3, <2>4, <2>7, <2>8, <2>9 DEF Knows, Steps
  <2>11. QED  BY <2>1, <2>10
<1>16. QED  BY <1>3, <1>10, <1>11, <1>14, <1>15, TypedNext

LEMMA TypedCreate ==
  ASSUME Typed, NEW u \in User, Create(u)  PROVE Typed' /\ Grows
<1>1. PICK c : c = call[u]
  OBVIOUS
<1>2. c.step = "create"
  BY <1>1 DEF Create, Goes
<1>3. /\ KnowsDocs(c) /\ KnowsNew(c) /\ KnowsPlace(c) /\ KnowsTodo(c) /\ KnowsLocks(c)
      /\ c \in Call /\ Knows(c)
      /\ c.op \in DOMAIN After /\ c.step \in DOMAIN After[c.op] /\ c.op # "none"
  BY <1>1, <1>2, Busy DEF Typed
<1>4. PICK n \in Doc : /\ V!Fresh(n)
                       /\ rev' = [rev EXCEPT ![n] = c.made]
                       /\ live' = live \cup {n}
                       /\ attached' = attached \cup {n}
                       /\ Continues(u, [c EXCEPT !.new = n])
  BY <1>1 DEF Create
<1>5. /\ c.made \in V!Revision /\ (c.made.latest => ~c.made.pwc)
      /\ c.made.vs = SeriesOf(c) /\ series[c.made.vs] # Absent
  BY <1>2, <1>3 DEF KnowsNew
<1>6. Stored' /\ Filed' /\ Grows /\ V!Created' = V!Created \cup {n} /\ Alike(n, c.made)'
  <2>1. UNCHANGED <<series, shelved, records>>
    BY DEF Create
  <2>2. QED  BY <1>4, <1>5, <2>1, WriteNew DEF Typed
<1>7. Counted'
  <2>1. c.made.vs \in Series
    BY <1>5 DEF V!Revision
  <2>2. QED  BY <1>1, <2>1 DEF Create, Mixes, Typed, Counted
<1>8. PICK y : y = [c EXCEPT !.new = n]
  OBVIOUS
<1>9. Continues(u, y) /\ y.op = c.op /\ y.step = c.step
  BY <1>3, <1>4, <1>8 DEF Call
<1>10. PICK next \in DOMAIN After[y.op] \cup {"end"} :
           /\ StepFits(y.op, y.step, next)
           /\ next = "end" => call' = [call EXCEPT ![u] = Rest]
           /\ next # "end" => call' = [call EXCEPT ![u] = [y EXCEPT !.step = next]]
  BY <1>3, <1>9, Continuing
<1>11. next \in {"name", "resave"}
       /\ (next = "name" <=> c.op \in {"createPwc", "checkOut"})
  BY <1>2, <1>9, <1>10 DEF StepFits
<1>12. PICK x : x = [y EXCEPT !.step = next]
  OBVIOUS
<1>13. /\ x.op = c.op /\ x.step = next /\ x.doc = c.doc /\ x.at = c.at
       /\ x.former = c.former /\ x.new = n /\ x.copy = c.copy /\ x.made = c.made
       /\ x.todo = c.todo /\ x.writes = c.writes /\ x.reads = c.reads
       /\ x.record = c.record
  BY <1>3, <1>8, <1>12 DEF Call
<1>14. Knows(c)'
  BY <1>3, <1>6, KnowsStable DEF Typed
<1>15. /\ KnowsDocs(c)' /\ KnowsNew(c)' /\ KnowsPlace(c)' /\ KnowsTodo(c)' /\ KnowsLocks(c)'
  BY <1>3, <1>14 DEF Knows
<1>16. SeriesOf(x)' = SeriesOf(c)'
  BY <1>13 DEF SeriesOf
<1>17. x \in Call
  <2>1. y \in Call
    BY <1>3, <1>8 DEF Call
  <2>2. QED  BY <1>11, <1>12, <2>1 DEF Call
<1>18. c.made.vs = SeriesOf(c)' /\ series'[c.made.vs] # Absent
  BY <1>2, <1>15 DEF KnowsNew
<1>19. Own(x, n)'
  BY <1>6, <1>16, <1>18 DEF Own, Alike
<1>20. KnowsDocs(x)'
  BY <1>6, <1>13, <1>15, <1>16, <1>19 DEF KnowsDocs, Own
<1>21. KnowsNew(x)'
  <2>1. n # NoDoc
    OBVIOUS
  <2>2. c.made.pwc <=> c.op \in {"createPwc", "checkOut"}
    BY <1>2, <1>3 DEF KnowsNew
  <2>3. c.op \in Creating \cup Versioning \cup {"checkOut"}
    BY <1>2, <1>9, <1>10 DEF StepFits
  <2>4. QED  BY <1>5, <1>11, <1>13, <1>16, <1>18, <2>1, <2>2, <2>3 DEF KnowsNew
<1>22. KnowsPlace(x)' /\ KnowsTodo(x)' /\ KnowsLocks(x)'
  <2>1. KnowsPlace(x)'
    BY <1>2, <1>11, <1>13, <1>15 DEF KnowsPlace
  <2>2. KnowsTodo(x)'
    BY <1>13, <1>15, <1>16 DEF KnowsTodo, Own
  <2>3. KnowsLocks(x)'
    BY <1>11, <1>13, <1>15 DEF KnowsLocks
  <2>4. QED  BY <2>1, <2>2, <2>3
<1>23. Knows(x)'
  BY <1>3, <1>9, <1>10, <1>11, <1>13, <1>17, <1>20, <1>21, <1>22 DEF Knows, Steps
<1>24. Calling'
  BY <1>6, <1>10, <1>11, <1>12, <1>23, OneCalls DEF Typed
<1>25. QED  BY <1>6, <1>7, <1>24 DEF Typed

LEMMA TypedRemove ==
  ASSUME Typed, NEW u \in User, Remove(u)  PROVE Typed' /\ Grows
<1>1. UNCHANGED <<rev, series, shelved, records, destroyed>> /\ Fine /\ Goes(u, "remove")
      /\ live' \subseteq live /\ attached' \subseteq attached /\ Continues(u, call[u])
  BY DEF Remove
<1>2. Stored' /\ Grows
  BY <1>1, RevisionsStay DEF Typed, Stored
<1>3. Filed'
  BY <1>1, <1>2, FiledStays DEF Typed, Filed
<1>4. Counted'
  BY <1>1, CountedFine DEF Typed
<1>5. QED  BY <1>1, <1>2, <1>3, <1>4, SameFields DEF Goes

LEMMA TypedClear ==
  ASSUME Typed, NEW u \in User, Clear(u)  PROVE Typed' /\ Grows
<1>1. PICK c : c = call[u]
  OBVIOUS
<1>2. c.step = "clear"
  BY <1>1 DEF Clear, Goes
<1>3. KnowsDocs(c) /\ c.op \in DOMAIN After /\ c.step \in DOMAIN After[c.op]
  BY <1>1, <1>2, Busy DEF Typed
<1>4. c.op \in Returning
  <2>1. StepFits(c.op, c.step, After[c.op][c.step])
    BY <1>3, StepOrder
  <2>2. QED  BY <1>2, <2>1 DEF StepFits
<1>5. c.doc \in V!Created
  BY <1>3, <1>4 DEF KnowsDocs, Own, Creating, Returning
<1>6. PICK s : s = rev[c.doc].vs
  OBVIOUS
<1>7. s \in Series
  BY <1>5, <1>6 DEF Typed, Stored, Alike, V!Revision
<1>8. V!CheckedIn \in V!SeriesNode /\ ~V!CheckedIn.out
  BY DEF V!CheckedIn, V!SeriesNode
<1>9. Stored' /\ Filed' /\ Grows
  <2>1. series' = [series EXCEPT ![s] = V!CheckedIn] /\ UNCHANGED <<live, rev, attached, shelved, records>>
    BY <1>1, <1>6 DEF Clear
  <2>2. live' \subseteq V!Created
    BY <2>1 DEF Typed, Stored
  <2>3. QED  BY <1>7, <1>8, <2>1, <2>2, WriteSeries DEF Typed
<1>10. Counted'
  BY CountedFine DEF Clear, Typed
<1>11. QED  BY <1>1, <1>2, <1>9, <1>10, SameFields DEF Clear

\* The archive record is a new one.
LEMMA NewRecord ==
  ASSUME Filed, NEW u \in User, Archive(u), NEW c, c = call[u]
  PROVE  \E no \in Nat :
           /\ [doc |-> c.at, rev |-> rev[c.at], no |-> no] \notin records
           /\ records' = records \cup {[doc |-> c.at, rev |-> rev[c.at], no |-> no]}
<1>4. PICK same : same = {r \in records : r.doc = c.at}
  OBVIOUS
<1>5. IsFiniteSet(same) /\ same \subseteq records
  BY <1>4, FS_Subset DEF Filed
<1>6. PICK k \in Nat : k = Cardinality(same)
  BY <1>5, FS_CardinalityType
<1>7. \E n \in 1..(k + 1) : \A r \in same : r.no # n
  <2>1. SUFFICES ASSUME \A n \in 1..(k + 1) : \E r \in same : r.no = n
                 PROVE  FALSE
    OBVIOUS
  <2>2. PICK f : f = [n \in 1..(k + 1) |-> CHOOSE r \in same : r.no = n]
    OBVIOUS
  <2>3. \A n \in 1..(k + 1) : f[n] \in same /\ f[n].no = n
    BY <2>1, <2>2
  <2>4. f \in [1..(k + 1) -> same]
    BY <2>2, <2>3
  <2>5. IsFiniteSet(1..(k + 1)) /\ Cardinality(1..(k + 1)) = k + 1
    BY FS_Interval
  <2>6. \E n, m \in 1..(k + 1) : n # m /\ f[n] = f[m]
    BY <1>5, <1>6, <2>4, <2>5, FS_PigeonHole
  <2>7. QED  BY <2>3, <2>6
<1>8. PICK m : m = CHOOSE n \in 1..(k + 1) : \A r \in same : r.no # n
  OBVIOUS
<1>9. m \in 1..(k + 1) /\ \A r \in same : r.no # m
  BY <1>7, <1>8
<1>10. records' = records \cup {[doc |-> c.at, rev |-> rev[c.at], no |-> m]}
  BY <1>4, <1>6, <1>8 DEF Archive
<1>11. [doc |-> c.at, rev |-> rev[c.at], no |-> m] \notin records
  BY <1>4, <1>9
<1>12. QED  BY <1>9, <1>10, <1>11

LEMMA TypedArchive ==
  ASSUME Typed, NEW u \in User, Archive(u)  PROVE Typed' /\ Grows
<1>1. PICK c : c = call[u]
  OBVIOUS
<1>2. c.step = "archive" /\ c.at \in live
  BY <1>1 DEF Archive, Goes
<1>3. UNCHANGED <<live, rev, series, attached, shelved, destroyed>> /\ Fine
  BY DEF Archive
<1>8. PICK no \in Nat : records' = records \cup {[doc |-> c.at, rev |-> rev[c.at], no |-> no]}
  BY <1>1, NewRecord DEF Typed
<1>9. PICK r : r = [doc |-> c.at, rev |-> rev[c.at], no |-> no]
  OBVIOUS
<1>10. Alike(c.at, rev[c.at]) /\ c.at \in Doc /\ rev[c.at] \in V!Revision
  BY <1>2 DEF Typed, Stored, Alike, V!Created
<1>11. r \in Record /\ Alike(r.doc, r.rev)
  BY <1>9, <1>10 DEF Record
<1>12. Stored' /\ Grows
  BY <1>3, RevisionsStay DEF Typed, Stored
<1>13. Alike(r.doc, r.rev)'
  BY <1>11, <1>12, AlikeStable
<1>14. IsFiniteSet(records')
  BY <1>8, FS_AddElement DEF Typed, Filed
<1>15. Filed'
  BY <1>8, <1>9, <1>11, <1>12, <1>13, <1>14, FiledStays DEF Typed
<1>16. Counted'
  BY <1>3, CountedFine DEF Typed
<1>17. QED  BY <1>1, <1>2, <1>12, <1>15, <1>16, SameFields DEF Archive

LEMMA TypedAttach ==
  ASSUME Typed, NEW u \in User, Attach(u)  PROVE Typed' /\ Grows
<1>1. PICK c : c = call[u]
  OBVIOUS
<1>2. c.step = "attach" /\ attached' = attached \cup {c.at}
      /\ UNCHANGED <<live, rev, series, shelved, records, destroyed>> /\ Fine
  BY <1>1 DEF Attach, Goes
<1>3. KnowsDocs(c) /\ KnowsPlace(c) /\ c.op \in DOMAIN After /\ c.step \in DOMAIN After[c.op]
  BY <1>1, <1>2, Busy DEF Typed
<1>4. c.op = "restore"
  <2>1. StepFits(c.op, c.step, After[c.op][c.step])
    BY <1>3, StepOrder
  <2>2. QED  BY <1>2, <2>1 DEF StepFits
<1>5. c.at \in V!Created
  BY <1>2, <1>3, <1>4 DEF KnowsDocs, KnowsPlace, Own
<1>6. Stored' /\ Grows
  BY <1>2, <1>5, RevisionsStay DEF Typed, Stored
<1>7. Filed'
  BY <1>2, <1>6, FiledStays DEF Typed, Filed
<1>8. Counted'
  BY <1>2, CountedFine DEF Typed
<1>9. QED  BY <1>1, <1>2, <1>6, <1>7, <1>8, SameFields DEF Attach

LEMMA TypedRevive ==
  ASSUME Typed, NEW u \in User, Revive(u)  PROVE Typed' /\ Grows
<1>1. PICK c : c = call[u]
  OBVIOUS
<1>2. c.step = "revive"
  BY <1>1 DEF Revive, Goes
<1>3. /\ KnowsDocs(c) /\ KnowsNew(c) /\ KnowsPlace(c) /\ KnowsTodo(c) /\ KnowsLocks(c)
      /\ c \in Call /\ c.op \in DOMAIN After /\ c.step \in DOMAIN After[c.op] /\ c.op # "none"
  BY <1>1, <1>2, Busy DEF Typed
<1>4. c.op = "restore"
  <2>1. StepFits(c.op, c.step, After[c.op][c.step])
    BY <1>3, StepOrder
  <2>2. QED  BY <1>2, <2>1 DEF StepFits
<1>5. PICK r \in c.todo :
           /\ live' = live \cup {r.doc}
           /\ rev' = [rev EXCEPT ![r.doc] = r.rev]
           /\ Continues(u, [c EXCEPT !.at = r.doc, !.record = r, !.todo = @ \ {r}])
  BY <1>1 DEF Revive
<1>6. /\ UNCHANGED <<series, attached, shelved, records, destroyed>> /\ Fine
  BY DEF Revive
<1>7. r \in Record /\ Alike(r.doc, r.rev) /\ Own(c, r.doc)
  BY <1>3, <1>4, <1>5 DEF KnowsTodo, ArchiveCalls
<1>8. Stored' /\ Filed' /\ Grows
  <2>1. live' \subseteq V!Created
    BY <1>5, <1>7 DEF Alike, Typed, Stored
  <2>2. QED  BY <1>5, <1>6, <1>7, <2>1, WriteAgain DEF Typed
<1>9. Counted'
  BY <1>6, CountedFine DEF Typed
<1>10. PICK y : y = [c EXCEPT !.at = r.doc, !.record = r, !.todo = @ \ {r}]
  OBVIOUS
<1>11. Continues(u, y) /\ y.op = c.op /\ y.step = c.step
  BY <1>3, <1>5, <1>10 DEF Call
<1>12. ASSUME NEW next \in DOMAIN After[y.op], StepFits(y.op, y.step, next)
       PROVE  Knows([y EXCEPT !.step = next])
  <2>1. PICK x : x = [y EXCEPT !.step = next]
    OBVIOUS
  <2>2. next = "attach"
    BY <1>2, <1>11, <1>12 DEF StepFits
  <2>3. /\ x.op = "restore" /\ x.step = "attach" /\ x.doc = c.doc /\ x.at = r.doc
        /\ x.former = c.former /\ x.new = c.new /\ x.copy = c.copy /\ x.made = c.made
        /\ x.todo = c.todo \ {r} /\ x.writes = c.writes /\ x.reads = c.reads
        /\ x.record = r
    BY <1>3, <1>4, <1>10, <2>1, <2>2 DEF Call
  <2>4. x \in Call
    <3>1. r.doc \in Doc
      BY <1>7 DEF Alike, V!Created
    <3>2. y \in Call
      BY <1>3, <1>7, <1>10, <3>1 DEF Call
    <3>3. QED  BY <2>1, <2>2, <3>2 DEF Call
  <2>5. SeriesOf(x) = SeriesOf(c)
    BY <2>3 DEF SeriesOf
  <2>6. KnowsDocs(x)
    BY <1>3, <1>4, <1>7, <2>3, <2>5 DEF KnowsDocs, Own
  <2>7. KnowsNew(x)
    BY <1>2, <1>3, <2>3 DEF KnowsNew
  <2>8. KnowsPlace(x)
    BY <1>2, <1>3, <1>4, <1>7, <2>3 DEF KnowsPlace, Deleting, Returning, Alike, V!Created
  <2>9. KnowsTodo(x)
    BY <1>3, <1>4, <2>3, <2>5 DEF KnowsTodo, Own
  <2>10. KnowsLocks(x)
    BY <1>3, <1>4, <2>3 DEF KnowsLocks, Returning
  <2>11. Knows(x)
    BY <1>4, <1>11, <2>2, <2>3, <2>4, <2>6, <2>7, <2>8, <2>9, <2>10 DEF Knows, Steps
  <2>12. QED  BY <2>1, <2>11
<1>13. QED  BY <1>3, <1>8, <1>9, <1>11, <1>12, TypedNext

LEMMA TypedDetach ==
  ASSUME Typed, NEW u \in User, Detach(u)  PROVE Typed' /\ Grows
<1>1. PICK c : c = call[u]
  OBVIOUS
<1>2. c.step = "detach"
  BY <1>1 DEF Detach, Goes
<1>3. /\ KnowsDocs(c) /\ KnowsNew(c) /\ KnowsTodo(c) /\ KnowsLocks(c) /\ KnowsPlace(c) /\ c \in Call
      /\ c.op \in DOMAIN After /\ c.step \in DOMAIN After[c.op] /\ c.op # "none"
  BY <1>1, <1>2, Busy DEF Typed
<1>4. c.op \in Deleting
  <2>1. StepFits(c.op, c.step, After[c.op][c.step])
    BY <1>3, StepOrder
  <2>2. QED  BY <1>2, <2>1 DEF StepFits
<1>5. PICK d \in c.todo \cap attached :
           /\ attached' = attached \ {d}
           /\ shelved' = [shelved EXCEPT ![d] = @ + 1]
           /\ IF d \in live
              THEN Continues(u, [c EXCEPT !.todo = @ \ {d}, !.at = d, !.copy = rev[d]])
              ELSE call' = [call EXCEPT ![u].todo = @ \ {d}]
  BY <1>1 DEF Detach
<1>6. UNCHANGED <<live, rev, series, records, destroyed>> /\ Fine
  BY DEF Detach
<1>7. d \in V!Created /\ d \in Doc /\ Own(c, d) /\ d # NoDoc
  BY <1>3, <1>4, <1>5 DEF KnowsTodo, Own, V!Created, Deleting, ArchiveCalls
<1>8. Stored' /\ Grows
  <2>1. shelved' \in [Doc -> Nat]
    BY <1>5, <1>7 DEF Typed, Stored
  <2>2. QED  BY <1>5, <1>6, <2>1, RevisionsStay DEF Typed, Stored
<1>9. Filed'
  BY <1>6, <1>8, FiledStays DEF Typed, Filed
<1>10. Counted'
  BY <1>6, CountedFine DEF Typed
<1>11. PICK e \in V!Revision : e = rev[d] /\ Alike(d, e)
  BY <1>7 DEF Typed, Stored, Alike
<1>12. CASE d \in live
  <2>1. PICK y : y = [c EXCEPT !.todo = @ \ {d}, !.at = d, !.copy = e]
    OBVIOUS
  <2>2. Continues(u, y) /\ y.op = c.op /\ y.step = c.step
    BY <1>3, <1>5, <1>11, <1>12, <2>1 DEF Call
  <2>3. ASSUME NEW next \in DOMAIN After[y.op], StepFits(y.op, y.step, next)
        PROVE  Knows([y EXCEPT !.step = next])
    <3>1. PICK x : x = [y EXCEPT !.step = next]
      OBVIOUS
    <3>2. next = "rewrite"
      BY <1>2, <2>2, <2>3 DEF StepFits
    <3>3. /\ x.op = c.op /\ x.step = "rewrite" /\ x.doc = c.doc /\ x.at = d
          /\ x.former = c.former /\ x.new = c.new /\ x.copy = e /\ x.made = c.made
          /\ x.todo = c.todo \ {d} /\ x.writes = c.writes /\ x.reads = c.reads
      BY <1>3, <2>1, <3>1, <3>2 DEF Call
    <3>4. x \in Call
      <4>1. y \in Call
        BY <1>3, <1>7, <2>1 DEF Call
      <4>2. QED  BY <3>1, <3>2, <4>1 DEF Call
    <3>5. SeriesOf(x) = SeriesOf(c)
      BY <3>3 DEF SeriesOf
    <3>6. c.former = NoDoc
      BY <1>2, <1>3, <1>4 DEF KnowsPlace, Versioning, Returning, Deleting
    <3>7. KnowsDocs(x)
      BY <1>3, <1>7, <3>3, <3>5, <3>6 DEF KnowsDocs, Own
    <3>8. KnowsNew(x)
      BY <1>2, <1>3, <3>3 DEF KnowsNew
    <3>9. KnowsPlace(x)
      BY <1>4, <1>7, <1>11, <3>3, <3>6 DEF KnowsPlace, Deleting, Returning
    <3>10. KnowsTodo(x)
      BY <1>3, <1>4, <3>3, <3>5 DEF KnowsTodo, Own, Deleting, ArchiveCalls
    <3>11. KnowsLocks(x)
      BY <1>3, <1>4, <3>3 DEF KnowsLocks, Deleting
    <3>12. Knows(x)
      BY <1>3, <2>2, <3>2, <3>3, <3>4, <3>7, <3>8, <3>9, <3>10, <3>11 DEF Knows, Steps
    <3>13. QED  BY <3>1, <3>12
  <2>4. QED  BY <1>3, <1>8, <1>9, <1>10, <2>2, <2>3, TypedNext
<1>13. CASE d \notin live
  <2>1. PICK x : x = [c EXCEPT !.todo = @ \ {d}]
    OBVIOUS
  <2>2. call' = [call EXCEPT ![u] = x]
    <3>1. call' = [call EXCEPT ![u].todo = @ \ {d}]
      BY <1>5, <1>13
    <3>2. call' = [call EXCEPT ![u] = [c EXCEPT !.todo = @ \ {d}]]
      BY <1>1, <3>1
    <3>3. QED  BY <2>1, <3>2
  <2>3. /\ x.op = c.op /\ x.step = c.step /\ x.doc = c.doc /\ x.at = c.at
        /\ x.former = c.former /\ x.new = c.new /\ x.copy = c.copy /\ x.made = c.made
        /\ x.todo = c.todo \ {d} /\ x.writes = c.writes /\ x.reads = c.reads
        /\ x.record = c.record
    BY <1>3, <2>1 DEF Call
  <2>4. x \in Call
    BY <1>3, <2>1 DEF Call
  <2>5. SeriesOf(x) = SeriesOf(c)
    BY <2>3 DEF SeriesOf
  <2>6. KnowsDocs(x) /\ KnowsNew(x) /\ KnowsPlace(x) /\ KnowsLocks(x)
    <3>1. KnowsDocs(x)
      BY <1>3, <2>3, <2>5 DEF KnowsDocs, Own
    <3>2. KnowsNew(x) /\ KnowsPlace(x) /\ KnowsLocks(x)
      BY <1>2, <1>3, <2>3, <2>5 DEF KnowsNew, KnowsPlace, KnowsLocks
    <3>3. QED  BY <3>1, <3>2
  <2>7. KnowsTodo(x)
    BY <1>3, <1>4, <2>3, <2>5 DEF KnowsTodo, Own, Deleting, ArchiveCalls
  <2>8. Knows(x)
    BY <1>3, <2>3, <2>4, <2>6, <2>7 DEF Knows, Steps
  <2>9. Knows(x)'
    BY <1>8, <2>8, KnowsStable DEF Typed
  <2>10. Calling'
    BY <1>8, <2>2, <2>9, OneCalls DEF Typed
  <2>11. QED  BY <1>8, <1>9, <1>10, <2>10 DEF Typed
<1>14. QED  BY <1>12, <1>13

LEMMA TypedLatest ==
  ASSUME Typed, NEW u \in User, Latest(u)  PROVE Typed' /\ Grows
<1>1. PICK c : c = call[u]
  OBVIOUS
<1>2. c.step = "latest" /\ UNCHANGED stores /\ Fine
  BY <1>1 DEF Latest, Goes
<1>3. /\ KnowsDocs(c) /\ KnowsNew(c) /\ KnowsTodo(c) /\ KnowsLocks(c) /\ KnowsPlace(c) /\ c \in Call
      /\ c.op \in DOMAIN After /\ c.step \in DOMAIN After[c.op] /\ c.op # "none"
  BY <1>1, <1>2, Busy DEF Typed
<1>4. c.op \in Returning \cup {"deleteVersion"}
  <2>1. StepFits(c.op, c.step, After[c.op][c.step])
    BY <1>3, StepOrder
  <2>2. QED  BY <1>2, <2>1 DEF StepFits
<1>5. Stored' /\ Filed' /\ Grows
  BY <1>2, StoresStay DEF Typed
<1>6. Counted'
  BY <1>2, CountedFine DEF Typed, stores
<1>7. CASE Ends(u)
  BY <1>5, <1>6, <1>7, TypedEnds
<1>8. ASSUME NEW l \in V!LatestVersions(rev[c.doc].vs),
             Continues(u, [c EXCEPT !.former = l, !.copy = rev[l]])
      PROVE  Typed'
  <2>1. /\ l \in V!Created /\ l \in Doc /\ l # NoDoc
        /\ rev[l].vs = rev[c.doc].vs /\ rev[l].latest
    BY DEF V!LatestVersions, V!Versions, V!Created, Typed, Stored
  <2>2. PICK e \in V!Revision : e = rev[l] /\ Alike(l, e) /\ ~e.pwc
    BY <2>1 DEF Typed, Stored, Alike
  <2>3. PICK y : y = [c EXCEPT !.former = l, !.copy = e]
    OBVIOUS
  <2>4. Continues(u, y) /\ y.op = c.op /\ y.step = c.step
    BY <1>3, <1>8, <2>2, <2>3 DEF Call
  <2>5. Own(c, l)
    BY <1>3, <1>4, <2>1 DEF KnowsDocs, Own, SeriesOf, Returning, Creating
  <2>6. ASSUME NEW next \in DOMAIN After[y.op], StepFits(y.op, y.step, next)
        PROVE  Knows([y EXCEPT !.step = next])
    <3>1. PICK x : x = [y EXCEPT !.step = next]
      OBVIOUS
    <3>2. next \in {"promote", "lockLatest"}
          /\ (next = "lockLatest" => c.op \in Returning)
          /\ (next = "promote" => c.op = "deleteVersion")
      BY <1>2, <2>4, <2>6 DEF StepFits, Returning
    <3>3. /\ x.op = c.op /\ x.step = next /\ x.doc = c.doc /\ x.at = c.at
          /\ x.former = l /\ x.new = c.new /\ x.copy = e /\ x.made = c.made
          /\ x.todo = c.todo /\ x.writes = c.writes /\ x.reads = c.reads
      BY <1>3, <2>3, <3>1 DEF Call
    <3>4. x \in Call
      <4>1. y \in Call
        BY <1>3, <2>1, <2>3 DEF Call
      <4>2. QED  BY <3>1, <3>2, <4>1 DEF Call
    <3>5. SeriesOf(x) = SeriesOf(c)
      BY <3>3 DEF SeriesOf
    <3>6. KnowsDocs(x)
      BY <1>3, <2>1, <2>2, <2>5, <3>3, <3>5 DEF KnowsDocs, Own
    <3>7. KnowsNew(x)
      <4>1. c.new # NoDoc => c.op # "deleteVersion"
        BY <1>3 DEF KnowsNew, Creating, Versioning
      <4>2. QED  BY <1>2, <1>3, <3>2, <3>3, <4>1 DEF KnowsNew
    <3>8. KnowsPlace(x)
      BY <1>3, <3>2, <3>3 DEF KnowsPlace
    <3>9. KnowsTodo(x)
      BY <1>3, <3>3, <3>5 DEF KnowsTodo, Own
    <3>10. KnowsLocks(x)
      BY <1>2, <1>3, <3>2, <3>3 DEF KnowsLocks
    <3>11. Knows(x)
      BY <1>3, <2>4, <3>2, <3>3, <3>4, <3>6, <3>7, <3>8, <3>9, <3>10 DEF Knows, Steps
    <3>12. QED  BY <3>1, <3>11
  <2>7. QED  BY <1>3, <1>5, <1>6, <2>4, <2>6, TypedNext
<1>9. QED  BY <1>1, <1>5, <1>7, <1>8 DEF Latest

LEMMA TypedDrop ==
  ASSUME Typed, NEW u \in User, Drop(u)  PROVE Typed' /\ Grows
<1>1. PICK c : c = call[u]
  OBVIOUS
<1>2. c.step = "drop"
  BY <1>1 DEF Drop, Goes
<1>3. /\ KnowsDocs(c) /\ KnowsNew(c) /\ KnowsPlace(c) /\ KnowsTodo(c) /\ KnowsLocks(c)
      /\ c \in Call /\ c.op \in DOMAIN After /\ c.step \in DOMAIN After[c.op] /\ c.op # "none"
  BY <1>1, <1>2, Busy DEF Typed
<1>4. c.op \in ArchiveCalls
  BY <1>2, <1>3, StepOrder DEF StepFits
<1>5. PICK r \in Droppable(c) :
           /\ shelved[r.doc] > 0
           /\ records' = records \ {r}
           /\ shelved' = [shelved EXCEPT ![r.doc] = @ - 1]
           /\ Destroys(c, r)
           /\ Continues(u, [c EXCEPT !.todo = @ \ {r}])
  BY <1>1 DEF Drop
<1>6. UNCHANGED <<live, rev, series, attached>> /\ Fine
  BY DEF Drop
<1>7. r.doc \in Doc
  <2>1. CASE c.op = "restore"
    BY <1>2, <1>3, <1>5, <2>1 DEF Droppable, Doomed, KnowsPlace, Record
  <2>2. CASE c.op # "restore"
    BY <1>3, <1>4, <1>5, <2>2 DEF Droppable, Doomed, KnowsTodo, Record
  <2>3. QED  BY <2>1, <2>2
<1>8. Stored' /\ Grows
  <2>1. shelved' \in [Doc -> Nat]
    <3>1. shelved[r.doc] - 1 \in Nat
      BY <1>5, <1>7 DEF Typed, Stored
    <3>2. QED  BY <1>5, <3>1 DEF Typed, Stored
  <2>2. QED  BY <1>6, <2>1, RevisionsStay DEF Typed, Stored
<1>9. Filed'
  <2>1. IsFiniteSet(records')
    BY <1>5, FS_Subset DEF Typed, Filed
  <2>2. QED  BY <1>5, <1>8, <2>1, FiledStays DEF Typed
<1>10. Counted'
  BY <1>5, <1>6, <1>7 DEF Typed, Counted, Destroys, Fine
<1>11. PICK y : y = [c EXCEPT !.todo = @ \ {r}]
  OBVIOUS
<1>12. Continues(u, y) /\ y.op = c.op /\ y.step = c.step
  BY <1>3, <1>5, <1>11 DEF Call
<1>13. ASSUME NEW next \in DOMAIN After[y.op], StepFits(y.op, y.step, next)
       PROVE  Knows([y EXCEPT !.step = next])
  <2>1. PICK x : x = [y EXCEPT !.step = next]
    OBVIOUS
  <2>2. next \in {"revive", "drop"} /\ (next = "revive" <=> c.op = "restore")
    BY <1>2, <1>12, <1>13 DEF StepFits
  <2>3. /\ x.op = c.op /\ x.step = next /\ x.doc = c.doc /\ x.at = c.at
        /\ x.former = c.former /\ x.new = c.new /\ x.copy = c.copy /\ x.made = c.made
        /\ x.todo = c.todo \ {r} /\ x.writes = c.writes /\ x.reads = c.reads
    BY <1>3, <1>11, <2>1 DEF Call
  <2>4. x \in Call
    <3>1. y \in Call
      BY <1>3, <1>11 DEF Call
    <3>2. QED  BY <2>1, <2>2, <3>1 DEF Call
  <2>5. SeriesOf(x) = SeriesOf(c)
    BY <2>3 DEF SeriesOf
  <2>6. KnowsDocs(x)
    BY <1>3, <2>3, <2>5 DEF KnowsDocs, Own
  <2>7. KnowsNew(x)
    BY <1>2, <1>3, <2>2, <2>3 DEF KnowsNew
  <2>8. KnowsPlace(x)
    BY <1>2, <1>3, <2>2, <2>3 DEF KnowsPlace
  <2>9. KnowsTodo(x)
    BY <1>3, <1>4, <2>3, <2>5 DEF KnowsTodo, Own
  <2>10. KnowsLocks(x)
    BY <1>2, <1>3, <2>2, <2>3 DEF KnowsLocks
  <2>11. Knows(x)
    BY <1>3, <1>12, <2>2, <2>3, <2>4, <2>6, <2>7, <2>8, <2>9, <2>10 DEF Knows, Steps
  <2>12. QED  BY <2>1, <2>11
<1>14. QED  BY <1>3, <1>8, <1>9, <1>10, <1>12, <1>13, TypedNext

LEMMA TypedDropHalf ==
  ASSUME Typed, NEW u \in User, DropHalf(u)  PROVE Typed' /\ Grows
<1>1. PICK c : c = call[u]
  OBVIOUS
<1>2. c.step = "drop"
  BY <1>1 DEF DropHalf, Goes
<1>3. /\ KnowsDocs(c) /\ KnowsNew(c) /\ KnowsPlace(c) /\ KnowsTodo(c) /\ KnowsLocks(c)
      /\ c \in Call /\ c.op \in DOMAIN After /\ c.step \in DOMAIN After[c.op] /\ c.op # "none"
  BY <1>1, <1>2, Busy DEF Typed
<1>4. c.op \in ArchiveCalls
  BY <1>2, <1>3, StepOrder DEF StepFits
<1>5. PICK r \in Droppable(c) : records' = records \ {r} /\ Destroys(c, r)
  BY <1>1 DEF DropHalf
<1>6. UNCHANGED <<live, rev, series, attached, shelved>> /\ Fine
  BY DEF DropHalf
<1>7. r.doc \in Doc
  <2>1. CASE c.op = "restore"
    BY <1>2, <1>3, <1>5, <2>1 DEF Droppable, Doomed, KnowsPlace, Record
  <2>2. CASE c.op # "restore"
    BY <1>3, <1>4, <1>5, <2>2 DEF Droppable, Doomed, KnowsTodo, Record
  <2>3. QED  BY <2>1, <2>2
<1>8. Stored' /\ Grows
  BY <1>6, RevisionsStay DEF Typed, Stored
<1>9. Filed'
  <2>1. IsFiniteSet(records')
    BY <1>5, FS_Subset DEF Typed, Filed
  <2>2. QED  BY <1>5, <1>8, <2>1, FiledStays DEF Typed
<1>10. Counted'
  BY <1>5, <1>6, <1>7 DEF Typed, Counted, Destroys, Fine
<1>11. PICK x : x = [c EXCEPT !.step = "over"]
  OBVIOUS
<1>12. call' = [call EXCEPT ![u] = x]
  BY <1>1, <1>11 DEF DropHalf
<1>13. Knows(x)
  <2>3. /\ x.op = c.op /\ x.step = "over" /\ x.doc = c.doc /\ x.at = c.at
        /\ x.former = c.former /\ x.new = c.new /\ x.copy = c.copy /\ x.made = c.made
        /\ x.todo = c.todo /\ x.writes = c.writes /\ x.reads = c.reads
    BY <1>3, <1>11 DEF Call
  <2>4. x \in Call
    BY <1>3, <1>11 DEF Call
  <2>5. SeriesOf(x) = SeriesOf(c)
    BY <2>3 DEF SeriesOf
  <2>6. KnowsDocs(x)
    BY <1>3, <2>3, <2>5 DEF KnowsDocs, Own
  <2>7. KnowsNew(x)
    BY <1>2, <1>3, <2>3 DEF KnowsNew
  <2>8. KnowsPlace(x)
    BY <1>2, <1>3, <2>3 DEF KnowsPlace
  <2>9. KnowsTodo(x)
    BY <1>3, <2>3, <2>5 DEF KnowsTodo, Own
  <2>10. KnowsLocks(x)
    BY <1>2, <1>3, <2>3 DEF KnowsLocks
  <2>11. QED  BY <1>3, <1>4, <2>3, <2>4, <2>6, <2>7, <2>8, <2>9, <2>10 DEF Knows, Steps
<1>14. Knows(x)'
  BY <1>8, <1>13, KnowsStable DEF Typed
<1>15. Calling'
  BY <1>8, <1>12, <1>14, OneCalls DEF Typed
<1>16. QED  BY <1>8, <1>9, <1>10, <1>15 DEF Typed

LEMMA TypedLoopEnds ==
  ASSUME Typed, NEW u \in User, LoopEnds(u)  PROVE Typed' /\ Grows
<1>1. PICK c : c = call[u]
  OBVIOUS
<1>2. c.step \in {"revive", "attach", "drop", "over"}
  BY <1>1 DEF LoopEnds, LoopOver, Goes
<1>3. /\ KnowsDocs(c) /\ KnowsNew(c) /\ KnowsPlace(c) /\ KnowsTodo(c) /\ KnowsLocks(c)
      /\ c \in Call /\ c.op \in DOMAIN After /\ c.op # "none"
  BY <1>1, <1>2, Busy DEF Typed
<1>4. UNCHANGED stores /\ Fine
  BY DEF LoopEnds
<1>5. Stored' /\ Filed' /\ Grows
  BY <1>4, StoresStay DEF Typed
<1>6. Counted'
  BY <1>4, CountedFine DEF Typed, stores
<1>7. CASE c.op # "restore"
  BY <1>1, <1>5, <1>6, <1>7, TypedEnds DEF LoopEnds
<1>8. CASE c.op = "restore"
  <2>1. c.doc \in live
        /\ call' = [call EXCEPT ![u] = [c EXCEPT !.step = "rewrite", !.at = c.doc, !.copy = rev[c.doc]]]
    BY <1>1, <1>8 DEF LoopEnds
  <2>2. c.doc \in V!Created /\ c.doc \in Doc /\ c.doc # NoDoc /\ Own(c, c.doc)
    BY <1>3, <2>1 DEF Typed, Stored, V!Created, KnowsDocs
  <2>3. PICK e \in V!Revision : e = rev[c.doc] /\ Alike(c.doc, e)
    BY <2>2 DEF Typed, Stored, Alike
  <2>4. PICK x : x = [c EXCEPT !.step = "rewrite", !.at = c.doc, !.copy = e]
    OBVIOUS
  <2>5. /\ x.op = c.op /\ x.step = "rewrite" /\ x.doc = c.doc /\ x.at = c.doc
        /\ x.former = c.former /\ x.new = c.new /\ x.copy = e /\ x.made = c.made
        /\ x.todo = c.todo /\ x.writes = c.writes /\ x.reads = c.reads
    BY <1>3, <2>4 DEF Call
  <2>6. x \in Call
    BY <1>3, <2>2, <2>4 DEF Call
  <2>7. SeriesOf(x) = SeriesOf(c)
    BY <2>5 DEF SeriesOf
  <2>8. c.former = NoDoc
    BY <1>2, <1>3, <1>8 DEF KnowsPlace, Versioning, Returning
  <2>9. KnowsDocs(x)
    BY <1>3, <2>2, <2>5, <2>7, <2>8 DEF KnowsDocs, Own
  <2>10. KnowsNew(x)
    BY <1>2, <1>3, <2>5 DEF KnowsNew
  <2>11. KnowsPlace(x)
    BY <1>8, <2>2, <2>3, <2>5, <2>8 DEF KnowsPlace, Deleting, Returning
  <2>12. KnowsTodo(x)
    BY <1>3, <2>5, <2>7 DEF KnowsTodo, Own
  <2>13. KnowsLocks(x)
    BY <1>2, <1>3, <2>5 DEF KnowsLocks
  <2>14. "rewrite" \in Steps("restore")
    BY DEF Steps, After
  <2>15. Knows(x)
    BY <1>3, <1>8, <2>5, <2>6, <2>9, <2>10, <2>11, <2>12, <2>13, <2>14 DEF Knows
  <2>16. Knows(x)'
    BY <1>5, <2>15, KnowsStable DEF Typed
  <2>17. call' = [call EXCEPT ![u] = x]
    BY <2>1, <2>3, <2>4
  <2>18. Calling'
    BY <1>5, <2>16, <2>17, OneCalls DEF Typed
  <2>19. QED  BY <1>5, <1>6, <2>18 DEF Typed
<1>9. QED  BY <1>5, <1>7, <1>8

LEMMA TypedReadLock ==
  ASSUME Typed, NEW u \in User, ReadLock(u)  PROVE Typed' /\ Grows
<1>1. PICK c : c = call[u]
  OBVIOUS
<1>2. c.step = "readLock"
  BY <1>1 DEF ReadLock, Goes
<1>3. /\ KnowsDocs(c) /\ KnowsNew(c) /\ KnowsPlace(c) /\ KnowsTodo(c) /\ KnowsLocks(c)
      /\ c \in Call /\ c.op \in DOMAIN After /\ c.step \in DOMAIN After[c.op] /\ c.op # "none"
  BY <1>1, <1>2, Busy DEF Typed
<1>4. c.op = "getAllVersions"
  BY <1>2, <1>3, StepOrder DEF StepFits
<1>5. UNCHANGED stores /\ Fine
  BY DEF ReadLock
<1>6. Stored' /\ Filed' /\ Grows
  BY <1>5, StoresStay DEF Typed
<1>7. Counted'
  BY <1>5, CountedFine DEF Typed, stores
<1>8. PICK d \in c.todo : Continues(u, [c EXCEPT !.todo = @ \ {d}, !.reads = @ \cup {d}])
  BY <1>1 DEF ReadLock
<1>9. d \in Doc
  BY <1>3, <1>4, <1>8 DEF KnowsTodo, Own, ArchiveCalls, V!Created
<1>10. PICK y : y = [c EXCEPT !.todo = @ \ {d}, !.reads = @ \cup {d}]
  OBVIOUS
<1>11. Continues(u, y) /\ y.op = c.op /\ y.step = c.step
  BY <1>3, <1>8, <1>10 DEF Call
<1>12. ASSUME NEW next \in DOMAIN After[y.op], StepFits(y.op, y.step, next)
       PROVE  Knows([y EXCEPT !.step = next])
  <2>1. PICK x : x = [y EXCEPT !.step = next]
    OBVIOUS
  <2>2. next = "readLock"
    BY <1>2, <1>11, <1>12 DEF StepFits
  <2>3. /\ x.op = c.op /\ x.step = next /\ x.doc = c.doc /\ x.at = c.at
        /\ x.former = c.former /\ x.new = c.new /\ x.copy = c.copy /\ x.made = c.made
        /\ x.todo = c.todo \ {d} /\ x.writes = c.writes /\ x.reads = c.reads \cup {d}
    BY <1>3, <1>10, <2>1 DEF Call
  <2>4. x \in Call
    <3>1. c.todo \ {d} \in SUBSET (Doc \cup Record) /\ c.reads \cup {d} \in SUBSET Doc
      BY <1>3, <1>9 DEF Call
    <3>2. y \in Call
      BY <1>3, <1>10, <3>1 DEF Call
    <3>3. QED  BY <2>1, <2>2, <3>2 DEF Call
  <2>5. SeriesOf(x) = SeriesOf(c)
    BY <2>3 DEF SeriesOf
  <2>6. KnowsDocs(x)
    BY <1>3, <2>3, <2>5 DEF KnowsDocs, Own
  <2>7. KnowsNew(x)
    BY <1>2, <1>3, <2>2, <2>3 DEF KnowsNew
  <2>8. KnowsPlace(x)
    BY <1>2, <1>3, <2>2, <2>3 DEF KnowsPlace
  <2>9. KnowsTodo(x)
    BY <1>3, <1>4, <2>3, <2>5 DEF KnowsTodo, Own, ArchiveCalls
  <2>10. KnowsLocks(x)
    BY <1>2, <1>3, <1>4, <2>2, <2>3 DEF KnowsLocks
  <2>11. Knows(x)
    BY <1>3, <1>11, <2>2, <2>3, <2>4, <2>6, <2>7, <2>8, <2>9, <2>10 DEF Knows, Steps
  <2>12. QED  BY <2>1, <2>11
<1>13. QED  BY <1>3, <1>6, <1>7, <1>11, <1>12, TypedNext

\* The steps that end a call and write nothing.
LEMMA TypedOver ==
  ASSUME Typed, NEW u \in User, Ends(u), UNCHANGED stores, Fine  PROVE Typed' /\ Grows
<1>1. Stored' /\ Filed' /\ Grows
  BY StoresStay DEF Typed
<1>2. Counted'
  BY CountedFine DEF Typed, stores
<1>3. QED  BY <1>1, <1>2, TypedEnds

LEMMA CountedMixes ==
  ASSUME Counted, NEW u \in User, NEW s \in Series, Mixes(u, s)  PROVE mixed' \subseteq Series
BY DEF Counted, Mixes

LEMMA PwcType ==
  ASSUME NEW s \in Series
  PROVE  LET p == V!Pwc(s) IN p \in V!Revision /\ p.pwc /\ ~p.latest /\ p.vs = s
BY DEF V!Pwc, V!NoLabel, V!Revision

LEMMA CallUpdate ==
  ASSUME NEW c \in Call, NEW w \in SUBSET Doc, NEW f \in Doc \cup {NoDoc},
         NEW k \in V!Revision \cup {Absent}, NEW m \in V!Revision \cup {Absent},
         NEW t \in SUBSET (Doc \cup Record)
  PROVE  [c EXCEPT !.writes = w, !.former = f, !.copy = k, !.made = m, !.todo = t] \in Call
<1>1. PICK z : z = [c EXCEPT !.writes = w, !.former = f, !.copy = k]
  OBVIOUS
<1>2. z \in Call
  BY <1>1 DEF Call
<1>3. PICK y : y = [z EXCEPT !.made = m]
  OBVIOUS
<1>4. y \in Call
  BY <1>2, <1>3 DEF Call
<1>5. [y EXCEPT !.todo = t] \in Call
  BY <1>4 DEF Call
<1>6. QED  BY <1>1, <1>3, <1>5 DEF Call

LEMMA CallStep ==
  ASSUME NEW c \in Call, NEW st \in StepNames  PROVE [c EXCEPT !.step = st] \in Call
BY DEF Call, StepNames

\* What a call has read under its lock.
Admits(c, f, k, m, t) ==
  /\ \/ f = NoDoc /\ k = Absent
     \/ /\ f # NoDoc /\ Own(c, f) /\ ~rev[f].pwc /\ k = rev[f]
        /\ f \in live /\ (Admin = {} => rev[f].latest)
        /\ c.op \in {"checkIn", "setContentStream"}
  /\ IF c.op = "checkOut" THEN m = V!Pwc(rev[c.doc].vs) ELSE m = c.made
  /\ IF c.op \in Deleting THEN \A d \in t : d \in Doc /\ Own(c, d) ELSE t = c.todo

Admitted(c, f, k, m, t) ==
  [c EXCEPT !.writes = {c.doc}, !.former = f, !.copy = k, !.made = m, !.todo = t]

LEMMA KnowsAdmitted ==
  ASSUME Typed, NEW c, Knows(c), c.op \in Locking, c.step = "lock",
         NEW f, NEW k, NEW m, NEW t,
         Admits(c, f, k, m, t), NEW y, y = Admitted(c, f, k, m, t),
         NEW next, StepFits(c.op, "lock", next), NEW x, x = [y EXCEPT !.step = next]
  PROVE  Knows(x)
<1>1. c.op \in DOMAIN After /\ c.op # "none"
  BY DEF Locking, After
<1>2. KnowsDocs(c) /\ KnowsNew(c) /\ KnowsPlace(c) /\ KnowsTodo(c) /\ KnowsLocks(c) /\ c \in Call
  BY <1>1 DEF Knows
<1>3. c.op \in Returning \cup Deleting \cup {"setContentStream", "checkOut"}
  BY DEF StepFits
<1>4. c.doc \in V!Created /\ c.doc \in Doc /\ c.doc # NoDoc /\ Own(c, c.doc)
      /\ SeriesOf(c) = rev[c.doc].vs
  BY <1>2, <1>3
     DEF KnowsDocs, Own, SeriesOf, Returning, Deleting, Creating, V!Created
<1>5. rev[c.doc].vs \in Series /\ series[rev[c.doc].vs] # Absent
  BY <1>4 DEF Typed, Stored, Alike, V!Revision
<1>7. /\ x.op = c.op /\ x.step = next /\ x.doc = c.doc /\ x.at = c.at
      /\ x.former = f /\ x.new = c.new /\ x.copy = k /\ x.made = m
      /\ x.todo = t /\ x.writes = {c.doc} /\ x.reads = c.reads
  BY <1>2 DEF Call, Admitted
<1>8. next \in {"remove", "supersede", "create", "detach"}
  BY <1>3 DEF StepFits, Returning, Deleting
<1>9. f \in Doc \cup {NoDoc} /\ k \in V!Revision \cup {Absent}
      /\ (f # NoDoc => Alike(f, k))
  BY DEF Admits, Own, V!Created, Typed, Stored, Alike
<1>10. m \in V!Revision \cup {Absent}
  <2>1. c.made \in V!Revision \cup {Absent}
    BY <1>2 DEF Call
  <2>2. QED  BY <1>5, <2>1, PwcType DEF Admits
<1>11. t \in SUBSET (Doc \cup Record) /\ {c.doc} \in SUBSET Doc
  <2>1. c.todo \in SUBSET (Doc \cup Record)
    BY <1>2 DEF Call
  <2>2. QED  BY <1>4, <2>1 DEF Admits
<1>12. x \in Call
  <2>1. y \in Call
    BY <1>2, <1>9, <1>10, <1>11, CallUpdate DEF Admitted
  <2>2. next \in StepNames
    BY <1>8 DEF StepNames
  <2>3. QED  BY <2>1, <2>2, CallStep
<1>13. SeriesOf(x) = SeriesOf(c)
  BY <1>4, <1>7 DEF SeriesOf
<1>14. c.new = NoDoc
  BY <1>2 DEF KnowsNew
<1>15. KnowsDocs(x)
  BY <1>2, <1>7, <1>9, <1>13, <1>14 DEF Admits, KnowsDocs, Own
<1>16. KnowsNew(x)
  <2>1. next = "create" => c.op = "checkOut"
    BY <1>3 DEF StepFits, Returning, Deleting
  <2>2. next = "create" => m = V!Pwc(rev[c.doc].vs)
    BY <2>1 DEF Admits
  <2>3. next = "create" =>
          /\ m \in V!Revision /\ m.pwc /\ ~m.latest /\ m.vs = rev[c.doc].vs
    BY <1>5, <2>2, PwcType
  <2>4. QED  BY <1>4, <1>5, <1>7, <1>8, <1>13, <1>14, <2>1, <2>3 DEF KnowsNew
<1>17. KnowsPlace(x)
  <2>1. c.op \in Deleting => next = "detach"
    BY <1>3 DEF StepFits
  <2>2. QED
    BY <1>2, <1>3, <1>7, <1>8, <2>1 DEF Admits, KnowsPlace, Returning, Deleting, Versioning
<1>18. KnowsTodo(x)
  BY <1>2, <1>3, <1>7, <1>13 DEF Admits, KnowsTodo, Own, ArchiveCalls, Deleting, Returning
<1>19. KnowsLocks(x)
  BY <1>2, <1>3, <1>7, <1>8 DEF KnowsLocks, Returning, Deleting
<1>20. next \in Steps(c.op)
  BY <1>3, <1>8 DEF StepFits, Steps, After, Returning, Deleting
<1>21. QED
  BY <1>1, <1>7, <1>12, <1>15, <1>16, <1>17, <1>18, <1>19, <1>20 DEF Knows

\* What a call that is admitted has read.
LEMMA AdmitContinues ==
  ASSUME Typed, NEW u \in User, Admit(u), NEW c, c = call[u]
  PROVE  \E f, k, m, t : Admits(c, f, k, m, t) /\ Continues(u, Admitted(c, f, k, m, t))
<1>2. c.step = "lock"
  BY DEF Admit, Goes
<1>3. /\ KnowsDocs(c) /\ KnowsLocks(c) /\ c \in Call /\ Knows(c)
      /\ c.op \in DOMAIN After /\ c.step \in DOMAIN After[c.op]
  BY <1>2, Busy DEF Typed
<1>4. c.op \in Locking
  BY <1>2, <1>3, StepOrder DEF StepFits
<1>5. c.op \in Returning \cup Deleting \cup {"checkOut", "setContentStream"}
  BY <1>4, LockingCalls
<1>6. c.doc \in V!Created /\ c.doc # NoDoc /\ Own(c, c.doc)
      /\ SeriesOf(c) = rev[c.doc].vs
  BY <1>3, <1>5 DEF KnowsDocs, Own, SeriesOf, Returning, Deleting, Creating
<1>7. PICK s \in Series : s = rev[c.doc].vs
  BY <1>6 DEF Typed, Stored, Alike, V!Revision
<1>11. PICK latest : latest = V!LatestVersions(s)
  OBVIOUS
<1>12. \A l \in latest : l # NoDoc /\ Own(c, l) /\ ~rev[l].pwc /\ l \in live /\ rev[l].latest
  BY <1>6, <1>7, <1>11
     DEF V!LatestVersions, V!Versions, Own, Typed, Stored, Alike, V!Created
<1>13. \A l \in V!Versions(s) : l \in Doc /\ Own(c, l)
  BY <1>6, <1>7 DEF V!Versions, Own, Typed, Stored, V!Created
<1>14. \E f, k, m, t : Admits(c, f, k, m, t) /\ Continues(u, Admitted(c, f, k, m, t))
  <2> DEFINE y(f, k) == [c EXCEPT !.writes = {c.doc}, !.former = f, !.copy = k]
  <2>1. \A f, k : y(f, k) = Admitted(c, f, k, c.made, c.todo)
    BY <1>3 DEF Call, Admitted
  <2>2. \A f, k, m : [y(f, k) EXCEPT !.made = m] = Admitted(c, f, k, m, c.todo)
    BY <1>3 DEF Call, Admitted
  <2>4. CASE c.op = "checkIn"
    <3>1. \/ Continues(u, y(NoDoc, Absent))
          \/ \E f \in latest : Continues(u, y(f, rev[f]))
      <4>1. PICK f \in latest \cup {NoDoc} :
              Continues(u, [c EXCEPT !.writes = {c.doc}, !.former = f,
                                     !.copy = IF f = NoDoc THEN Absent ELSE rev[f]])
        BY <1>7, <1>11, <2>4 DEF Admit
      <4>2. CASE f = NoDoc
        BY <4>1, <4>2
      <4>3. CASE f \in latest
        <5>1. f # NoDoc
          BY <1>12, <4>3
        <5>2. QED  BY <4>1, <4>3, <5>1
      <4>4. QED  BY <4>2, <4>3
    <3>2. CASE Continues(u, y(NoDoc, Absent))
      <4>1. Continues(u, Admitted(c, NoDoc, Absent, c.made, c.todo))
        BY <2>1, <3>2
      <4>2. QED  BY <2>4, <4>1 DEF Admits, Deleting
    <3>3. ASSUME NEW f \in latest, Continues(u, y(f, rev[f]))
          PROVE  Continues(u, Admitted(c, f, rev[f], c.made, c.todo))
                 /\ f # NoDoc /\ Own(c, f) /\ ~rev[f].pwc /\ f \in live /\ rev[f].latest
      BY <1>12, <2>1, <3>3
    <3>4. QED  BY <2>4, <3>1, <3>2, <3>3 DEF Admits, Deleting
  <2>5. CASE c.op = "setContentStream"
    <3>1. Continues(u, y(c.doc, rev[c.doc]))
      BY <1>6, <2>5 DEF Admit
    <3>2. Continues(u, Admitted(c, c.doc, rev[c.doc], c.made, c.todo))
      BY <2>1, <3>1
    <3>3. ~rev[c.doc].pwc
      BY <1>3, <2>5 DEF KnowsLocks
    <3>4. c.doc \in live /\ (Admin = {} => rev[c.doc].latest)
      BY <2>5, <3>3 DEF Admit, Accepted, V!Current
    <3>5. QED  BY <1>6, <2>5, <3>2, <3>3, <3>4 DEF Admits, Deleting
  <2>6. CASE c.op = "checkOut"
    <3>1. Continues(u, [y(NoDoc, Absent) EXCEPT !.made = V!Pwc(rev[c.doc].vs)])
      BY <2>6 DEF Admit
    <3>2. Continues(u, Admitted(c, NoDoc, Absent, V!Pwc(rev[c.doc].vs), c.todo))
      BY <2>2, <3>1
    <3>3. QED  BY <2>6, <3>2 DEF Admits, Deleting
  <2>7. CASE c.op = "cancelCheckOut"
    <3>1. Continues(u, y(NoDoc, Absent))
      BY <2>7 DEF Admit
    <3>2. Continues(u, Admitted(c, NoDoc, Absent, c.made, c.todo))
      BY <2>1, <3>1
    <3>3. QED  BY <2>7, <3>2 DEF Admits, Deleting
  <2>8. CASE c.op \in Deleting
    <3>1. \E t : /\ Continues(u, [y(NoDoc, Absent) EXCEPT !.todo = t])
                 /\ t \in {{c.doc}, V!Versions(s)}
      <4>1. CASE c.op = "deleteVersion"
        <5>1. Continues(u, [y(NoDoc, Absent) EXCEPT !.todo = {c.doc}])
          BY <4>1 DEF Admit
        <5>2. QED  BY <5>1
      <4>2. CASE c.op = "deleteSeries"
        <5>1. Continues(u, [y(NoDoc, Absent) EXCEPT !.todo = V!Versions(s)])
          BY <1>7, <4>2 DEF Admit
        <5>2. QED  BY <5>1
      <4>3. QED  BY <2>8, <4>1, <4>2 DEF Deleting
    <3>2. PICK t : /\ Continues(u, [y(NoDoc, Absent) EXCEPT !.todo = t])
                   /\ t \in {{c.doc}, V!Versions(s)}
      BY <3>1
    <3>3. \A d \in t : d \in Doc /\ Own(c, d)
      BY <1>6, <1>13, <3>2 DEF V!Created
    <3>4. Continues(u, Admitted(c, NoDoc, Absent, c.made, t))
      <4>1. [y(NoDoc, Absent) EXCEPT !.todo = t] = Admitted(c, NoDoc, Absent, c.made, t)
        BY <1>3 DEF Call, Admitted
      <4>2. QED  BY <3>2, <4>1
    <3>5. Admits(c, NoDoc, Absent, c.made, t)
      BY <2>8, <3>3 DEF Admits, Deleting
    <3>6. QED  BY <3>4, <3>5
  <2>9. QED  BY <1>5, <2>4, <2>5, <2>6, <2>7, <2>8 DEF Returning
<1>15. QED  BY <1>14

LEMMA TypedAdmit ==
  ASSUME Typed, NEW u \in User, Admit(u)  PROVE Typed' /\ Grows
<1>1. PICK c : c = call[u]
  OBVIOUS
<1>2. c.step = "lock"
  BY <1>1 DEF Admit, Goes
<1>3. /\ KnowsDocs(c) /\ KnowsLocks(c) /\ c \in Call /\ Knows(c)
      /\ c.op \in DOMAIN After /\ c.step \in DOMAIN After[c.op]
  BY <1>1, <1>2, Busy DEF Typed
<1>4. c.op \in Locking
  BY <1>2, <1>3, StepOrder DEF StepFits
<1>5. c.op \in Returning \cup Deleting \cup {"checkOut", "setContentStream"}
  BY <1>4, LockingCalls
<1>6. c.doc \in V!Created /\ c.doc # NoDoc /\ Own(c, c.doc)
      /\ SeriesOf(c) = rev[c.doc].vs
  BY <1>3, <1>5 DEF KnowsDocs, Own, SeriesOf, Returning, Deleting, Creating
<1>7. PICK s \in Series : s = rev[c.doc].vs
  BY <1>6 DEF Typed, Stored, Alike, V!Revision
<1>8. UNCHANGED <<stores, budget, failed>> /\ Mixes(u, s)
  BY <1>1, <1>7 DEF Admit
<1>9. Stored' /\ Filed' /\ Grows
  BY <1>8, StoresStay DEF Typed
<1>10. Counted'
  BY <1>8, CountedMixes DEF Typed, Counted, stores
<1>15. PICK f, k, m, t : Admits(c, f, k, m, t) /\ Continues(u, Admitted(c, f, k, m, t))
  BY <1>1, AdmitContinues
<1>16. PICK y : y = Admitted(c, f, k, m, t)
  OBVIOUS
<1>17. y.op = c.op /\ y.step = c.step /\ Continues(u, y)
  BY <1>3, <1>15, <1>16 DEF Call, Admitted
<1>18. ASSUME NEW next \in DOMAIN After[y.op], StepFits(y.op, y.step, next)
       PROVE  Knows([y EXCEPT !.step = next])
  <2>1. StepFits(c.op, "lock", next)
    BY <1>2, <1>17, <1>18
  <2>2. Knows(c) /\ Admits(c, f, k, m, t) /\ y = Admitted(c, f, k, m, t)
    BY <1>3, <1>15, <1>16
  <2>3. PICK x : x = [y EXCEPT !.step = next]
    OBVIOUS
  <2>4. Knows(x)
    BY <1>2, <1>4, <2>1, <2>2, <2>3, KnowsAdmitted
  <2>5. QED  BY <2>3, <2>4
<1>19. QED  BY <1>3, <1>9, <1>10, <1>17, <1>18, TypedNext

-----------------------------------------------------------------------------
(***************************************************************************)
(* The calls that are sent                                                 *)
(***************************************************************************)

\* A call is sent: it knows what it was told.
LEMMA TypedSends ==
  ASSUME Typed, NEW u \in User, NEW x, Sends(u, x), Knows(x)',
         Stored', Filed', Grows, mixed' \subseteq Series, UNCHANGED <<failed, destroyed>>
  PROVE  Typed'
<1>1. Calling'
  BY OneCalls DEF Typed, Sends
<1>2. Counted'
  BY DEF Typed, Counted, Sends
<1>3. QED  BY <1>1, <1>2 DEF Typed

LEMMA TypedSend ==
  ASSUME Typed, NEW u \in User, NEW op \in Locking, NEW d \in Doc,
         NEW isMajor \in Major, Send(u, op, d, isMajor)
  PROVE  Typed' /\ Grows
<1>1. PICK x : x = [Rest EXCEPT !.op = op, !.step = "lock", !.doc = d,
                                !.major = isMajor /\ op = "checkIn"]
  OBVIOUS
<1>2. Sends(u, x) /\ UNCHANGED <<stores, mixed, failed>> /\ d \in live
  BY <1>1 DEF Send
<1>3. Stored' /\ Filed' /\ Grows
  BY <1>2, StoresStay DEF Typed
<1>4. /\ x.op = op /\ x.step = "lock" /\ x.doc = d /\ x.at = NoDoc
      /\ x.former = NoDoc /\ x.new = NoDoc /\ x.todo = {} /\ x.writes = {} /\ x.reads = {}
  BY <1>1 DEF Rest
<1>5. op \in Returning \cup Deleting \cup {"checkOut", "setContentStream"}
      /\ op \in DOMAIN After /\ "lock" \in DOMAIN After[op]
  BY LockingCalls DEF Locking
<1>6. x \in Call
  BY <1>1, <1>5 DEF Rest, Call
<1>7. Own(x, d) /\ d # NoDoc
  BY <1>2, <1>4 DEF Own, SeriesOf, Typed, Stored
<1>8. KnowsDocs(x)
  BY <1>4, <1>5, <1>7 DEF KnowsDocs, Returning, Deleting, Creating
<1>9. KnowsNew(x) /\ KnowsPlace(x) /\ KnowsTodo(x)
  BY <1>4 DEF KnowsNew, KnowsPlace, KnowsTodo
<1>10. KnowsLocks(x)
  <2>1. op = "setContentStream" => ~rev[d].pwc
    BY DEF Send
  <2>2. Guided /\ op \in Returning => rev[d].pwc
    BY DEF Send, Allowed, V!AllowableReturn, Returning
  <2>3. Guided /\ op = "checkOut" => ~rev[d].pwc
    BY <1>2 DEF Send, Allowed, V!AllowableCheckOut, Typed, Stored, Alike
  <2>4. QED  BY <1>4, <2>1, <2>2, <2>3 DEF KnowsLocks
<1>11. Knows(x)
  <2>1. op # "none"
    BY <1>5 DEF Returning, Deleting
  <2>2. QED  BY <1>4, <1>5, <1>6, <1>8, <1>9, <1>10, <2>1 DEF Knows, Steps
<1>12. Knows(x)'
  BY <1>3, <1>11, KnowsStable DEF Typed
<1>13. mixed' \subseteq Series /\ UNCHANGED <<failed, destroyed>>
  BY <1>2 DEF Typed, Counted, stores
<1>14. QED  BY <1>2, <1>3, <1>12, <1>13, TypedSends

LEMMA TypedSendCreate ==
  ASSUME Typed, NEW u \in User, NEW s \in Series, NEW state \in V!VersioningState,
         SendCreate(u, s, state)
  PROVE  Typed' /\ Grows
<1>1. PICK m : m = V!FirstVersion(s, state)
  OBVIOUS
<1>2. /\ m \in V!Revision /\ m.vs = s /\ (m.latest => ~m.pwc)
      /\ m.pwc <=> state = "CHECKEDOUT"
  <2>1. CASE state = "CHECKEDOUT"
    BY <1>1, <2>1, PwcType DEF V!FirstVersion
  <2>2. CASE state # "CHECKEDOUT"
    <3>1. PICK l : l = IF state = "MAJOR" THEN <<1, 0>> ELSE <<0, 1>>
      OBVIOUS
    <3>2. l \in Nat \X Nat
      BY <3>1
    <3>3. m = V!Version(s, state = "MAJOR", l)
      BY <1>1, <2>2, <3>1 DEF V!FirstVersion
    <3>4. QED  BY <2>2, <3>2, <3>3 DEF V!Version, V!Revision
  <2>3. QED  BY <2>1, <2>2
<1>3. PICK op : op = IF state = "CHECKEDOUT" THEN "createPwc" ELSE "createDocument"
  OBVIOUS
<1>4. PICK x : x = [Rest EXCEPT !.op = op, !.step = "create", !.made = m]
  OBVIOUS
<1>5. Sends(u, x)
  BY <1>1, <1>3, <1>4 DEF SendCreate
<1>6. PICK node : node = V!CheckedIn
  OBVIOUS
<1>7. node \in V!SeriesNode /\ ~node.out
  BY <1>6 DEF V!CheckedIn, V!SeriesNode
<1>8. series' = [series EXCEPT ![s] = node]
      /\ UNCHANGED <<live, rev, attached, shelved, records, destroyed, mixed, failed>>
  BY <1>6 DEF SendCreate
<1>9. Stored' /\ Filed' /\ Grows /\ series'[s] # Absent
  <2>1. live' \subseteq V!Created
    BY <1>8 DEF Typed, Stored
  <2>2. QED  BY <1>7, <1>8, <2>1, WriteSeries DEF Typed
<1>10. /\ x.op = op /\ x.step = "create" /\ x.doc = NoDoc /\ x.at = NoDoc /\ x.made = m
       /\ x.former = NoDoc /\ x.new = NoDoc /\ x.todo = {} /\ x.writes = {} /\ x.reads = {}
  BY <1>4 DEF Rest
<1>11. op \in Creating /\ op \in DOMAIN After /\ "create" \in DOMAIN After[op] /\ op # "none"
  BY <1>3 DEF Creating, After
<1>12. x \in Call
  BY <1>2, <1>4, <1>11 DEF Rest, Call
<1>13. KnowsDocs(x)'
  BY <1>10, <1>11 DEF KnowsDocs
<1>14. KnowsNew(x)'
  <2>1. SeriesOf(x)' = s
    BY <1>2, <1>10 DEF SeriesOf
  <2>2. op \in {"createPwc", "checkOut"} <=> state = "CHECKEDOUT"
    BY <1>3
  <2>3. QED  BY <1>2, <1>9, <1>10, <2>1, <2>2 DEF KnowsNew
<1>15. (KnowsPlace(x) /\ KnowsTodo(x) /\ KnowsLocks(x))'
  BY <1>10, <1>11 DEF KnowsPlace, KnowsTodo, KnowsLocks, Creating, Returning
<1>16. Knows(x)'
  BY <1>10, <1>11, <1>12, <1>13, <1>14, <1>15 DEF Knows, Steps
<1>17. QED
  BY <1>5, <1>8, <1>9, <1>16, TypedSends DEF Typed, Counted

LEMMA TypedSendSaveVersion ==
  ASSUME Typed, NEW u \in User, NEW d \in Doc, NEW isMajor \in Major,
         SendSaveVersion(u, d, isMajor)
  PROVE  Typed' /\ Grows
<1>1. d \in V!Created /\ d # NoDoc /\ rev[d].latest
  BY DEF SendSaveVersion, Typed, Stored
<1>2. PICK e \in V!Revision : e = rev[d] /\ Alike(d, e) /\ ~e.pwc
  BY <1>1 DEF Typed, Stored, Alike
<1>3. PICK x : x = [Rest EXCEPT !.op = "saveVersion", !.step = "supersede", !.doc = d,
                                !.major = isMajor, !.former = d, !.copy = e]
  OBVIOUS
<1>4. Sends(u, x) /\ UNCHANGED <<stores, failed>> /\ Mixes(u, e.vs)
  BY <1>2, <1>3 DEF SendSaveVersion
<1>5. Stored' /\ Filed' /\ Grows
  BY <1>4, StoresStay DEF Typed
<1>6. /\ x.op = "saveVersion" /\ x.step = "supersede" /\ x.doc = d /\ x.at = NoDoc
      /\ x.former = d /\ x.copy = e /\ x.new = NoDoc /\ x.todo = {} /\ x.writes = {}
      /\ x.reads = {}
  BY <1>3 DEF Rest
<1>7. x \in Call
  <2>1. "saveVersion" \in DOMAIN After
    BY DEF After
  <2>2. QED  BY <1>2, <1>3, <2>1 DEF Rest, Call
<1>8. Own(x, d)
  BY <1>1, <1>6 DEF Own, SeriesOf
<1>9. KnowsDocs(x)
  BY <1>1, <1>2, <1>6, <1>8 DEF KnowsDocs, Creating
<1>10. KnowsNew(x) /\ KnowsPlace(x) /\ KnowsTodo(x) /\ KnowsLocks(x)
  BY <1>6 DEF KnowsNew, KnowsPlace, KnowsTodo, KnowsLocks, Versioning, Returning, Deleting
<1>11. "supersede" \in Steps("saveVersion")
  BY DEF Steps, After
<1>12. Knows(x)
  BY <1>6, <1>7, <1>9, <1>10, <1>11 DEF Knows
<1>13. Knows(x)'
  BY <1>5, <1>12, KnowsStable DEF Typed
<1>14. mixed' \subseteq Series
  <2>1. e.vs \in Series
    BY DEF V!Revision
  <2>2. QED  BY <1>4, <2>1, CountedMixes DEF Typed
<1>15. QED  BY <1>4, <1>5, <1>13, <1>14, TypedSends DEF stores

LEMMA TypedSendArchiveCall ==
  ASSUME Typed, NEW u \in User, NEW op \in ArchiveCalls, NEW d \in Doc,
         SendArchiveCall(u, op, d)
  PROVE  Typed' /\ Grows
<1>1. d \in V!Created /\ d # NoDoc
  BY DEF SendArchiveCall, Typed, Filed, Alike
<1>2. PICK s \in Series : s = rev[d].vs
  BY <1>1 DEF Typed, Stored, Alike, V!Revision
<1>3. PICK t : t = RecordsOf(s)
  OBVIOUS
<1>4. PICK st : st = IF op = "restore" THEN "revive" ELSE "drop"
  OBVIOUS
<1>5. PICK x : x = [Rest EXCEPT !.op = op, !.doc = d, !.todo = t, !.step = st]
  OBVIOUS
<1>6. Sends(u, x) /\ UNCHANGED <<stores, failed>> /\ Mixes(u, s)
  BY <1>2, <1>3, <1>4, <1>5 DEF SendArchiveCall
<1>7. Stored' /\ Filed' /\ Grows
  BY <1>6, StoresStay DEF Typed
<1>8. /\ x.op = op /\ x.step = st /\ x.doc = d /\ x.at = NoDoc
      /\ x.former = NoDoc /\ x.new = NoDoc /\ x.todo = t /\ x.writes = {}
      /\ x.reads = {}
  BY <1>5 DEF Rest
<1>9. \A r \in t : r \in Record /\ Alike(r.doc, r.rev) /\ Own(x, r.doc)
  BY <1>1, <1>2, <1>3, <1>8 DEF RecordsOf, Typed, Filed, Alike, Own, SeriesOf
<1>10. op \in DOMAIN After /\ st \in DOMAIN After[op] /\ op # "none" /\ op \notin Creating
       /\ op \notin Returning /\ op \notin Deleting
  BY <1>4 DEF After, ArchiveCalls, Creating, Returning, Deleting
<1>11. x \in Call
  <2>1. t \in SUBSET (Doc \cup Record)
    BY <1>9
  <2>2. PICK y : y = [Rest EXCEPT !.op = op, !.doc = d, !.step = st]
    OBVIOUS
  <2>3. y \in Call
    BY <1>4, <1>10, <2>2 DEF Rest, Call
  <2>4. x = [y EXCEPT !.todo = t]
    BY <1>5, <2>2 DEF Rest
  <2>5. QED  BY <2>1, <2>3, <2>4 DEF Call
<1>12. Own(x, d)
  BY <1>1, <1>8 DEF Own, SeriesOf
<1>13. KnowsDocs(x)
  BY <1>1, <1>8, <1>10, <1>12 DEF KnowsDocs
<1>14. KnowsNew(x) /\ KnowsPlace(x)
  BY <1>4, <1>8, <1>10 DEF KnowsNew, KnowsPlace
<1>15. KnowsTodo(x) /\ KnowsLocks(x)
  BY <1>8, <1>9, <1>10 DEF KnowsTodo, KnowsLocks, ArchiveCalls
<1>16. Knows(x)
  BY <1>8, <1>10, <1>11, <1>13, <1>14, <1>15 DEF Knows, Steps
<1>17. Knows(x)'
  BY <1>7, <1>16, KnowsStable DEF Typed
<1>18. mixed' \subseteq Series
  BY <1>6, CountedMixes DEF Typed
<1>19. QED  BY <1>6, <1>7, <1>17, <1>18, TypedSends DEF stores

LEMMA TypedSendGetAllVersions ==
  ASSUME Typed, NEW u \in User, NEW d \in Doc, SendGetAllVersions(u, d)
  PROVE  Typed' /\ Grows
<1>1. d \in V!Created /\ d # NoDoc
  BY DEF SendGetAllVersions, Typed, Stored
<1>2. PICK t : t = V!Versions(rev[d].vs)
  OBVIOUS
<1>3. PICK x : x = [Rest EXCEPT !.op = "getAllVersions", !.step = "readLock", !.doc = d,
                                !.todo = t]
  OBVIOUS
<1>4. Sends(u, x) /\ UNCHANGED <<stores, mixed, failed>>
  BY <1>2, <1>3 DEF SendGetAllVersions
<1>5. Stored' /\ Filed' /\ Grows
  BY <1>4, StoresStay DEF Typed
<1>6. /\ x.op = "getAllVersions" /\ x.step = "readLock" /\ x.doc = d /\ x.at = NoDoc
      /\ x.former = NoDoc /\ x.new = NoDoc /\ x.todo = t /\ x.writes = {} /\ x.reads = {}
  BY <1>3 DEF Rest
<1>7. \A e \in t : e \in Doc /\ Own(x, e)
  BY <1>1, <1>2, <1>6 DEF V!Versions, Own, SeriesOf, Typed, Stored, V!Created
<1>8. "getAllVersions" \in DOMAIN After /\ "readLock" \in Steps("getAllVersions")
  BY DEF After, Steps
<1>9. x \in Call
  <2>1. t \in SUBSET (Doc \cup Record)
    BY <1>7
  <2>2. PICK y : y = [Rest EXCEPT !.op = "getAllVersions", !.step = "readLock", !.doc = d]
    OBVIOUS
  <2>3. y \in Call
    BY <1>8, <2>2 DEF Rest, Call
  <2>4. x = [y EXCEPT !.todo = t]
    BY <1>3, <2>2 DEF Rest
  <2>5. QED  BY <2>1, <2>3, <2>4 DEF Call
<1>10. Own(x, d)
  BY <1>1, <1>6 DEF Own, SeriesOf
<1>11. KnowsDocs(x) /\ KnowsNew(x) /\ KnowsPlace(x)
  BY <1>1, <1>6, <1>10 DEF KnowsDocs, KnowsNew, KnowsPlace, Creating, Deleting, Returning
<1>12. KnowsTodo(x) /\ KnowsLocks(x)
  BY <1>6, <1>7 DEF KnowsTodo, KnowsLocks, ArchiveCalls, Returning
<1>13. Knows(x)
  BY <1>6, <1>8, <1>9, <1>11, <1>12 DEF Knows
<1>14. Knows(x)'
  BY <1>5, <1>13, KnowsStable DEF Typed
<1>15. QED  BY <1>4, <1>5, <1>14, TypedSends DEF Typed, Counted, stores

-----------------------------------------------------------------------------
(***************************************************************************)
(* Type correctness                                                        *)
(***************************************************************************)

LEMMA TypedFails ==
  ASSUME Typed, NEW u \in User,
         \/ SupersedeFails(u) \/ ResaveFails(u) \/ PromoteFails(u) \/ DetachFails(u)
         \/ RemovalFails(u) \/ RestoreFails(u) \/ Fail(u)
  PROVE  Typed' /\ Grows
<1>1. Throws(u) /\ UNCHANGED mixed /\ budget' \in Nat
  <2>1. CASE Fail(u)
    BY <2>1 DEF Fail, Typed, Counted
  <2>2. CASE ~Fail(u)
    BY <2>2 DEF SupersedeFails, ResaveFails, PromoteFails, DetachFails, RemovalFails,
                RestoreFails, Typed, Counted
  <2>3. QED  BY <2>1, <2>2
<1>2. call[u].step # "end"
  <2>1. CASE Fail(u)
    BY <2>1 DEF Fail, Works, Typed, Calling, Knows, Steps, After, ArchiveCalls, Call
  <2>2. CASE ~Fail(u)
    BY <2>2 DEF SupersedeFails, ResaveFails, PromoteFails, DetachFails, RemovalFails,
                RestoreFails, LoopOver, Goes
  <2>3. QED  BY <2>1, <2>2
<1>3. QED  BY <1>1, <1>2, TypedThrows

LEMMA TypedInit == Init => Typed
<1>1. SUFFICES ASSUME Init PROVE Typed
  OBVIOUS
<1>2. V!Created = {}
  BY <1>1 DEF Init, V!Created
<1>3. Stored
  BY <1>1, <1>2 DEF Init, Stored, V!SeriesNamesPwc
<1>4. Filed
  BY <1>1, FS_EmptySet DEF Init, Filed
<1>5. Counted
  BY <1>1 DEF Init, Counted
<1>6. Calling
  BY <1>1, RestType, KnowsRest DEF Init, Calling
<1>7. QED  BY <1>3, <1>4, <1>5, <1>6 DEF Typed

LEMMA TypedSendsAny ==
  ASSUME Typed, NEW u \in User, SendsAny(u)  PROVE Typed' /\ Grows
BY TypedSendCreate, TypedSend, TypedSendSaveVersion, TypedSendArchiveCall,
   TypedSendGetAllVersions DEF SendsAny

LEMMA TypedAdvances ==
  ASSUME Typed, NEW u \in User, Advances(u)  PROVE Typed' /\ Grows
<1>1. CASE Refuse(u) \/ DetachEnds(u) \/ AllRead(u) \/ LockLatest(u)
  BY <1>1, TypedOver DEF Refuse, DetachEnds, AllRead, LockLatest
<1>2. CASE \/ SupersedeFails(u) \/ ResaveFails(u) \/ PromoteFails(u) \/ DetachFails(u)
           \/ RemovalFails(u) \/ RestoreFails(u)
  BY <1>2, TypedFails
<1>3. CASE Admit(u) \/ ReadLock(u)
  BY <1>3, TypedAdmit, TypedReadLock
<1>4. CASE \/ Supersede(u) \/ Create(u) \/ Name(u) \/ Resave(u) \/ ResaveFormer(u)
           \/ Remove(u) \/ Clear(u) \/ Latest(u)
  BY <1>4, TypedSupersede, TypedCreate, TypedName, TypedResave, TypedResaveFormer,
     TypedRemove, TypedClear, TypedLatest
<1>5. CASE \/ Detach(u) \/ Rewrite(u) \/ Archive(u) \/ Promote(u) \/ Revive(u)
           \/ Attach(u) \/ Drop(u) \/ DropHalf(u) \/ LoopEnds(u)
  BY <1>5, TypedDetach, TypedRewrite, TypedArchive, TypedPromote, TypedRevive,
     TypedAttach, TypedDrop, TypedDropHalf, TypedLoopEnds
<1>6. QED
  BY <1>1, <1>2, <1>3, <1>4, <1>5 DEF Advances, AdvancesVersion, AdvancesRemoval

LEMMA TypedNextStep == Typed /\ Next => Typed' /\ Grows
BY TypedSendsAny, TypedAdvances, TypedFails DEF Next

LEMMA TypedStutters == Typed /\ UNCHANGED vars => Typed' /\ Grows
<1>1. SUFFICES ASSUME Typed, UNCHANGED vars PROVE Typed' /\ Grows
  OBVIOUS
<1>2. Stored' /\ Filed' /\ Grows
  BY <1>1, StoresStay DEF vars, stores, Typed
<1>3. Counted'
  BY <1>1 DEF vars, Typed, Counted
<1>4. Calling'
  <2>1. ASSUME NEW u \in User  PROVE Knows(call[u])'
    <3>1. PICK c : c = call[u]
      OBVIOUS
    <3>2. Knows(c)'
      BY <1>1, <1>2, <3>1, KnowsStable DEF Typed, Calling
    <3>3. QED  BY <1>1, <3>1, <3>2 DEF vars
  <2>2. QED  BY <1>1, <2>1 DEF vars, Typed, Calling
<1>5. QED  BY <1>2, <1>3, <1>4 DEF Typed

LEMMA TypedAlways == Spec => []Typed
<1>1. Typed /\ [Next]_vars => Typed'
  BY TypedNextStep, TypedStutters
<1>2. QED  BY <1>1, TypedInit, PTL DEF Spec

LEMMA TypedTypeOK == Typed => TypeOK
<1>1. SUFFICES ASSUME Typed PROVE TypeOK
  OBVIOUS
<1>2. V!TypeOK
  BY <1>1 DEF Typed, Stored, Filed, Alike, V!TypeOK
<1>3. \A u \in User : call[u].op = "none" => call[u] = Rest
  BY <1>1 DEF Typed, Calling, Knows
<1>4. attached \subseteq Doc
  BY <1>1 DEF Typed, Stored, V!Created
<1>5. QED
  BY <1>1, <1>2, <1>3, <1>4 DEF Typed, Stored, Filed, Counted, Calling, TypeOK

\* Every variable holds a value of its kind at every step of every call: what a
\* call in progress holds fits the step it is at, also where its former version
\* is missing (checkIn without a latest version).
THEOREM TypesKept == Spec => []TypeOK
BY TypedAlways, TypedTypeOK, PTL

\* At every step of every call, the id in the node of a checked-out series is
\* that of a PWC which was created in that series: checkOut's two writes, and
\* whatever other calls and failures come between them, never make it name
\* another document.
THEOREM SeriesAlwaysNamesPwc == Spec => []SeriesNamesPwc
<1>1. Typed => SeriesNamesPwc
  BY DEF Typed, Stored, SeriesNamesPwc
<1>2. QED  BY <1>1, TypedAlways, PTL

\* Whatever copies the calls write back, a document stays in its series, keeps
\* its label and whether it is major, and is never turned from a PWC into a
\* version or back: only the flags of the latest (major) version change.
IdentityKept ==
  [][\A d \in V!Created :
       /\ d \in V!Created'
       /\ rev'[d].vs = rev[d].vs /\ rev'[d].pwc = rev[d].pwc
       /\ rev'[d].major = rev[d].major /\ rev'[d].label = rev[d].label]_vars

THEOREM DocumentsKeepIdentity == Spec => IdentityKept
<1>1. Typed /\ [Next]_vars => Grows
  BY TypedNextStep, TypedStutters
<1>2. Grows => \A d \in V!Created :
       /\ d \in V!Created'
       /\ rev'[d].vs = rev[d].vs /\ rev'[d].pwc = rev[d].pwc
       /\ rev'[d].major = rev[d].major /\ rev'[d].label = rev[d].label
  BY DEF Grows
<1>3. QED  BY <1>1, <1>2, TypedAlways, PTL DEF Spec, IdentityKept

-----------------------------------------------------------------------------
(***************************************************************************)
(* Locks                                                                   *)
(***************************************************************************)

\* A caller that waits is at one of three steps; what it waits for.
LEMMA Waits ==
  ASSUME Typed, NEW u \in User, NEW v, WaitsFor(u, v)
  PROVE  /\ call[u].step \in {"lock", "lockLatest", "readLock"}
         /\ call[u].step = "readLock" <=> call[u].op = "getAllVersions"
         /\ call[u].step = "lockLatest" => call[u].op \in Returning
         /\ call[u].step = "readLock" => call[v].writes # {}
         /\ call[v].writes \cup call[v].reads # {}
         /\ KnowsDocs(call[u]) /\ KnowsLocks(call[u])
<1>1. /\ call[u].step \in {"lock", "lockLatest", "readLock"}
      /\ call[u].step = "readLock" => call[v].writes # {}
      /\ call[v].writes \cup call[v].reads # {}
  BY DEF WaitsFor, WantsToWrite, WantsToRead, Goes
<1>2. /\ call[u].op \in DOMAIN After /\ call[u].step \in DOMAIN After[call[u].op]
      /\ KnowsDocs(call[u]) /\ KnowsLocks(call[u])
  BY <1>1, Busy DEF Typed
<1>3. /\ call[u].step = "lock" => call[u].op \in Locking
      /\ call[u].step = "lockLatest" => call[u].op \in Returning
      /\ call[u].step = "readLock" => call[u].op = "getAllVersions"
  BY <1>2, StepOrder DEF StepFits
<1>4. call[u].op = "getAllVersions" => call[u].step = "readLock"
  BY <1>1, <1>3, LockingCalls DEF Returning, Deleting
<1>5. QED  BY <1>1, <1>2, <1>3, <1>4

\* A waiting caller holds nothing at its first lock, the documents it has listed
\* for reading only, and at its nested lock a PWC.
LEMMA WaitersHold ==
  ASSUME Typed, Guided, NEW u \in User, NEW w, WaitsFor(u, w),
         NEW d \in Doc, d \in call[u].writes \cup call[u].reads
  PROVE  /\ call[u].step # "lock"
         /\ call[u].op # "getAllVersions" => call[u].step = "lockLatest" /\ rev[d].pwc
BY Waits DEF KnowsLocks

\* With clients that follow the allowable actions: calls that wait for each other
\* in a circle, of however many callers, are listings and nested locks.  The nested
\* lock is that of a version, asked for under that of a PWC: without a listing in
\* the circle nobody holds what it asks for.  Without a nested lock nobody in the
\* circle holds anything but to read, and nobody waits for that.
THEOREM NoWritersDeadlock ==
  ASSUME Guided  PROVE Spec => []OnlyListingDeadlocks
<1>1. ASSUME Typed  PROVE OnlyListingDeadlocks
  <2>1. SUFFICES ASSUME NEW S \in SUBSET User, Circle(S)
                 PROVE  /\ \E u \in S : call[u].op = "getAllVersions"
                        /\ \E u \in S : Goes(u, "lockLatest")
    BY DEF OnlyListingDeadlocks
  <2>2. PICK u \in S : TRUE
    BY <2>1 DEF Circle
  <2>3. \A t \in S : \E v \in S : WaitsFor(t, v)
    BY <2>1 DEF Circle
  <2>4. PICK v \in S : WaitsFor(u, v)
    BY <2>3
  <2>5. PICK w \in S : WaitsFor(v, w)
    BY <2>3
  <2>6. PICK x \in S : WaitsFor(w, x)
    BY <2>3
  <2>7. ASSUME \A t \in S : call[t].op # "getAllVersions"  PROVE FALSE
    <3>1. call[u].step # "readLock" /\ call[v].step # "readLock"
      BY <1>1, <2>4, <2>5, <2>7, Waits
    <3>2. PICK d \in Doc : d \in call[v].writes \cup call[v].reads
      BY <2>4 DEF WaitsFor
    <3>3. call[v].step = "lockLatest"
      BY <1>1, <2>5, <2>7, <3>2, WaitersHold
    <3>4. PICK e \in Doc : WantsToWrite(v, e) /\ e \in call[w].writes \cup call[w].reads
      BY <2>5, <3>3 DEF WaitsFor, WantsToRead, Goes
    <3>5. e = call[v].former
      BY <3>3, <3>4 DEF WantsToWrite, Goes
    <3>6. rev[e].pwc
      BY <1>1, <2>6, <2>7, <3>4, WaitersHold
    <3>7. KnowsDocs(call[v]) /\ e # NoDoc
      BY <1>1, <2>5, <3>4, Waits, VersionThreadsAssumptions
    <3>8. QED  BY <3>5, <3>6, <3>7 DEF KnowsDocs
  <2>8. ASSUME \A t \in S : call[t].step # "lockLatest"  PROVE FALSE
    <3>1. \A t \in S : \A y \in S : WaitsFor(t, y) => call[y].op = "getAllVersions"
      <4>1. SUFFICES ASSUME NEW t \in S, NEW y \in S, WaitsFor(t, y)
                     PROVE  call[y].op = "getAllVersions"
        OBVIOUS
      <4>2. PICK z \in S : WaitsFor(y, z)
        BY <2>3
      <4>3. PICK d \in Doc : d \in call[y].writes \cup call[y].reads
        BY <4>1 DEF WaitsFor
      <4>4. QED  BY <1>1, <2>8, <4>2, <4>3, WaitersHold
    <3>2. call[v].op = "getAllVersions" /\ call[w].op = "getAllVersions"
      BY <2>4, <2>5, <3>1
    <3>3. call[v].step = "readLock" /\ call[w].writes # {}
      BY <1>1, <2>5, <3>2, Waits
    <3>4. call[w].writes = {}
      BY <1>1, <2>6, <3>2, Waits DEF KnowsLocks
    <3>5. QED  BY <3>3, <3>4
  <2>9. QED  BY <2>7, <2>8 DEF Goes
<1>2. QED  BY <1>1, TypedAlways, PTL

-----------------------------------------------------------------------------
(***************************************************************************)
(* Nothing is lost                                                         *)
(***************************************************************************)

\* The stages at which a call holds a document: a removal from the moment it
\* has shelved the attachment, a restore until it has brought it back, and
\* then until it has dropped the record.
Removing(c, d)    == c.op \in Deleting /\ c.step \in {"rewrite", "archive", "remove"} /\ c.at = d
Reattaching(c, d) == c.op = "restore" /\ c.step = "attach" /\ c.at = d
Dropping(c, d)    == c.op = "restore" /\ c.step = "drop" /\ c.at = d

Moving(c, d) == Removing(c, d) \/ Reattaching(c, d)

\* The calls whose record of a document is still needed, or still to drop.
Recording(c, d) ==
  (Removing(c, d) /\ c.step = "remove") \/ Reattaching(c, d) \/ Dropping(c, d)

Movers(d)    == {u \in User : Moving(call[u], d)}
Recorders(d) == {u \in User : Recording(call[u], d)}
Droppers(d)  == {u \in User : Dropping(call[u], d)}
Held(d)      == {r \in records : r.doc = d}

\* At most one call moves a document and its attachment, and only one that is
\* there without its attachment.
Placed(d) ==
  /\ d \in live \/ d \notin attached
  /\ d \notin live \/ d \in attached => Movers(d) = {}
  /\ \A u, v \in Movers(d) : u = v

\* There are as many records as calls that count on one, and one more while
\* the document, or the attachment, is not in the repository.
Backed(d) ==
  /\ Cardinality(Held(d)) >= Cardinality(Recorders(d)) + (IF d \in live THEN 0 ELSE 1)
  /\ shelved[d] >= Cardinality(Droppers(d)) + (IF d \in attached THEN 0 ELSE 1)

Safe(d) == d \in V!Created /\ ~rev[d].pwc => Placed(d) /\ (d \notin destroyed => Backed(d))

AllSafe == \A d \in Doc : Safe(d)

LEMMA FiniteCalls ==
  ASSUME NEW d
  PROVE  /\ IsFiniteSet(Recorders(d)) /\ Cardinality(Recorders(d)) \in Nat
         /\ IsFiniteSet(Droppers(d)) /\ Cardinality(Droppers(d)) \in Nat
BY FS_Subset, FS_CardinalityType DEF Recorders, Droppers

LEMMA FiniteHeld ==
  \A d \in Doc : Filed => IsFiniteSet(Held(d)) /\ Cardinality(Held(d)) \in Nat
BY FS_Subset, FS_CardinalityType DEF Filed, Held

\* Who has which duty once caller u has gone on to x.
Shift(u, x, d) ==
  /\ Moving(x, d) => Movers(d)' = Movers(d) \cup {u}
  /\ ~Moving(x, d) => Movers(d)' = Movers(d) \ {u}
  /\ Recording(x, d) => Recorders(d)' = Recorders(d) \cup {u}
  /\ ~Recording(x, d) => Recorders(d)' = Recorders(d) \ {u}
  /\ Dropping(x, d) => Droppers(d)' = Droppers(d) \cup {u}
  /\ ~Dropping(x, d) => Droppers(d)' = Droppers(d) \ {u}

LEMMA Duties ==
  ASSUME NEW u \in User, NEW x, call \in [User -> Call],
         call' = [call EXCEPT ![u] = x], NEW d
  PROVE  Shift(u, x, d)
<1>1. \A v \in User : call'[v] = IF v = u THEN x ELSE call[v]
  OBVIOUS
<1>2. Movers(d)' = {v \in User : Moving(call'[v], d)}
      /\ Recorders(d)' = {v \in User : Recording(call'[v], d)}
      /\ Droppers(d)' = {v \in User : Dropping(call'[v], d)}
  BY DEF Movers, Recorders, Droppers, Moving, Removing, Reattaching, Recording, Dropping
<1>3. (Moving(x, d) => Movers(d)' = Movers(d) \cup {u})
      /\ (~Moving(x, d) => Movers(d)' = Movers(d) \ {u})
  BY <1>1, <1>2 DEF Movers
<1>4. (Recording(x, d) => Recorders(d)' = Recorders(d) \cup {u})
      /\ (~Recording(x, d) => Recorders(d)' = Recorders(d) \ {u})
  BY <1>1, <1>2 DEF Recorders
<1>5. (Dropping(x, d) => Droppers(d)' = Droppers(d) \cup {u})
      /\ (~Dropping(x, d) => Droppers(d)' = Droppers(d) \ {u})
  BY <1>1, <1>2 DEF Droppers
<1>6. QED  BY <1>3, <1>4, <1>5 DEF Shift

\* The calls the next step of this one makes it: over, or the same call, at the
\* next step.
LEMMA StepTaken ==
  ASSUME Calling, Calling', NEW u \in User, NEW y, y.op \in DOMAIN After,
         y.step \in DOMAIN After[y.op], Continues(u, y)
  PROVE  \E x \in Call :
           /\ call' = [call EXCEPT ![u] = x]
           /\ \/ x = Rest
              \/ x.op = y.op /\ x.at = y.at /\ StepFits(y.op, y.step, x.step)
<1>1. PICK next :
           /\ StepFits(y.op, y.step, next)
           /\ next = "end" => call' = [call EXCEPT ![u] = Rest]
           /\ next # "end" => call' = [call EXCEPT ![u] = [y EXCEPT !.step = next]]
  BY Continuing
<1>2. CASE next = "end"
  BY <1>1, <1>2, RestType
<1>3. CASE next # "end"
  <2>1. PICK x : x = [y EXCEPT !.step = next]
    OBVIOUS
  <2>2. call' = [call EXCEPT ![u] = x]
    BY <1>1, <1>3, <2>1
  <2>3. x \in Call
    BY <2>2 DEF Calling
  <2>4. DOMAIN x = DOMAIN y
    BY <2>1
  <2>5. DOMAIN x = {"op", "step", "doc", "at", "former", "new", "copy", "made", "record",
                    "major", "todo", "writes", "reads"}
    BY <2>3 DEF Call
  <2>6. x.op = y.op /\ x.at = y.at /\ x.step = next
    BY <2>1, <2>4, <2>5
  <2>7. QED  BY <1>1, <2>2, <2>3, <2>6
<1>4. QED  BY <1>2, <1>3

\* A document that is left alone, by calls that take on no duty, stays safe.
LEMMA LeftAlone ==
  ASSUME Typed, Typed', NEW d \in Doc, Safe(d), Grows,
         d \in V!Created' => d \in V!Created,
         d \in live' <=> d \in live, d \in attached' <=> d \in attached,
         Held(d) \subseteq Held(d)', shelved'[d] >= shelved[d],
         destroyed \subseteq destroyed',
         Movers(d)' \subseteq Movers(d), Recorders(d)' \subseteq Recorders(d),
         Droppers(d)' \subseteq Droppers(d)
  PROVE  Safe(d)'
<1>1. SUFFICES ASSUME d \in V!Created', ~rev'[d].pwc
               PROVE  Placed(d)' /\ (d \notin destroyed' => Backed(d)')
  BY DEF Safe
<1>2. Placed(d) /\ (d \notin destroyed => Backed(d))
  BY <1>1 DEF Safe, Grows
<1>3. Placed(d)'
  BY <1>2 DEF Placed
<1>4. ASSUME d \notin destroyed'  PROVE Backed(d)'
  <2>1. Backed(d)
    BY <1>2, <1>4
  <2>2. IsFiniteSet(Held(d)') /\ Cardinality(Held(d)') \in Nat
    <3>1. IsFiniteSet(records')
      BY DEF Typed, Filed
    <3>2. Held(d)' \subseteq records'
      BY DEF Held
    <3>3. IsFiniteSet(Held(d)')
      BY <3>1, <3>2, FS_Subset
    <3>4. QED  BY <3>3, FS_CardinalityType
  <2>3. Cardinality(Held(d)) <= Cardinality(Held(d)') /\ Cardinality(Held(d)) \in Nat
    BY <2>2, FiniteHeld, FS_Subset DEF Typed
  <2>4. Cardinality(Recorders(d)') <= Cardinality(Recorders(d))
        /\ Cardinality(Recorders(d)') \in Nat /\ Cardinality(Recorders(d)) \in Nat
    BY FiniteCalls, FS_Subset, FS_CardinalityType
  <2>5. Cardinality(Droppers(d)') <= Cardinality(Droppers(d))
        /\ Cardinality(Droppers(d)') \in Nat /\ Cardinality(Droppers(d)) \in Nat
    BY FiniteCalls, FS_Subset, FS_CardinalityType
  <2>6. shelved[d] \in Nat /\ shelved'[d] \in Nat
    BY DEF Typed, Stored
  <2>7. Cardinality(Held(d)') >= Cardinality(Recorders(d)') + (IF d \in live' THEN 0 ELSE 1)
    BY <2>1, <2>2, <2>3, <2>4 DEF Backed
  <2>8. shelved'[d] >= Cardinality(Droppers(d)') + (IF d \in attached' THEN 0 ELSE 1)
    BY <2>1, <2>5, <2>6 DEF Backed
  <2>9. QED  BY <2>7, <2>8 DEF Backed
<1>5. QED  BY <1>3, <1>4

\* A step that takes on no duty and leaves the documents alone.
LEMMA SafeQuiet ==
  ASSUME Typed, Typed', Grows, AllSafe, NEW u \in User, NEW x, NEW c, c = call[u],
         call' = [call EXCEPT ![u] = x],
         \A d \in Doc : /\ Moving(x, d) => Moving(c, d)
                        /\ Recording(x, d) => Recording(c, d)
                        /\ Dropping(x, d) => Dropping(c, d),
         V!Created' \subseteq V!Created,
         UNCHANGED <<live, attached, shelved, records, destroyed>>
  PROVE  AllSafe'
<1>1. ASSUME NEW d \in Doc  PROVE Safe(d)'
  <2>1. /\ Movers(d)' \subseteq Movers(d)
        /\ Recorders(d)' \subseteq Recorders(d)
        /\ Droppers(d)' \subseteq Droppers(d)
    <3>1. call \in [User -> Call]
      BY DEF Typed, Calling
    <3>2. /\ Moving(c, d) => u \in Movers(d)
          /\ Recording(c, d) => u \in Recorders(d)
          /\ Dropping(c, d) => u \in Droppers(d)
      BY DEF Movers, Recorders, Droppers
    <3>3. Shift(u, x, d)
      BY <3>1, Duties
    <3>4. QED  BY <3>2, <3>3 DEF Shift
  <2>2. Held(d)' = Held(d)
    BY DEF Held
  <2>3. shelved'[d] >= shelved[d]
    BY DEF Typed, Stored
  <2>4. Safe(d)
    BY DEF AllSafe
  <2>5. QED  BY <2>1, <2>2, <2>3, <2>4, LeftAlone
<1>2. QED  BY <1>1 DEF AllSafe

\* A call at rest, or one that neither removes nor restores, has no duty.
Idle(x) == x.op \notin Deleting \cup {"restore"} \/ x.at = NoDoc
           \/ x.step \notin {"rewrite", "archive", "remove", "attach", "drop"}

LEMMA IdleCalls ==
  ASSUME NEW x, Idle(x), NEW d \in Doc
  PROVE  ~Moving(x, d) /\ ~Recording(x, d) /\ ~Dropping(x, d)
BY DEF Idle, Moving, Recording, Dropping, Removing, Reattaching, Deleting

LEMMA IdleRest == Idle(Rest)
BY DEF Idle, Rest, Deleting

\* What is stored stays, but for flags of documents and for a series node.
Undisturbed ==
  /\ rev' = rev \/ \E d, r : d \in live /\ rev' = [rev EXCEPT ![d] = r]
  /\ UNCHANGED <<live, attached, shelved, records, destroyed>>

LEMMA SafeIdle ==
  ASSUME Typed, Typed', Grows, AllSafe, NEW u \in User, NEW x, Idle(x),
         call' = [call EXCEPT ![u] = x], Undisturbed
  PROVE  AllSafe'
<1>1. V!Created' \subseteq V!Created
  BY DEF Undisturbed, V!Created, Typed, Stored
<1>2. QED  BY <1>1, IdleCalls, SafeQuiet DEF Undisturbed

LEMMA SafeStutters ==
  ASSUME Typed, AllSafe, UNCHANGED vars
  PROVE  AllSafe'
<1>1. UNCHANGED <<live, rev, attached, shelved, records, call, destroyed>>
  BY DEF vars
<1>2. ASSUME NEW d \in Doc
      PROVE  Safe(d)' <=> Safe(d)
  <2>1. Movers(d)' = Movers(d) /\ Recorders(d)' = Recorders(d) /\ Droppers(d)' = Droppers(d)
    BY <1>1 DEF Movers, Recorders, Droppers
  <2>2. Held(d)' = Held(d) /\ V!Created' = V!Created
    BY <1>1 DEF Held, V!Created
  <2>3. (Placed(d)' <=> Placed(d)) /\ (Backed(d)' <=> Backed(d))
    BY <1>1, <2>1, <2>2 DEF Placed, Backed
  <2> QED  BY <1>1, <2>2, <2>3 DEF Safe
<1> QED  BY <1>2 DEF AllSafe

\* The calls that only write flags, or the series node, or nothing.
LEMMA SafeSends ==
  ASSUME Typed, Typed', Grows, AllSafe, NEW u \in User, SendsAny(u)
  PROVE  AllSafe'
<1>1. PICK x : Sends(u, x) /\ x.at = NoDoc /\ Undisturbed
  <2>1. ASSUME NEW s \in Series, NEW state \in V!VersioningState, SendCreate(u, s, state)
        PROVE  \E x : Sends(u, x) /\ x.at = NoDoc /\ Undisturbed
    <3>1. PICK x : x = [Rest EXCEPT
                 !.op = IF state = "CHECKEDOUT" THEN "createPwc" ELSE "createDocument",
                 !.step = "create", !.made = V!FirstVersion(s, state)]
      OBVIOUS
    <3>2. QED  BY <2>1, <3>1 DEF SendCreate, Undisturbed, Rest
  <2>2. ASSUME NEW d \in Doc, NEW op \in Locking, NEW isMajor \in Major,
               Send(u, op, d, isMajor)
        PROVE  \E x : Sends(u, x) /\ x.at = NoDoc /\ Undisturbed
    <3>1. PICK x : x = [Rest EXCEPT !.op = op, !.step = "lock", !.doc = d,
                                    !.major = isMajor /\ op = "checkIn"]
      OBVIOUS
    <3>2. QED  BY <2>2, <3>1 DEF Send, Undisturbed, Rest, stores
  <2>3. ASSUME NEW d \in Doc, NEW isMajor \in Major, SendSaveVersion(u, d, isMajor)
        PROVE  \E x : Sends(u, x) /\ x.at = NoDoc /\ Undisturbed
    <3>1. PICK x : x = [Rest EXCEPT !.op = "saveVersion", !.step = "supersede", !.doc = d,
                                    !.major = isMajor, !.former = d, !.copy = rev[d]]
      OBVIOUS
    <3>2. QED  BY <2>3, <3>1 DEF SendSaveVersion, Undisturbed, Rest, stores
  <2>4. ASSUME NEW d \in Doc, NEW op \in ArchiveCalls, SendArchiveCall(u, op, d)
        PROVE  \E x : Sends(u, x) /\ x.at = NoDoc /\ Undisturbed
    <3>1. PICK x : x = [Rest EXCEPT !.op = op, !.doc = d, !.todo = RecordsOf(rev[d].vs),
                           !.step = IF op = "restore" THEN "revive" ELSE "drop"]
      OBVIOUS
    <3>2. QED  BY <2>4, <3>1 DEF SendArchiveCall, Undisturbed, Rest, stores
  <2>5. ASSUME NEW d \in Doc, SendGetAllVersions(u, d)
        PROVE  \E x : Sends(u, x) /\ x.at = NoDoc /\ Undisturbed
    <3>1. PICK x : x = [Rest EXCEPT !.op = "getAllVersions", !.step = "readLock", !.doc = d,
                                    !.todo = V!Versions(rev[d].vs)]
      OBVIOUS
    <3>2. QED  BY <2>5, <3>1 DEF SendGetAllVersions, Undisturbed, Rest, stores
  <2>6. QED  BY <2>1, <2>2, <2>3, <2>4, <2>5 DEF SendsAny
<1>2. Idle(x) /\ call' = [call EXCEPT ![u] = x]
  BY <1>1 DEF Idle, Sends
<1>3. QED  BY <1>1, <1>2, SafeIdle

LEMMA SafeEnds ==
  ASSUME Typed, Typed', Grows, AllSafe, NEW u \in User,
         \/ Refuse(u) \/ DetachEnds(u) \/ AllRead(u) \/ LockLatest(u) \/ Fail(u)
         \/ SupersedeFails(u) \/ ResaveFails(u) \/ PromoteFails(u) \/ DetachFails(u)
         \/ RemovalFails(u) \/ RestoreFails(u)
  PROVE  AllSafe'
<1>1. Ends(u) /\ UNCHANGED stores
  BY DEF Refuse, DetachEnds, AllRead, LockLatest, Fail, SupersedeFails, ResaveFails,
         PromoteFails, DetachFails, RemovalFails, RestoreFails, Throws
<1>2. Undisturbed
  BY <1>1 DEF Undisturbed, stores
<1>3. QED  BY <1>1, <1>2, IdleRest, SafeIdle DEF Ends

\* A step after which the call is idle.
LEMMA SafeContinues ==
  ASSUME Typed, Typed', Grows, AllSafe, NEW u \in User, NEW y, y.op \in DOMAIN After,
         y.step \in DOMAIN After[y.op], Continues(u, y), Undisturbed,
         y.step \in {"lock", "supersede", "create", "name", "resave", "resaveFormer",
                     "clear", "latest", "promote", "readLock"}
  PROVE  AllSafe'
<1>1. PICK x : /\ call' = [call EXCEPT ![u] = x]
               /\ \/ x = Rest
                  \/ x.op = y.op /\ x.at = y.at /\ StepFits(y.op, y.step, x.step)
  BY StepTaken DEF Typed
<1>2. CASE x = Rest
  BY <1>1, <1>2, IdleRest, SafeIdle
<1>3. CASE x # Rest
  <2>1. Idle(x)
    BY <1>1, <1>3 DEF Idle, StepFits, Returning, Deleting, Versioning, Creating
  <2>2. QED  BY <1>1, <2>1, SafeIdle
<1>4. QED  BY <1>2, <1>3

\* What a call that continues was doing.
LEMMA Underway ==
  ASSUME Typed, NEW u \in User, NEW c, c = call[u],
         c.step # "end" /\ c.step # "over"
  PROVE  /\ c \in Call /\ c.op \in DOMAIN After /\ c.step \in DOMAIN After[c.op]
         /\ c.op # "none" /\ StepFits(c.op, c.step, After[c.op][c.step])
         /\ KnowsDocs(c) /\ KnowsNew(c) /\ KnowsPlace(c) /\ KnowsTodo(c) /\ KnowsLocks(c)
<1>1. c \in Call /\ c.op \in DOMAIN After /\ c.step \in DOMAIN After[c.op] /\ c.op # "none"
      /\ KnowsDocs(c) /\ KnowsNew(c) /\ KnowsPlace(c) /\ KnowsTodo(c) /\ KnowsLocks(c)
  BY Busy DEF Typed
<1>2. QED  BY <1>1, StepOrder

LEMMA SafeWrites ==
  ASSUME Typed, Typed', Grows, AllSafe, NEW u \in User,
         \/ Admit(u) \/ Supersede(u) \/ Name(u) \/ Resave(u) \/ ResaveFormer(u)
         \/ Clear(u) \/ Latest(u) \/ Promote(u) \/ ReadLock(u)
  PROVE  AllSafe'
<1>1. PICK c : c = call[u]
  OBVIOUS
<1>2. c.step \in {"lock", "supersede", "name", "resave", "resaveFormer", "clear",
                  "latest", "promote", "readLock"}
  BY <1>1 DEF Admit, Supersede, Name, Resave, ResaveFormer, Clear, Latest, Promote,
              ReadLock, Goes
<1>3. c \in Call /\ c.op \in DOMAIN After /\ c.step \in DOMAIN After[c.op]
  BY <1>1, <1>2, Underway
<1>4. Undisturbed
  BY DEF Undisturbed, Admit, Supersede, Name, Resave, ResaveFormer, Clear, Latest,
         Promote, ReadLock, Writes, stores
<1>5. ASSUME NEW y, y.op = c.op, y.step = c.step, Continues(u, y)
      PROVE  AllSafe'
  BY <1>2, <1>3, <1>4, <1>5, SafeContinues
<1>6. CASE Supersede(u)
  <2>1. PICK k, m : Continues(u, [c EXCEPT !.copy = k, !.made = m])
    BY <1>1, <1>6 DEF Supersede
  <2>2. PICK y : y = [c EXCEPT !.copy = k, !.made = m]
    OBVIOUS
  <2>3. y.op = c.op /\ y.step = c.step
    BY <1>3, <2>2 DEF Call
  <2>4. QED  BY <1>5, <2>1, <2>2, <2>3
<1>7. CASE Name(u) \/ Resave(u) \/ ResaveFormer(u) \/ Clear(u)
  BY <1>1, <1>5, <1>7 DEF Name, Resave, ResaveFormer, Clear
<1>8. CASE Promote(u)
  BY <1>1, <1>5, <1>8 DEF Promote
<1>9. CASE Latest(u)
  <2>1. CASE Ends(u)
    BY <1>4, <2>1, IdleRest, SafeIdle DEF Ends
  <2>2. CASE ~Ends(u)
    <3>1. PICK l : Continues(u, [c EXCEPT !.former = l, !.copy = rev[l]])
      BY <1>1, <1>9, <2>2 DEF Latest
    <3>2. PICK y : y = [c EXCEPT !.former = l, !.copy = rev[l]]
      OBVIOUS
    <3>3. y.op = c.op /\ y.step = c.step
      BY <1>3, <3>2 DEF Call
    <3>4. QED  BY <1>5, <3>1, <3>2, <3>3
  <2>3. QED  BY <2>1, <2>2
<1>10. CASE ReadLock(u)
  <2>1. PICK d : Continues(u, [c EXCEPT !.todo = @ \ {d}, !.reads = @ \cup {d}])
    BY <1>1, <1>10 DEF ReadLock
  <2>2. PICK y : y = [c EXCEPT !.todo = @ \ {d}, !.reads = @ \cup {d}]
    OBVIOUS
  <2>3. y.op = c.op /\ y.step = c.step
    BY <1>3, <2>2 DEF Call
  <2>4. QED  BY <1>5, <2>1, <2>2, <2>3
<1>11. CASE Admit(u)
  <2>1. PICK f, k, m, t : Continues(u, Admitted(c, f, k, m, t))
    BY <1>1, <1>11, AdmitContinues
  <2>2. PICK y : y = Admitted(c, f, k, m, t)
    OBVIOUS
  <2>3. y.op = c.op /\ y.step = c.step
    BY <1>3, <2>2 DEF Call, Admitted
  <2>4. QED  BY <1>5, <2>1, <2>2, <2>3
<1>12. QED  BY <1>6, <1>7, <1>8, <1>9, <1>10, <1>11

\* The deleted event, and that of a restored document.
LEMMA SafeRewrite ==
  ASSUME Typed, Typed', Grows, AllSafe, NEW u \in User, Rewrite(u)
  PROVE  AllSafe'
<1>1. PICK c : c = call[u]
  OBVIOUS
<1>2. c.step = "rewrite" /\ Continues(u, c) /\ Undisturbed
  BY <1>1 DEF Rewrite, Goes, Undisturbed, Writes
<1>3. c.op \in DOMAIN After /\ c.step \in DOMAIN After[c.op]
      /\ StepFits(c.op, c.step, After[c.op][c.step])
  BY <1>1, <1>2, Underway
<1>4. PICK x : /\ call' = [call EXCEPT ![u] = x]
               /\ \/ x = Rest
                  \/ x.op = c.op /\ x.at = c.at /\ StepFits(c.op, c.step, x.step)
  BY <1>2, <1>3, StepTaken DEF Typed
<1>5. CASE x = Rest
  BY <1>2, <1>4, <1>5, IdleRest, SafeIdle
<1>6. CASE x # Rest
  <2>1. \A d \in Doc : /\ Moving(x, d) => Moving(c, d)
                       /\ ~Recording(x, d) /\ ~Dropping(x, d)
    BY <1>2, <1>4, <1>6
       DEF StepFits, Moving, Recording, Dropping, Removing, Reattaching, Deleting
  <2>2. V!Created' \subseteq V!Created
    BY <1>2 DEF Undisturbed, V!Created, Typed, Stored
  <2>3. QED  BY <1>1, <1>2, <1>4, <2>1, <2>2, SafeQuiet DEF Undisturbed
<1>7. QED  BY <1>5, <1>6

LEMMA SafeLoopEnds ==
  ASSUME Typed, Typed', Grows, AllSafe, NEW u \in User, LoopEnds(u)
  PROVE  AllSafe'
<1>1. PICK c : c = call[u]
  OBVIOUS
<1>2. Undisturbed
  BY DEF LoopEnds, Undisturbed, stores
<1>3. CASE c.op = "restore"
  <2>1. PICK x : x = [c EXCEPT !.step = "rewrite", !.at = c.doc, !.copy = rev[c.doc]]
    OBVIOUS
  <2>2. call' = [call EXCEPT ![u] = x]
    BY <1>1, <1>3, <2>1 DEF LoopEnds
  <2>3. x.op = "restore" /\ x.step = "rewrite"
    BY <1>1, <1>3, <2>1 DEF Typed, Calling, Call
  <2>4. \A d \in Doc : ~Moving(x, d) /\ ~Recording(x, d) /\ ~Dropping(x, d)
    BY <2>3 DEF Moving, Recording, Dropping, Removing, Reattaching, Deleting
  <2>5. V!Created' \subseteq V!Created
    BY <1>2 DEF Undisturbed, V!Created, Typed, Stored
  <2>6. QED  BY <1>1, <1>2, <2>2, <2>4, <2>5, SafeQuiet DEF Undisturbed
<1>4. CASE c.op # "restore"
  BY <1>1, <1>2, <1>4, IdleRest, SafeIdle DEF LoopEnds, Ends
<1>5. QED  BY <1>3, <1>4

\* The documents that a step does not touch.
LEMMA SafeOthers ==
  ASSUME Typed, Typed', Grows, AllSafe, NEW u \in User, NEW x, NEW d \in Doc,
         call' = [call EXCEPT ![u] = x],
         ~Moving(x, d) /\ ~Recording(x, d) /\ ~Dropping(x, d),
         d \in V!Created' => d \in V!Created,
         d \in live' <=> d \in live, d \in attached' <=> d \in attached,
         Held(d) \subseteq Held(d)', shelved'[d] >= shelved[d],
         destroyed \subseteq destroyed'
  PROVE  Safe(d)'
<1>1. call \in [User -> Call]
  BY DEF Typed, Calling
<1>2. /\ Movers(d)' \subseteq Movers(d)
      /\ Recorders(d)' \subseteq Recorders(d)
      /\ Droppers(d)' \subseteq Droppers(d)
  <2>1. Shift(u, x, d)
    BY <1>1, Duties
  <2>2. QED  BY <2>1 DEF Shift
<1>3. Safe(d)
  BY DEF AllSafe
<1>4. QED  BY <1>2, <1>3, LeftAlone

\* The figures of a document, before and after a step.
LEMMA Figures ==
  ASSUME Typed, Typed', NEW d \in Doc
  PROVE  /\ IsFiniteSet(Held(d)) /\ Cardinality(Held(d)) \in Nat
         /\ IsFiniteSet(Recorders(d)) /\ Cardinality(Recorders(d)) \in Nat
         /\ IsFiniteSet(Droppers(d)) /\ Cardinality(Droppers(d)) \in Nat
         /\ shelved[d] \in Nat /\ shelved'[d] \in Nat
BY FiniteHeld, FiniteCalls DEF Typed, Stored

LEMMA OneMore ==
  ASSUME NEW S, IsFiniteSet(S), NEW e
  PROVE  /\ IsFiniteSet(S \cup {e}) /\ Cardinality(S \cup {e}) \in Nat
         /\ Cardinality(S \cup {e}) <= Cardinality(S) + 1
<1>1. IsFiniteSet(S \cup {e}) /\ Cardinality(S) \in Nat
  BY FS_AddElement, FS_CardinalityType
<1>2. Cardinality(S \cup {e}) = Cardinality(S) \/ Cardinality(S \cup {e}) = Cardinality(S) + 1
  BY FS_AddElement
<1>3. QED  BY <1>1, <1>2

\* A new document: no call has anything to do with it yet.
LEMMA SafeCreate ==
  ASSUME Typed, Typed', Grows, AllSafe, NEW u \in User, Create(u)
  PROVE  AllSafe'
<1>1. PICK c : c = call[u]
  OBVIOUS
<1>2. c.step = "create"
  BY <1>1 DEF Create, Goes
<1>3. /\ c \in Call /\ c.op \in DOMAIN After /\ c.step \in DOMAIN After[c.op]
      /\ StepFits(c.op, c.step, After[c.op][c.step])
  BY <1>1, <1>2, Underway
<1>4. PICK n \in Doc : /\ V!Fresh(n)
                       /\ rev' = [rev EXCEPT ![n] = c.made]
                       /\ live' = live \cup {n}
                       /\ attached' = attached \cup {n}
                       /\ Continues(u, [c EXCEPT !.new = n])
  BY <1>1 DEF Create
<1>5. UNCHANGED <<shelved, records, destroyed>>
  BY DEF Create
<1>6. PICK y : y = [c EXCEPT !.new = n]
  OBVIOUS
<1>7. y.op = c.op /\ y.step = c.step /\ Continues(u, y)
  BY <1>3, <1>4, <1>6 DEF Call
<1>8. PICK x : /\ call' = [call EXCEPT ![u] = x]
               /\ \/ x = Rest
                  \/ x.op = y.op /\ x.at = y.at /\ StepFits(y.op, y.step, x.step)
  BY <1>3, <1>7, StepTaken DEF Typed
<1>9. Idle(x)
  <2>1. x = Rest \/ x.step \in {"name", "resave"}
    BY <1>2, <1>7, <1>8 DEF StepFits
  <2>2. QED  BY <2>1, IdleRest DEF Idle
<1>10. n \notin V!Created
  BY <1>4 DEF V!Created, V!Fresh
<1>11. ASSUME NEW d \in Doc, d # n  PROVE Safe(d)'
  <2>1. d \in V!Created' => d \in V!Created
    BY <1>4, <1>11 DEF V!Created, Typed, Stored
  <2>2. Held(d)' = Held(d) /\ shelved'[d] >= shelved[d]
    BY <1>5 DEF Held, Typed, Stored
  <2>3. QED  BY <1>4, <1>5, <1>8, <1>9, <1>11, <2>1, <2>2, IdleCalls, SafeOthers
<1>12. Safe(n)'
  <2>1. n \in live' /\ n \in attached'
    BY <1>4
  <2>2. \A v \in User : ~Moving(call[v], n) /\ ~Recording(call[v], n) /\ ~Dropping(call[v], n)
    <3>1. TAKE v \in User
    <3>2. CASE call[v].step = "end"
      BY <3>2 DEF Moving, Recording, Dropping, Removing, Reattaching
    <3>3. CASE call[v].step # "end"
      <4>1. call[v].at # n
        BY <1>10, <3>3, Busy, CreatedHas DEF Typed, KnowsDocs, Own
      <4>2. QED  BY <4>1 DEF Moving, Recording, Dropping, Removing, Reattaching
    <3>4. QED  BY <3>2, <3>3
  <2>3. Movers(n) = {} /\ Recorders(n) = {} /\ Droppers(n) = {}
    BY <2>2 DEF Movers, Recorders, Droppers
  <2>4. Movers(n)' = {} /\ Recorders(n)' = {} /\ Droppers(n)' = {}
    <3>1. call \in [User -> Call] /\ ~Moving(x, n) /\ ~Recording(x, n) /\ ~Dropping(x, n)
      BY <1>9, IdleCalls DEF Typed, Calling
    <3>2. Shift(u, x, n)
      BY <1>8, <3>1, Duties
    <3>3. QED  BY <2>3, <3>1, <3>2 DEF Shift
  <2>5. IsFiniteSet(records') /\ Held(n)' \subseteq records'
    BY DEF Typed, Filed, Held
  <2>6. Cardinality(Held(n)') \in Nat /\ shelved'[n] \in Nat
    BY <2>5, FS_Subset, FS_CardinalityType DEF Typed, Stored
  <2>7. Placed(n)'
    BY <2>1, <2>4 DEF Placed
  <2>8. Backed(n)'
    BY <2>1, <2>4, <2>6, FS_EmptySet DEF Backed
  <2>9. QED  BY <2>7, <2>8 DEF Safe
<1>13. QED  BY <1>11, <1>12 DEF AllSafe

\* What is known of the document a call is moving.
LEMMA Moved ==
  ASSUME Typed, AllSafe, NEW u \in User, NEW c, c = call[u], NEW d \in Doc,
         Moving(c, d), ~rev[d].pwc, d \in V!Created
  PROVE  /\ d \in live /\ d \notin attached /\ Movers(d) = {u}
         /\ d \notin destroyed => Backed(d)
<1>1. u \in Movers(d)
  BY DEF Movers
<1>2. Placed(d) /\ (d \notin destroyed => Backed(d))
  BY DEF AllSafe, Safe
<1>3. QED  BY <1>1, <1>2 DEF Placed

\* The removal of a version, after its record was made; guided clients return
\* PWCs only.
LEMMA SafeRemove ==
  ASSUME Guided, Typed, Typed', Grows, AllSafe, NEW u \in User, Remove(u)
  PROVE  AllSafe'
<1>1. PICK c : c = call[u]
  OBVIOUS
<1>2. c.step = "remove" /\ Continues(u, c)
      /\ UNCHANGED <<rev, series, shelved, records, destroyed>>
  BY <1>1 DEF Remove, Goes
<1>3. /\ c.op \in DOMAIN After /\ c.step \in DOMAIN After[c.op]
      /\ StepFits(c.op, c.step, After[c.op][c.step])
      /\ KnowsDocs(c) /\ KnowsPlace(c) /\ KnowsLocks(c)
  BY <1>1, <1>2, Underway
<1>4. PICK x : /\ call' = [call EXCEPT ![u] = x]
               /\ \/ x = Rest
                  \/ x.op = c.op /\ x.at = c.at /\ StepFits(c.op, c.step, x.step)
  BY <1>2, <1>3, StepTaken DEF Typed
<1>5. Idle(x)
  <2>1. x = Rest \/ x.step \in {"clear", "latest", "detach"}
    BY <1>2, <1>4 DEF StepFits, Returning, Deleting
  <2>2. QED  BY <2>1, IdleRest DEF Idle
<1>6. PICK e : e = IF c.at = NoDoc THEN c.doc ELSE c.at
  OBVIOUS
<1>7. live' = live \ {e} /\ attached' = attached \ {e}
  BY <1>1, <1>6 DEF Remove
<1>8. V!Created' = V!Created
  BY <1>2 DEF V!Created
<1>9. ASSUME NEW d \in Doc, d # e  PROVE Safe(d)'
  <2>1. Held(d)' = Held(d) /\ shelved'[d] >= shelved[d]
    BY <1>2 DEF Held, Typed, Stored
  <2>2. QED  BY <1>2, <1>4, <1>5, <1>7, <1>8, <1>9, <2>1, IdleCalls, SafeOthers
<1>10. ASSUME NEW d \in Doc, d = e  PROVE Safe(d)'
  <2>1. CASE c.op \in Returning
    <3>1. d = c.doc /\ rev[d].pwc
      BY <1>3, <1>6, <1>10, <2>1 DEF KnowsPlace, KnowsLocks
    <3>2. QED  BY <1>2, <3>1 DEF Safe
  <2>2. CASE c.op \notin Returning
    <3>1. c.op \in Deleting /\ d = c.at
      BY <1>2, <1>3, <1>6, <1>10, <2>2 DEF StepFits, KnowsPlace
    <3>2. SUFFICES ASSUME d \in V!Created, ~rev[d].pwc
                   PROVE  Placed(d)' /\ (d \notin destroyed => Backed(d)')
      BY <1>2, <1>8 DEF Safe
    <3>3. Moving(c, d) /\ Recording(c, d) /\ ~Dropping(c, d)
      BY <1>2, <3>1 DEF Moving, Recording, Dropping, Removing, Deleting
    <3>4. /\ d \in live /\ d \notin attached /\ Movers(d) = {u}
          /\ d \notin destroyed => Backed(d)
      BY <1>1, <3>2, <3>3, Moved
    <3>5. /\ Movers(d)' = Movers(d) \ {u} /\ Recorders(d)' = Recorders(d) \ {u}
          /\ Droppers(d)' = Droppers(d) \ {u}
      <4>1. call \in [User -> Call] /\ ~Moving(x, d) /\ ~Recording(x, d) /\ ~Dropping(x, d)
        BY <1>5, IdleCalls DEF Typed, Calling
      <4>2. Shift(u, x, d)
        BY <1>4, <4>1, Duties
      <4>3. QED  BY <4>1, <4>2 DEF Shift
    <3>6. Placed(d)'
      BY <1>7, <1>10, <3>4, <3>5 DEF Placed
    <3>7. ASSUME d \notin destroyed  PROVE Backed(d)'
      <4>1. u \in Recorders(d) /\ u \notin Droppers(d)
        BY <1>1, <3>3 DEF Recorders, Droppers
      <4>2. Cardinality(Recorders(d)') = Cardinality(Recorders(d)) - 1
            /\ Droppers(d)' = Droppers(d)
        <5>1. IsFiniteSet(Recorders(d))
          BY Figures
        <5>2. Cardinality(Recorders(d) \ {u}) = Cardinality(Recorders(d)) - 1
          BY <4>1, <5>1, FS_RemoveElement
        <5>3. QED  BY <3>5, <4>1, <5>2
      <4>3. Held(d)' = Held(d) /\ shelved'[d] = shelved[d]
        BY <1>2 DEF Held
      <4>4. d \notin live' /\ d \notin attached'
        BY <1>7, <1>10
      <4>5. Cardinality(Held(d)) >= Cardinality(Recorders(d))
            /\ shelved[d] >= Cardinality(Droppers(d)) + 1
        BY <3>4, <3>7, Figures DEF Backed
      <4>6. Cardinality(Held(d)') >= Cardinality(Recorders(d)') + 1
        BY <4>2, <4>3, <4>5, Figures
      <4>7. shelved'[d] >= Cardinality(Droppers(d)') + 1
        BY <4>2, <4>3, <4>5
      <4>8. QED  BY <4>4, <4>6, <4>7 DEF Backed
    <3>8. QED  BY <3>6, <3>7
  <2>3. QED  BY <2>1, <2>2
<1>11. QED  BY <1>9, <1>10 DEF AllSafe

\* The attachment goes to the archive first.
LEMMA SafeDetach ==
  ASSUME Typed, Typed', Grows, AllSafe, NEW u \in User, Detach(u)
  PROVE  AllSafe'
<1>1. PICK c : c = call[u]
  OBVIOUS
<1>2. c.step = "detach"
  BY <1>1 DEF Detach, Goes
<1>3. /\ c \in Call /\ c.op \in DOMAIN After /\ c.step \in DOMAIN After[c.op]
      /\ StepFits(c.op, c.step, After[c.op][c.step])
  BY <1>1, <1>2, Underway
<1>4. c.op \in Deleting
  BY <1>2, <1>3 DEF StepFits
<1>5. PICK e \in c.todo \cap attached :
           /\ attached' = attached \ {e}
           /\ shelved' = [shelved EXCEPT ![e] = @ + 1]
           /\ IF e \in live
              THEN Continues(u, [c EXCEPT !.todo = @ \ {e}, !.at = e, !.copy = rev[e]])
              ELSE call' = [call EXCEPT ![u].todo = @ \ {e}]
  BY <1>1 DEF Detach
<1>6. UNCHANGED <<live, rev, records, destroyed>>
  BY DEF Detach
<1>7. e \in V!Created /\ e \in Doc
  BY <1>5 DEF Typed, Stored, V!Created
<1>8. V!Created' = V!Created
  BY <1>6 DEF V!Created
<1>9. PICK x : /\ call' = [call EXCEPT ![u] = x]
               /\ \A d \in Doc : ~Recording(x, d) /\ ~Dropping(x, d)
               /\ \A d \in Doc : d # e => ~Moving(x, d)
  <2>1. CASE e \in live
    <3>1. PICK y : y = [c EXCEPT !.todo = @ \ {e}, !.at = e, !.copy = rev[e]]
      OBVIOUS
    <3>2. y.op = c.op /\ y.step = c.step /\ y.at = e /\ Continues(u, y)
      BY <1>3, <1>5, <2>1, <3>1 DEF Call
    <3>3. PICK x : /\ call' = [call EXCEPT ![u] = x]
                   /\ \/ x = Rest
                      \/ x.op = y.op /\ x.at = y.at /\ StepFits(y.op, y.step, x.step)
      BY <1>3, <3>2, StepTaken DEF Typed
    <3>4. \A d \in Doc : /\ ~Recording(x, d) /\ ~Dropping(x, d)
                         /\ d # e => ~Moving(x, d)
      <4>1. CASE x = Rest
        BY <4>1, IdleRest, IdleCalls
      <4>2. CASE x # Rest
        <5>1. x.op \in Deleting /\ x.step = "rewrite" /\ x.at = e
          BY <1>2, <1>4, <3>2, <3>3, <4>2 DEF StepFits
        <5>2. QED
          BY <5>1 DEF Moving, Recording, Dropping, Removing, Reattaching, Deleting
      <4>3. QED  BY <4>1, <4>2
    <3>5. QED  BY <3>3, <3>4
  <2>2. CASE e \notin live
    <3>1. PICK x : x = [c EXCEPT !.todo = @ \ {e}]
      OBVIOUS
    <3>2. call' = [call EXCEPT ![u] = x]
      <4>1. call' = [call EXCEPT ![u].todo = @ \ {e}]
        BY <1>5, <2>2
      <4>2. call' = [call EXCEPT ![u] = [c EXCEPT !.todo = @ \ {e}]]
        BY <1>1, <4>1
      <4>3. QED  BY <3>1, <4>2
    <3>3. x.step = "detach"
      BY <1>2, <1>3, <3>1 DEF Call
    <3>4. Idle(x)
      BY <3>3 DEF Idle
    <3>5. QED  BY <3>2, <3>4, IdleCalls
  <2>3. QED  BY <2>1, <2>2
<1>10. ASSUME NEW d \in Doc, d # e  PROVE Safe(d)'
  <2>1. Held(d)' = Held(d) /\ shelved'[d] >= shelved[d]
    BY <1>5, <1>6, <1>10 DEF Held, Typed, Stored
  <2>2. QED  BY <1>5, <1>6, <1>8, <1>9, <1>10, <2>1, SafeOthers
<1>11. Safe(e)'
  <2>1. SUFFICES ASSUME ~rev[e].pwc
                 PROVE  Placed(e)' /\ (e \notin destroyed => Backed(e)')
    BY <1>6, <1>8 DEF Safe
  <2>2. Placed(e) /\ (e \notin destroyed => Backed(e))
    BY <1>7, <2>1 DEF AllSafe, Safe
  <2>3. e \in live /\ Movers(e) = {} /\ e \in attached
    BY <1>5, <2>2 DEF Placed
  <2>4. call \in [User -> Call]
    BY DEF Typed, Calling
  <2>5. Movers(e)' \subseteq {u} /\ Recorders(e)' \subseteq Recorders(e)
        /\ Droppers(e)' \subseteq Droppers(e)
    <3>1. Shift(u, x, e)
      BY <1>9, <2>4, Duties
    <3>2. QED  BY <1>7, <1>9, <2>3, <3>1 DEF Shift
  <2>6. e \in live' /\ e \notin attached'
    BY <1>5, <1>6, <2>3
  <2>7. Placed(e)'
    BY <2>5, <2>6 DEF Placed
  <2>8. ASSUME e \notin destroyed  PROVE Backed(e)'
    <3>1. Held(e)' = Held(e) /\ shelved'[e] = shelved[e] + 1
      BY <1>5, <1>6, <1>7 DEF Held, Typed, Stored
    <3>2. /\ Cardinality(Recorders(e)') <= Cardinality(Recorders(e))
          /\ Cardinality(Recorders(e)') \in Nat
          /\ Cardinality(Droppers(e)') <= Cardinality(Droppers(e))
          /\ Cardinality(Droppers(e)') \in Nat
      BY <1>7, <2>5, Figures, FS_Subset, FS_CardinalityType
    <3>3. Cardinality(Held(e)) >= Cardinality(Recorders(e))
          /\ shelved[e] >= Cardinality(Droppers(e))
      BY <1>7, <2>2, <2>3, <2>8, Figures DEF Backed
    <3>4. Cardinality(Held(e)') >= Cardinality(Recorders(e)')
      BY <1>7, <3>1, <3>2, <3>3, Figures
    <3>5. shelved'[e] >= Cardinality(Droppers(e)') + 1
      BY <1>7, <3>1, <3>2, <3>3, Figures
    <3>6. QED  BY <2>6, <3>2, <3>4, <3>5 DEF Backed
  <2>9. QED  BY <2>7, <2>8
<1>12. QED  BY <1>10, <1>11 DEF AllSafe

\* The record is made while the document is still there.
LEMMA SafeArchive ==
  ASSUME Typed, Typed', Grows, AllSafe, NEW u \in User, Archive(u)
  PROVE  AllSafe'
<1>1. PICK c : c = call[u]
  OBVIOUS
<1>2. c.step = "archive" /\ Continues(u, c)
      /\ UNCHANGED <<live, rev, attached, shelved, destroyed>>
  BY <1>1 DEF Archive, Goes
<1>3. /\ c.op \in DOMAIN After /\ c.step \in DOMAIN After[c.op]
      /\ StepFits(c.op, c.step, After[c.op][c.step])
      /\ KnowsDocs(c) /\ KnowsPlace(c)
  BY <1>1, <1>2, Underway
<1>4. c.op \in Deleting
  BY <1>2, <1>3 DEF StepFits
<1>5. PICK e \in Doc : e = c.at /\ e \in V!Created
  BY <1>2, <1>3, <1>4 DEF KnowsPlace, KnowsDocs, Own, V!Created
<1>6. PICK r : r \notin records /\ r.doc = e /\ records' = records \cup {r}
  <2>1. PICK no \in Nat :
           /\ [doc |-> c.at, rev |-> rev[c.at], no |-> no] \notin records
           /\ records' = records \cup {[doc |-> c.at, rev |-> rev[c.at], no |-> no]}
    BY <1>1, NewRecord DEF Typed
  <2>2. QED  BY <1>5, <2>1
<1>7. V!Created' = V!Created
  BY <1>2 DEF V!Created
<1>8. PICK x : /\ call' = [call EXCEPT ![u] = x]
               /\ \A d \in Doc : ~Dropping(x, d)
               /\ \A d \in Doc : d # e => ~Moving(x, d) /\ ~Recording(x, d)
  <2>1. PICK x : /\ call' = [call EXCEPT ![u] = x]
                 /\ \/ x = Rest
                    \/ x.op = c.op /\ x.at = c.at /\ StepFits(c.op, c.step, x.step)
    BY <1>2, <1>3, StepTaken DEF Typed
  <2>2. CASE x = Rest
    BY <2>1, <2>2, IdleRest, IdleCalls
  <2>3. CASE x # Rest
    <3>1. x.op \in Deleting /\ x.at = e
      BY <1>4, <1>5, <2>1, <2>3
    <3>2. \A d \in Doc : /\ ~Dropping(x, d)
                         /\ d # e => ~Moving(x, d) /\ ~Recording(x, d)
      BY <3>1 DEF Moving, Recording, Dropping, Removing, Reattaching, Deleting
    <3>3. QED  BY <2>1, <3>2
  <2>4. QED  BY <2>2, <2>3
<1>9. ASSUME NEW d \in Doc, d # e  PROVE Safe(d)'
  <2>1. Held(d)' = Held(d) /\ shelved'[d] >= shelved[d]
    BY <1>2, <1>6, <1>9 DEF Held, Typed, Stored
  <2>2. QED  BY <1>2, <1>7, <1>8, <1>9, <2>1, SafeOthers
<1>10. Safe(e)'
  <2>1. SUFFICES ASSUME ~rev[e].pwc
                 PROVE  Placed(e)' /\ (e \notin destroyed => Backed(e)')
    BY <1>2, <1>7 DEF Safe
  <2>2. Moving(c, e)
    BY <1>2, <1>4, <1>5 DEF Moving, Removing
  <2>3. /\ e \in live /\ e \notin attached /\ Movers(e) = {u}
        /\ e \notin destroyed => Backed(e)
    BY <1>1, <1>5, <2>1, <2>2, Moved
  <2>4. /\ Movers(e)' \subseteq {u} /\ Recorders(e)' \subseteq Recorders(e) \cup {u}
        /\ Droppers(e)' \subseteq Droppers(e)
    <3>1. call \in [User -> Call]
      BY DEF Typed, Calling
    <3>2. Shift(u, x, e)
      BY <1>8, <3>1, Duties
    <3>3. QED  BY <1>8, <2>3, <3>2 DEF Shift
  <2>5. Placed(e)'
    BY <1>2, <2>3, <2>4 DEF Placed
  <2>6. ASSUME e \notin destroyed  PROVE Backed(e)'
    <3>1. Held(e)' = Held(e) \cup {r} /\ r \notin Held(e)
      BY <1>6 DEF Held
    <3>2. Cardinality(Held(e)') = Cardinality(Held(e)) + 1
      BY <3>1, Figures, FS_AddElement
    <3>3. PICK more : more = Recorders(e) \cup {u}
      OBVIOUS
    <3>4. IsFiniteSet(more) /\ Cardinality(more) <= Cardinality(Recorders(e)) + 1
          /\ Cardinality(more) \in Nat
      <4>1. IsFiniteSet(Recorders(e))
        BY Figures
      <4>2. QED  BY <3>3, <4>1, OneMore
    <3>5. Cardinality(Recorders(e)') <= Cardinality(more)
          /\ Cardinality(Recorders(e)') \in Nat
      BY <2>4, <3>3, <3>4, FS_Subset, FS_CardinalityType
    <3>6. Cardinality(Droppers(e)') <= Cardinality(Droppers(e))
          /\ Cardinality(Droppers(e)') \in Nat
      BY <2>4, Figures, FS_Subset, FS_CardinalityType
    <3>7. Cardinality(Held(e)) >= Cardinality(Recorders(e))
          /\ shelved[e] >= Cardinality(Droppers(e)) + 1
      BY <2>3, <2>6, Figures DEF Backed
    <3>8. Cardinality(Held(e)') >= Cardinality(Recorders(e)')
      BY <3>2, <3>4, <3>5, <3>7, Figures
    <3>9. shelved'[e] >= Cardinality(Droppers(e)') + 1
      BY <1>2, <3>6, <3>7, Figures
    <3>10. e \in live' /\ e \notin attached'
      BY <1>2, <2>3
    <3>11. QED  BY <3>8, <3>9, <3>10, <3>5 DEF Backed
  <2>7. QED  BY <2>5, <2>6
<1>11. QED  BY <1>9, <1>10 DEF AllSafe

\* A version comes back, and its record is kept for the time being.
LEMMA SafeRevive ==
  ASSUME Typed, Typed', Grows, AllSafe, NEW u \in User, Revive(u)
  PROVE  AllSafe'
<1>1. PICK c : c = call[u]
  OBVIOUS
<1>2. c.step = "revive"
  BY <1>1 DEF Revive, Goes
<1>3. /\ c \in Call /\ c.op \in DOMAIN After /\ c.step \in DOMAIN After[c.op]
      /\ StepFits(c.op, c.step, After[c.op][c.step]) /\ KnowsTodo(c)
  BY <1>1, <1>2, Underway
<1>4. c.op = "restore"
  BY <1>2, <1>3 DEF StepFits
<1>5. PICK r \in c.todo :
           /\ r.doc \notin live
           /\ live' = live \cup {r.doc}
           /\ rev' = [rev EXCEPT ![r.doc] = r.rev]
           /\ Continues(u, [c EXCEPT !.at = r.doc, !.record = r, !.todo = @ \ {r}])
  BY <1>1 DEF Revive
<1>6. UNCHANGED <<attached, shelved, records, destroyed>>
  BY DEF Revive
<1>7. PICK e \in Doc : e = r.doc /\ e \in V!Created
  BY <1>3, <1>4, <1>5 DEF KnowsTodo, ArchiveCalls, Own, V!Created
<1>8. V!Created' \subseteq V!Created
  BY <1>5, <1>7 DEF V!Created, Typed, Stored
<1>9. PICK y : y = [c EXCEPT !.at = r.doc, !.record = r, !.todo = @ \ {r}]
  OBVIOUS
<1>10. y.op = c.op /\ y.step = c.step /\ y.at = e /\ Continues(u, y)
  BY <1>3, <1>5, <1>7, <1>9 DEF Call
<1>11. PICK x : /\ call' = [call EXCEPT ![u] = x]
                /\ \A d \in Doc : ~Dropping(x, d)
                /\ \A d \in Doc : d # e => ~Moving(x, d) /\ ~Recording(x, d)
  <2>1. PICK x : /\ call' = [call EXCEPT ![u] = x]
                 /\ \/ x = Rest
                    \/ x.op = y.op /\ x.at = y.at /\ StepFits(y.op, y.step, x.step)
    BY <1>3, <1>10, StepTaken DEF Typed
  <2>2. CASE x = Rest
    BY <2>1, <2>2, IdleRest, IdleCalls
  <2>3. CASE x # Rest
    <3>1. x.step = "attach" /\ x.at = e
      BY <1>2, <1>10, <2>1, <2>3 DEF StepFits
    <3>2. \A d \in Doc : /\ ~Dropping(x, d)
                         /\ d # e => ~Moving(x, d) /\ ~Recording(x, d)
      BY <3>1 DEF Moving, Recording, Dropping, Removing, Reattaching
    <3>3. QED  BY <2>1, <3>2
  <2>4. QED  BY <2>2, <2>3
<1>12. ASSUME NEW d \in Doc, d # e  PROVE Safe(d)'
  <2>1. Held(d)' = Held(d) /\ shelved'[d] >= shelved[d]
    BY <1>6 DEF Held, Typed, Stored
  <2>2. QED  BY <1>5, <1>6, <1>7, <1>8, <1>11, <1>12, <2>1, SafeOthers
<1>13. Safe(e)'
  <2>1. SUFFICES ASSUME ~rev[e].pwc
                 PROVE  Placed(e)' /\ (e \notin destroyed => Backed(e)')
    BY <1>6, <1>7 DEF Safe, Grows
  <2>2. Placed(e) /\ (e \notin destroyed => Backed(e))
    BY <1>7, <2>1 DEF AllSafe, Safe
  <2>3. e \notin live /\ e \notin attached /\ Movers(e) = {}
    BY <1>5, <1>7, <2>2 DEF Placed
  <2>4. /\ Movers(e)' \subseteq {u} /\ Recorders(e)' \subseteq Recorders(e) \cup {u}
        /\ Droppers(e)' \subseteq Droppers(e)
    <3>1. call \in [User -> Call]
      BY DEF Typed, Calling
    <3>2. Shift(u, x, e)
      BY <1>11, <3>1, Duties
    <3>3. QED  BY <1>11, <2>3, <3>2 DEF Shift
  <2>5. e \in live' /\ e \notin attached'
    BY <1>5, <1>6, <1>7, <2>3
  <2>6. Placed(e)'
    BY <2>4, <2>5 DEF Placed
  <2>7. ASSUME e \notin destroyed  PROVE Backed(e)'
    <3>1. Held(e)' = Held(e) /\ shelved'[e] = shelved[e]
      BY <1>6 DEF Held
    <3>2. PICK more : more = Recorders(e) \cup {u}
      OBVIOUS
    <3>3. IsFiniteSet(more) /\ Cardinality(more) <= Cardinality(Recorders(e)) + 1
          /\ Cardinality(more) \in Nat
      <4>1. IsFiniteSet(Recorders(e))
        BY Figures
      <4>2. QED  BY <3>2, <4>1, OneMore
    <3>4. Cardinality(Recorders(e)') <= Cardinality(more)
          /\ Cardinality(Recorders(e)') \in Nat
      BY <2>4, <3>2, <3>3, FS_Subset, FS_CardinalityType
    <3>5. Cardinality(Droppers(e)') <= Cardinality(Droppers(e))
          /\ Cardinality(Droppers(e)') \in Nat
      BY <2>4, Figures, FS_Subset, FS_CardinalityType
    <3>6. Cardinality(Held(e)) >= Cardinality(Recorders(e)) + 1
          /\ shelved[e] >= Cardinality(Droppers(e)) + 1
      BY <2>2, <2>3, <2>7 DEF Backed
    <3>7. Cardinality(Held(e)') >= Cardinality(Recorders(e)')
      BY <3>1, <3>3, <3>4, <3>6, Figures
    <3>8. shelved'[e] >= Cardinality(Droppers(e)') + 1
      BY <3>1, <3>5, <3>6, Figures
    <3>9. QED  BY <2>5, <3>4, <3>7, <3>8 DEF Backed
  <2>8. QED  BY <2>6, <2>7
<1>14. QED  BY <1>12, <1>13 DEF AllSafe

\* Its attachment comes back.
LEMMA SafeAttach ==
  ASSUME Typed, Typed', Grows, AllSafe, NEW u \in User, Attach(u)
  PROVE  AllSafe'
<1>1. PICK c : c = call[u]
  OBVIOUS
<1>2. c.step = "attach" /\ Continues(u, c) /\ attached' = attached \cup {c.at}
      /\ UNCHANGED <<live, rev, shelved, records, destroyed>>
  BY <1>1 DEF Attach, Goes
<1>3. /\ c.op \in DOMAIN After /\ c.step \in DOMAIN After[c.op]
      /\ StepFits(c.op, c.step, After[c.op][c.step])
      /\ KnowsDocs(c) /\ KnowsPlace(c)
  BY <1>1, <1>2, Underway
<1>4. c.op = "restore"
  BY <1>2, <1>3 DEF StepFits
<1>5. PICK e \in Doc : e = c.at /\ e \in V!Created
  BY <1>2, <1>3, <1>4 DEF KnowsPlace, KnowsDocs, Own, V!Created
<1>6. V!Created' = V!Created
  BY <1>2 DEF V!Created
<1>7. PICK x : /\ call' = [call EXCEPT ![u] = x]
               /\ \A d \in Doc : ~Moving(x, d)
               /\ \A d \in Doc : d # e => ~Dropping(x, d) /\ ~Recording(x, d)
  <2>1. PICK x : /\ call' = [call EXCEPT ![u] = x]
                 /\ \/ x = Rest
                    \/ x.op = c.op /\ x.at = c.at /\ StepFits(c.op, c.step, x.step)
    BY <1>2, <1>3, StepTaken DEF Typed
  <2>2. CASE x = Rest
    BY <2>1, <2>2, IdleRest, IdleCalls
  <2>3. CASE x # Rest
    <3>1. x.op = "restore" /\ x.step = "drop" /\ x.at = e
      BY <1>2, <1>4, <1>5, <2>1, <2>3 DEF StepFits
    <3>2. \A d \in Doc : /\ ~Moving(x, d)
                         /\ d # e => ~Dropping(x, d) /\ ~Recording(x, d)
      BY <3>1 DEF Moving, Recording, Dropping, Removing, Reattaching, Deleting
    <3>3. QED  BY <2>1, <3>2
  <2>4. QED  BY <2>2, <2>3
<1>8. ASSUME NEW d \in Doc, d # e  PROVE Safe(d)'
  <2>1. Held(d)' = Held(d) /\ shelved'[d] >= shelved[d]
    BY <1>2 DEF Held, Typed, Stored
  <2>2. QED  BY <1>2, <1>5, <1>6, <1>7, <1>8, <2>1, SafeOthers
<1>9. Safe(e)'
  <2>1. SUFFICES ASSUME ~rev[e].pwc
                 PROVE  Placed(e)' /\ (e \notin destroyed => Backed(e)')
    BY <1>2, <1>6 DEF Safe
  <2>2. Moving(c, e) /\ Recording(c, e)
    BY <1>2, <1>4, <1>5 DEF Moving, Recording, Reattaching
  <2>3. /\ e \in live /\ e \notin attached /\ Movers(e) = {u}
        /\ e \notin destroyed => Backed(e)
    BY <1>1, <1>5, <2>1, <2>2, Moved
  <2>4. /\ Movers(e)' = {} /\ Recorders(e)' \subseteq Recorders(e)
        /\ Droppers(e)' \subseteq Droppers(e) \cup {u}
    <3>1. call \in [User -> Call] /\ u \in Recorders(e)
      BY <1>1, <2>2 DEF Typed, Calling, Recorders
    <3>2. Shift(u, x, e)
      BY <1>7, <3>1, Duties
    <3>3. QED  BY <1>7, <2>3, <3>1, <3>2 DEF Shift
  <2>5. e \in live' /\ e \in attached'
    BY <1>2, <1>5, <2>3
  <2>6. Placed(e)'
    BY <2>4, <2>5 DEF Placed
  <2>7. ASSUME e \notin destroyed  PROVE Backed(e)'
    <3>1. Held(e)' = Held(e) /\ shelved'[e] = shelved[e]
      BY <1>2 DEF Held
    <3>2. PICK more : more = Droppers(e) \cup {u}
      OBVIOUS
    <3>3. IsFiniteSet(more) /\ Cardinality(more) <= Cardinality(Droppers(e)) + 1
          /\ Cardinality(more) \in Nat
      <4>1. IsFiniteSet(Droppers(e))
        BY Figures
      <4>2. QED  BY <3>2, <4>1, OneMore
    <3>4. Cardinality(Droppers(e)') <= Cardinality(more)
          /\ Cardinality(Droppers(e)') \in Nat
      BY <2>4, <3>2, <3>3, FS_Subset, FS_CardinalityType
    <3>5. Cardinality(Recorders(e)') <= Cardinality(Recorders(e))
          /\ Cardinality(Recorders(e)') \in Nat
      BY <2>4, Figures, FS_Subset, FS_CardinalityType
    <3>6. Cardinality(Held(e)) >= Cardinality(Recorders(e))
          /\ shelved[e] >= Cardinality(Droppers(e)) + 1
      BY <2>3, <2>7, Figures DEF Backed
    <3>7. Cardinality(Held(e)') >= Cardinality(Recorders(e)')
      BY <3>1, <3>5, <3>6, Figures
    <3>8. shelved'[e] >= Cardinality(Droppers(e)')
      BY <3>1, <3>3, <3>4, <3>6, Figures
    <3>9. QED  BY <2>5, <3>4, <3>5, <3>7, <3>8 DEF Backed
  <2>8. QED  BY <2>6, <2>7
<1>10. QED  BY <1>8, <1>9 DEF AllSafe

\* The documents whose record is dropped.
LEMMA Dropped ==
  ASSUME Typed, NEW u \in User, NEW c, c = call[u], c.step = "drop",
         NEW r \in Droppable(c)
  PROVE  /\ r.doc \in Doc /\ c.op \in ArchiveCalls
         /\ c.op = "restore" => /\ r \in records /\ Dropping(c, r.doc)
                                /\ u \in Droppers(r.doc) /\ u \in Recorders(r.doc)
<1>1. c.op \in ArchiveCalls /\ KnowsPlace(c) /\ KnowsTodo(c)
  BY Underway DEF StepFits
<1>2. CASE c.op = "restore"
  <2>1. r \in records /\ r.doc \in Doc /\ r.doc = c.at
    BY <1>1, <1>2 DEF Droppable, Doomed, KnowsPlace, Record
  <2>2. Dropping(c, r.doc) /\ Recording(c, r.doc)
    BY <1>2, <2>1 DEF Dropping, Recording
  <2>3. QED  BY <1>1, <1>2, <2>1, <2>2 DEF Droppers, Recorders
<1>3. CASE c.op # "restore"
  BY <1>1, <1>3 DEF Droppable, Doomed, KnowsTodo, Record
<1>4. QED  BY <1>2, <1>3

\* The record is dropped: a restore has brought the document back, and destroy
\* is the end of it.
LEMMA SafeDrop ==
  ASSUME Typed, Typed', Grows, AllSafe, NEW u \in User, Drop(u)
  PROVE  AllSafe'
<1>1. PICK c : c = call[u]
  OBVIOUS
<1>2. c.step = "drop"
  BY <1>1 DEF Drop, Goes
<1>3. /\ c \in Call /\ c.op \in DOMAIN After /\ c.step \in DOMAIN After[c.op]
      /\ StepFits(c.op, c.step, After[c.op][c.step])
  BY <1>1, <1>2, Underway
<1>4. PICK r \in Droppable(c) :
           /\ shelved[r.doc] > 0
           /\ records' = records \ {r}
           /\ shelved' = [shelved EXCEPT ![r.doc] = @ - 1]
           /\ Destroys(c, r)
           /\ Continues(u, [c EXCEPT !.todo = @ \ {r}])
  BY <1>1 DEF Drop
<1>5. UNCHANGED <<live, rev, attached>> /\ V!Created' = V!Created
  BY DEF Drop, V!Created
<1>6. PICK e \in Doc : e = r.doc
  BY <1>1, <1>2, <1>4, Dropped
<1>7. PICK y : y = [c EXCEPT !.todo = @ \ {r}]
  OBVIOUS
<1>8. y.op = c.op /\ y.step = c.step /\ Continues(u, y)
  BY <1>3, <1>4, <1>7 DEF Call
<1>9. PICK x : /\ call' = [call EXCEPT ![u] = x]
               /\ \/ x = Rest
                  \/ x.op = y.op /\ x.at = y.at /\ StepFits(y.op, y.step, x.step)
  BY <1>3, <1>8, StepTaken DEF Typed
<1>10. Idle(x)
  <2>1. x = Rest \/ x.step = "revive" \/ x.op \notin Deleting \cup {"restore"}
    BY <1>2, <1>8, <1>9 DEF StepFits, ArchiveCalls, Deleting
  <2>2. QED  BY <2>1, IdleRest DEF Idle
<1>11. destroyed \subseteq destroyed' /\ (c.op = "destroy" => e \in destroyed')
  BY <1>4, <1>6 DEF Destroys
<1>12. ASSUME NEW d \in Doc, d # e  PROVE Safe(d)'
  <2>1. Held(d)' = Held(d)
    BY <1>4, <1>6, <1>12 DEF Held
  <2>2. shelved'[d] >= shelved[d]
    BY <1>4, <1>6, <1>12 DEF Typed, Stored
  <2>3. QED  BY <1>5, <1>9, <1>10, <1>11, <2>1, <2>2, IdleCalls, SafeOthers
<1>13. Safe(e)'
  <2>1. SUFFICES ASSUME e \in V!Created, ~rev[e].pwc
                 PROVE  Placed(e)' /\ (e \notin destroyed' => Backed(e)')
    BY <1>5 DEF Safe
  <2>2. Placed(e) /\ (e \notin destroyed => Backed(e))
    BY <2>1 DEF AllSafe, Safe
  <2>3. /\ Movers(e)' = Movers(e) \ {u} /\ Recorders(e)' = Recorders(e) \ {u}
        /\ Droppers(e)' = Droppers(e) \ {u}
    <3>1. call \in [User -> Call] /\ ~Moving(x, e) /\ ~Recording(x, e) /\ ~Dropping(x, e)
      BY <1>10, IdleCalls DEF Typed, Calling
    <3>2. Shift(u, x, e)
      BY <1>9, <3>1, Duties
    <3>3. QED  BY <3>1, <3>2 DEF Shift
  <2>4. Placed(e)'
    BY <1>5, <2>2, <2>3 DEF Placed
  <2>5. ASSUME e \notin destroyed'  PROVE Backed(e)'
    <3>1. c.op = "restore"
      BY <1>1, <1>2, <1>4, <1>11, <2>5, Dropped DEF ArchiveCalls
    <3>2. r \in records /\ u \in Droppers(e) /\ u \in Recorders(e)
      BY <1>1, <1>2, <1>4, <1>6, <3>1, Dropped
    <3>3. Held(e)' = Held(e) \ {r} /\ r \in Held(e)
      BY <1>4, <1>6, <3>2 DEF Held
    <3>4. Cardinality(Held(e)') = Cardinality(Held(e)) - 1
      BY <3>3, Figures, FS_RemoveElement
    <3>5. Cardinality(Recorders(e)') = Cardinality(Recorders(e)) - 1
          /\ Cardinality(Droppers(e)') = Cardinality(Droppers(e)) - 1
      <4>1. IsFiniteSet(Recorders(e)) /\ IsFiniteSet(Droppers(e))
        BY Figures
      <4>2. Cardinality(Recorders(e) \ {u}) = Cardinality(Recorders(e)) - 1
            /\ Cardinality(Droppers(e) \ {u}) = Cardinality(Droppers(e)) - 1
        BY <3>2, <4>1, FS_RemoveElement
      <4>3. QED  BY <2>3, <4>2
    <3>6. shelved'[e] = shelved[e] - 1
      BY <1>4, <1>6 DEF Typed, Stored
    <3>7. Backed(e)
      BY <1>11, <2>2, <2>5
    <3>8. CASE e \in live
      <4>1. Cardinality(Held(e)) >= Cardinality(Recorders(e))
        BY <3>7, <3>8, Figures DEF Backed
      <4>2. Cardinality(Held(e)') >= Cardinality(Recorders(e)')
        BY <3>4, <3>5, <4>1, Figures
      <4>3. shelved'[e] >= Cardinality(Droppers(e)') + (IF e \in attached' THEN 0 ELSE 1)
        BY <1>5, <3>5, <3>6, <3>7, Figures DEF Backed
      <4>4. Cardinality(Recorders(e)') \in Nat
        BY <2>3, Figures, FS_RemoveElement, FS_CardinalityType
      <4>5. QED  BY <1>5, <3>8, <4>2, <4>3, <4>4 DEF Backed
    <3>9. CASE e \notin live
      <4>1. Cardinality(Held(e)) >= Cardinality(Recorders(e)) + 1
        BY <3>7, <3>9 DEF Backed
      <4>2. Cardinality(Held(e)') >= Cardinality(Recorders(e)') + 1
        BY <3>4, <3>5, <4>1, Figures
      <4>3. shelved'[e] >= Cardinality(Droppers(e)') + (IF e \in attached' THEN 0 ELSE 1)
        BY <1>5, <3>5, <3>6, <3>7, Figures DEF Backed
      <4>4. QED  BY <1>5, <3>9, <4>2, <4>3 DEF Backed
    <3>10. QED  BY <3>8, <3>9
  <2>6. QED  BY <2>4, <2>5
<1>14. QED  BY <1>12, <1>13 DEF AllSafe

\* A restore that drops a record always finds that of the attachment, so that
\* only destroy drops one alone.
LEMMA SafeDropHalf ==
  ASSUME Typed, Typed', Grows, AllSafe, NEW u \in User, DropHalf(u)
  PROVE  AllSafe'
<1>1. PICK c : c = call[u]
  OBVIOUS
<1>2. c.step = "drop" /\ c \in Call
  BY <1>1 DEF DropHalf, Goes, Typed, Calling
<1>3. PICK r \in Droppable(c) : shelved[r.doc] = 0 /\ records' = records \ {r} /\ Destroys(c, r)
  BY <1>1 DEF DropHalf
<1>4. UNCHANGED <<live, rev, attached, shelved>> /\ V!Created' = V!Created
  BY DEF DropHalf, V!Created
<1>5. PICK e \in Doc : e = r.doc
  BY <1>1, <1>2, <1>3, Dropped
<1>6. PICK x : x = [c EXCEPT !.step = "over"]
  OBVIOUS
<1>7. call' = [call EXCEPT ![u] = x]
  BY <1>1, <1>6 DEF DropHalf
<1>8. Idle(x)
  BY <1>2, <1>6 DEF Idle, Call
<1>9. destroyed \subseteq destroyed' /\ (c.op = "destroy" => e \in destroyed')
  BY <1>3, <1>5 DEF Destroys
<1>10. ASSUME NEW d \in Doc, d # e  PROVE Safe(d)'
  <2>1. Held(d)' = Held(d) /\ shelved'[d] >= shelved[d]
    BY <1>3, <1>4, <1>5, <1>10 DEF Held, Typed, Stored
  <2>2. QED  BY <1>4, <1>7, <1>8, <1>9, <2>1, IdleCalls, SafeOthers
<1>11. Safe(e)'
  <2>1. SUFFICES ASSUME e \in V!Created, ~rev[e].pwc
                 PROVE  Placed(e)' /\ (e \notin destroyed' => Backed(e)')
    BY <1>4 DEF Safe
  <2>2. Placed(e) /\ (e \notin destroyed => Backed(e))
    BY <2>1 DEF AllSafe, Safe
  <2>3. Movers(e)' \subseteq Movers(e)
    <3>1. call \in [User -> Call] /\ ~Moving(x, e)
      BY <1>8, IdleCalls DEF Typed, Calling
    <3>2. Shift(u, x, e)
      BY <1>7, <3>1, Duties
    <3>3. QED  BY <3>1, <3>2 DEF Shift
  <2>4. Placed(e)'
    BY <1>4, <2>2, <2>3 DEF Placed
  <2>5. e \in destroyed'
    <3>1. SUFFICES ASSUME c.op = "restore", e \notin destroyed  PROVE FALSE
      BY <1>1, <1>2, <1>3, <1>9, Dropped DEF ArchiveCalls
    <3>2. u \in Droppers(e)
      BY <1>1, <1>2, <1>3, <1>5, <3>1, Dropped
    <3>3. Cardinality(Droppers(e)) # 0
      BY <3>2, Figures, FS_EmptySet
    <3>4. shelved[e] >= Cardinality(Droppers(e))
      BY <2>2, <3>1, Figures DEF Backed
    <3>5. QED  BY <1>3, <1>5, <3>3, <3>4, Figures
  <2>6. QED  BY <2>4, <2>5
<1>12. QED  BY <1>10, <1>11 DEF AllSafe

LEMMA SafeAdvances ==
  ASSUME Guided, Typed, Typed', Grows, AllSafe, NEW u \in User, Advances(u)
  PROVE  AllSafe'
<1>1. CASE \/ Refuse(u) \/ DetachEnds(u) \/ AllRead(u) \/ LockLatest(u)
           \/ SupersedeFails(u) \/ ResaveFails(u) \/ PromoteFails(u) \/ DetachFails(u)
           \/ RemovalFails(u) \/ RestoreFails(u)
  BY <1>1, SafeEnds
<1>2. CASE \/ Admit(u) \/ Supersede(u) \/ Name(u) \/ Resave(u) \/ ResaveFormer(u)
           \/ Clear(u) \/ Latest(u) \/ Promote(u) \/ ReadLock(u)
  BY <1>2, SafeWrites
<1>3. CASE Create(u) \/ Remove(u) \/ Detach(u) \/ Rewrite(u) \/ Archive(u)
  BY <1>3, SafeCreate, SafeRemove, SafeDetach, SafeRewrite, SafeArchive
<1>4. CASE Revive(u) \/ Attach(u) \/ Drop(u) \/ DropHalf(u) \/ LoopEnds(u)
  BY <1>4, SafeRevive, SafeAttach, SafeDrop, SafeDropHalf, SafeLoopEnds
<1>5. QED
  BY <1>1, <1>2, <1>3, <1>4 DEF Advances, AdvancesVersion, AdvancesRemoval

\* With clients that follow the allowable actions, whatever calls overlap and
\* wherever they fail: a version that was created is in the repository or in the
\* archive until its archive is destroyed, and so is its content stream.
THEOREM NothingIsLost ==
  ASSUME Guided  PROVE Spec => []NothingLost
<1>1. Init => AllSafe
  BY DEF Init, AllSafe, Safe, V!Created
<1>2. Typed /\ AllSafe /\ [Next]_vars => AllSafe'
  <2>1. SUFFICES ASSUME Typed, AllSafe, [Next]_vars  PROVE AllSafe'
    OBVIOUS
  <2>2. Typed' /\ Grows
    BY <2>1, TypedNextStep, TypedStutters
  <2>3. ASSUME NEW u \in User, SendsAny(u) \/ Advances(u) \/ Fail(u)  PROVE AllSafe'
    BY <2>1, <2>2, <2>3, SafeSends, SafeAdvances, SafeEnds
  <2>4. QED  BY <2>1, <2>3, SafeStutters DEF Next
<1>3. Typed /\ AllSafe => NothingLost
  <2>1. SUFFICES ASSUME Typed, AllSafe, NEW d \in V!Created, ~rev[d].pwc, d \notin destroyed
                 PROVE  /\ d \in live \/ \E r \in records : r.doc = d
                        /\ d \in attached \/ shelved[d] > 0
    BY DEF NothingLost
  <2>2. d \in Doc /\ Backed(d)
    BY <2>1 DEF AllSafe, Safe, V!Created
  <2>3. /\ Cardinality(Held(d)) \in Nat /\ Cardinality(Recorders(d)) \in Nat
        /\ shelved[d] \in Nat /\ Cardinality(Droppers(d)) \in Nat
    BY <2>1, <2>2, FiniteHeld, FiniteCalls DEF Typed, Stored
  <2>4. ASSUME d \notin live  PROVE \E r \in records : r.doc = d
    <3>1. Cardinality(Held(d)) # 0
      BY <2>2, <2>3, <2>4 DEF Backed
    <3>2. Held(d) # {}
      BY <3>1, FS_EmptySet
    <3>3. QED  BY <3>2 DEF Held
  <2>5. d \in attached \/ shelved[d] > 0
    BY <2>2, <2>3 DEF Backed
  <2>6. QED  BY <2>4, <2>5
<1>4. QED  BY <1>1, <1>2, <1>3, TypedAlways, PTL DEF Spec

-----------------------------------------------------------------------------
(***************************************************************************)
(* One latest version                                                      *)
(***************************************************************************)

Serves(u, s) == Works(u) /\ SeriesOf(call[u]) = s

Alone(s) == \A u, v \in User : Serves(u, s) /\ Serves(v, s) => u = v

\* The documents that are in the repository, or that a restore can bring back.
Standing == live \cup {r.doc : r \in records}

\* The documents and records of a series, whatever its call is doing.
OneLatest(s) ==
  \A d, e \in Standing :
    rev[d].vs = s /\ rev[e].vs = s /\ rev[d].latest /\ rev[e].latest => d = e

OneRecord(s) == \A r, q \in records : rev[r.doc].vs = s /\ r.doc = q.doc => r = q

\* A record is true to a document that is gone, and while a document with its
\* attachment is there, its record is about to be dropped.
TrueRecords(s) ==
  \A r \in records :
    rev[r.doc].vs = s =>
      /\ r.doc \notin live => r.rev.latest = rev[r.doc].latest
      /\ r.doc \in live /\ r.doc \in attached => Droppers(r.doc) # {}

NoStrays(s) == \A d \in attached : rev[d].vs = s => d \in live

Tidy(s) == OneLatest(s) /\ OneRecord(s) /\ TrueRecords(s) /\ NoStrays(s)

\* What the only call on a series knows.
KnowsFormer(c) ==
  /\ c.op \in Versioning /\ c.step \in {"remove", "clear", "supersede"} /\ c.former # NoDoc =>
       c.former \in live /\ rev[c.former].latest
  /\ c.op \in Versioning /\ c.step \in {"create", "resave", "resaveFormer"} =>
       ~c.copy.latest
  /\ c.step = "promote" => c.former # NoDoc /\ rev[c.former].latest

KnowsMade(c) ==
  /\ c.op \in Creating /\ c.step = "create" =>
       \A d \in V!Created : rev[d].vs # SeriesOf(c)
  /\ c.op \in Versioning /\ c.step = "create" =>
       \A d \in Standing : rev[d].vs = SeriesOf(c) => ~rev[d].latest
  /\ c.step \in {"name", "resave"} => rev[c.new].latest = c.made.latest

KnowsRemoved(c) ==
  /\ c.step = "rewrite" => c.copy.latest = rev[c.at].latest
  /\ c.op \in Deleting /\ c.step \in {"rewrite", "archive"} =>
       c.at \notin attached /\ Held(c.at) = {}
  /\ c.op \in Deleting /\ c.step = "remove" =>
       \A r \in Held(c.at) : r.rev.latest = rev[c.at].latest

KnowsRestored(c) ==
  c.op = "restore" =>
    /\ c.step \in {"revive", "attach", "drop"} => c.todo \subseteq records
    /\ c.step \in {"attach", "drop"} => Held(c.at) \subseteq {c.record} /\ c.record \notin c.todo
    /\ c.step = "attach" => c.at \in live /\ c.at \notin attached

Aware(c) == KnowsFormer(c) /\ KnowsMade(c) /\ KnowsRemoved(c) /\ KnowsRestored(c)

Orderly(s) ==
  /\ Alone(s) /\ Tidy(s)
  /\ \A u \in User : Serves(u, s) => Aware(call[u])

AllOrderly == "restore" \in failed \/ \A s \in Series \ mixed : Orderly(s)

\* Who works on a series that a step leaves alone.
LEMMA Serving ==
  ASSUME Typed, NEW u \in User, Works(u), NEW c, c = call[u]
  PROVE  /\ Knows(c) /\ c \in Call /\ c.op # "none" /\ c.op \in DOMAIN After
         /\ c.step \in Steps(c.op) /\ c.step # "end"
         /\ KnowsDocs(c) /\ KnowsNew(c) /\ KnowsPlace(c) /\ KnowsTodo(c)
         /\ SeriesOf(c) \in Series /\ series[SeriesOf(c)] # Absent
<1>1. /\ Knows(c) /\ c \in Call /\ c.op # "none" /\ c.op \in DOMAIN After
      /\ c.step \in Steps(c.op)
      /\ KnowsDocs(c) /\ KnowsNew(c) /\ KnowsPlace(c) /\ KnowsTodo(c)
  BY DEF Works, Typed, Calling, Knows, Call
<1>2. c.step # "end"
  BY <1>1 DEF Steps, After, ArchiveCalls
<1>3. SeriesOf(c) \in Series /\ series[SeriesOf(c)] # Absent
  <2>1. CASE c.doc # NoDoc
    BY <1>1, <2>1 DEF KnowsDocs, Own, SeriesOf, Typed, Stored, Alike, V!Revision
  <2>2. CASE c.doc = NoDoc
    <3>1. c.step \in {"create", "name", "resave"}
      BY <1>1, <2>2 DEF KnowsDocs, Creating, Steps, After, ArchiveCalls
    <3>2. QED  BY <1>1, <2>2, <3>1 DEF KnowsNew, SeriesOf, V!Revision
  <2>3. QED  BY <2>1, <2>2
<1>4. QED  BY <1>1, <1>2, <1>3

LEMMA OtherCalls ==
  ASSUME Typed, Grows, NEW u \in User, NEW x, call' = [call EXCEPT ![u] = x],
         NEW v \in User, v # u, NEW s
  PROVE  (Serves(v, s)' <=> Serves(v, s)) /\ call'[v] = call[v]
<1>1. PICK c : c = call[v]
  OBVIOUS
<1>2. call'[v] = c
  BY <1>1 DEF Typed, Calling
<1>3. Works(v)' <=> Works(v)
  BY <1>1, <1>2 DEF Works
<1>4. ASSUME Works(v)  PROVE SeriesOf(c)' = SeriesOf(c)
  <2>1. c.doc # NoDoc => c.doc \in V!Created
    BY <1>1, <1>4, Serving DEF KnowsDocs, Own
  <2>2. QED  BY <2>1 DEF SeriesOf, Grows
<1>5. QED  BY <1>1, <1>2, <1>3, <1>4 DEF Serves

\* A step leaves the documents and the records of a series alone.
Untouched(s) ==
  /\ \A d \in V!Created :
       rev[d].vs = s =>
         /\ rev'[d] = rev[d] /\ (d \in live' <=> d \in live)
         /\ (d \in attached' <=> d \in attached) /\ Held(d)' = Held(d)
  /\ \A d \in V!Created' : rev'[d].vs = s => d \in V!Created

LEMMA StandingCreated ==
  ASSUME Typed  PROVE Standing \subseteq V!Created /\ \A r \in records : r.doc \in V!Created
BY DEF Typed, Stored, Filed, Alike, Standing

\* A record belongs to its document.
LEMMA HeldBy == \A r : r \in records <=> r \in Held(r.doc)
BY DEF Held

LEMMA HeldThen == \A r : r \in records' <=> r \in Held(r.doc)'
BY DEF Held

LEMMA AwareElsewhere ==
  ASSUME Typed, Typed', Grows, NEW s, Untouched(s), NEW c, Knows(c), c.op # "none",
         SeriesOf(c) = s, Aware(c)
  PROVE  Aware(c)'
<1>1. /\ c \in Call /\ KnowsDocs(c) /\ KnowsNew(c) /\ KnowsPlace(c) /\ KnowsTodo(c)
  BY DEF Knows
<1>2. \A d : Own(c, d) =>
        /\ rev'[d] = rev[d] /\ (d \in live' <=> d \in live)
        /\ (d \in attached' <=> d \in attached) /\ Held(d)' = Held(d)
  BY DEF Own, Untouched
<1>3. c.doc # NoDoc => c.doc \in V!Created
  BY <1>1 DEF KnowsDocs, Own
<1>4. SeriesOf(c)' = s
  BY <1>3 DEF SeriesOf, Grows
<1>5. KnowsFormer(c)'
  <2>1. c.former # NoDoc => Own(c, c.former)
    BY <1>1 DEF KnowsDocs
  <2>2. QED  BY <1>2, <2>1 DEF Aware, KnowsFormer
<1>6. KnowsMade(c)'
  <2>1. c.step \in {"name", "resave"} => Own(c, c.new)
    BY <1>1 DEF KnowsDocs, KnowsNew
  <2>2. \A d \in V!Created' : rev'[d].vs = s => d \in V!Created /\ rev'[d] = rev[d]
    BY DEF Untouched, Grows
  <2>3. \A d \in Standing' : rev'[d].vs = s => d \in Standing /\ rev'[d] = rev[d]
    <3>1. TAKE d \in Standing'
    <3>2. HAVE rev'[d].vs = s
    <3>3. d \in V!Created'
      BY StandingCreated DEF Typed, Stored, Filed, Alike, Standing
    <3>4. d \in V!Created /\ rev'[d] = rev[d]
      BY <2>2, <3>2, <3>3
    <3>5. d \in live' => d \in live
      BY <3>2, <3>4 DEF Untouched
    <3>6. \A r \in records' : r.doc = d => r \in records
      <4>1. Held(d)' = Held(d)
        BY <3>2, <3>4 DEF Untouched
      <4>2. QED  BY <4>1 DEF Held
    <3>7. QED  BY <3>4, <3>5, <3>6 DEF Standing
  <2>4. c.op \in Creating /\ c.step = "create" => \A d \in V!Created' : rev'[d].vs # s
    BY <2>2 DEF Aware, KnowsMade
  <2>5. c.op \in Versioning /\ c.step = "create" =>
          \A d \in Standing' : rev'[d].vs = s => ~rev'[d].latest
    BY <2>3 DEF Aware, KnowsMade
  <2>6. c.step \in {"name", "resave"} => rev'[c.new].latest = c.made.latest
    BY <1>2, <2>1 DEF Aware, KnowsMade
  <2>7. QED  BY <1>4, <2>4, <2>5, <2>6 DEF KnowsMade
<1>7. KnowsRemoved(c)'
  <2>1. c.step = "rewrite" \/ (c.op \in Deleting /\ c.step \in {"archive", "remove"})
          => Own(c, c.at)
    BY <1>1 DEF KnowsDocs, KnowsPlace
  <2>2. QED  BY <1>2, <2>1 DEF Aware, KnowsRemoved
<1>8. KnowsRestored(c)'
  <2>1. c.op = "restore" /\ c.step \in {"attach", "drop"} => Own(c, c.at)
    BY <1>1 DEF KnowsDocs, KnowsPlace
  <2>2. c.op = "restore" => \A r \in c.todo : Own(c, r.doc)
    BY <1>1 DEF KnowsTodo, ArchiveCalls
  <2>3. c.op = "restore" /\ c.todo \subseteq records => c.todo \subseteq records'
    BY <1>2, <2>2, HeldBy, HeldThen
  <2>4. QED  BY <1>2, <2>1, <2>3 DEF Aware, KnowsRestored
<1>9. QED  BY <1>5, <1>6, <1>7, <1>8 DEF Aware

LEMMA TidyElsewhere ==
  ASSUME Typed, Typed', Grows, NEW s, Untouched(s), Tidy(s),
         \A d \in V!Created : rev[d].vs = s => Droppers(d) \subseteq Droppers(d)'
  PROVE  Tidy(s)'
<1>1. \A d \in V!Created' :
        rev'[d].vs = s =>
          /\ d \in V!Created /\ rev[d].vs = s /\ rev'[d] = rev[d]
          /\ (d \in live' <=> d \in live)
          /\ (d \in attached' <=> d \in attached) /\ Held(d)' = Held(d)
  BY DEF Untouched, Grows
<1>2. \A r \in records' : r.doc \in V!Created'
  BY DEF Typed, Filed, Alike
<1>3. live' \subseteq V!Created' /\ attached' \subseteq V!Created'
  BY DEF Typed, Stored
<1>4. \A r \in records' : rev'[r.doc].vs = s => r \in records
  BY <1>1, <1>2, HeldBy, HeldThen
<1>5. \A d \in Standing' :
        rev'[d].vs = s => d \in Standing /\ rev[d].vs = s /\ rev'[d] = rev[d]
  BY <1>1, <1>2, <1>3, <1>4 DEF Standing
<1>6. OneLatest(s)'
  BY <1>5 DEF Tidy, OneLatest
<1>7. OneRecord(s)'
  BY <1>1, <1>2, <1>4 DEF Tidy, OneRecord
<1>8. TrueRecords(s)'
  BY <1>1, <1>2, <1>4 DEF Tidy, TrueRecords
<1>9. NoStrays(s)'
  BY <1>1, <1>3 DEF Tidy, NoStrays
<1>10. QED  BY <1>6, <1>7, <1>8, <1>9 DEF Tidy

\* A call that does not work on a series takes a step that leaves it alone.
LEMMA OrderlyElsewhere ==
  ASSUME Typed, Typed', Grows, NEW u \in User, NEW x, call' = [call EXCEPT ![u] = x],
         NEW s, Orderly(s), Untouched(s), ~Serves(u, s), ~Serves(u, s)'
  PROVE  Orderly(s)'
<1>1. Alone(s)'
  BY OtherCalls DEF Alone, Orderly
<1>2. Tidy(s)'
  <2>1. ASSUME NEW d \in V!Created, rev[d].vs = s  PROVE Droppers(d) \subseteq Droppers(d)'
    <3>1. u \notin Droppers(d)
      <4>1. SUFFICES ASSUME Dropping(call[u], d) PROVE FALSE
        BY DEF Droppers
      <4>2. Works(u) /\ call[u].at = d
        BY <4>1 DEF Dropping, Works
      <4>3. Own(call[u], d)
        BY <4>2, Serving, CreatedHas DEF KnowsDocs
      <4>4. QED  BY <2>1, <4>2, <4>3 DEF Own, Serves
    <3>2. call \in [User -> Call]
      BY DEF Typed, Calling
    <3>3. Shift(u, x, d)
      BY <3>2, Duties
    <3>4. QED  BY <3>1, <3>3 DEF Shift
  <2>2. QED  BY <2>1, TidyElsewhere DEF Orderly
<1>3. ASSUME NEW v \in User, Serves(v, s)'  PROVE Aware(call[v])'
  <2>1. v # u /\ Serves(v, s) /\ call'[v] = call[v]
    BY <1>3, OtherCalls
  <2>2. PICK c : c = call[v]
    OBVIOUS
  <2>3. Knows(c) /\ c.op # "none" /\ SeriesOf(c) = s /\ Aware(c)
    BY <2>1, <2>2, Serving DEF Serves, Orderly
  <2>4. Aware(c)'
    BY <2>3, AwareElsewhere
  <2>5. QED  BY <2>1, <2>2, <2>4
<1>4. QED  BY <1>1, <1>2, <1>3 DEF Orderly

\* The only call that works on a series takes a step.
LEMMA OrderlyHere ==
  ASSUME Typed, Grows, NEW u \in User, NEW x, call' = [call EXCEPT ![u] = x],
         NEW s, \A v \in User \ {u} : ~Serves(v, s),
         Tidy(s)', Serves(u, s)' => Aware(x)'
  PROVE  Orderly(s)'
<1>1. \A v \in User : Serves(v, s)' => v = u
  BY OtherCalls
<1>2. call'[u] = x
  BY DEF Typed, Calling
<1>3. Alone(s)'
  BY <1>1 DEF Alone
<1>4. \A v \in User : Serves(v, s)' => Aware(call[v])'
  BY <1>1, <1>2
<1>5. QED  BY <1>3, <1>4 DEF Orderly

Ordered == \A s \in Series \ mixed : Orderly(s)

\* What stays of a call from step to step.
Follows(x, y) ==
  /\ StepFits(y.op, y.step, x.step)
  /\ x.op = y.op /\ x.doc = y.doc /\ x.at = y.at /\ x.former = y.former /\ x.new = y.new
  /\ x.copy = y.copy /\ x.made = y.made /\ x.record = y.record /\ x.todo = y.todo

LEMMA StepMade ==
  ASSUME Calling, Calling', NEW u \in User, NEW y, y.op \in DOMAIN After,
         y.step \in DOMAIN After[y.op], Continues(u, y)
  PROVE  \E x \in Call :
           /\ call' = [call EXCEPT ![u] = x]
           /\ \/ x = Rest /\ StepFits(y.op, y.step, "end")
              \/ Follows(x, y)
<1>1. PICK next :
           /\ StepFits(y.op, y.step, next)
           /\ next = "end" => call' = [call EXCEPT ![u] = Rest]
           /\ next # "end" => call' = [call EXCEPT ![u] = [y EXCEPT !.step = next]]
  BY Continuing
<1>2. CASE next = "end"
  BY <1>1, <1>2, RestType
<1>3. CASE next # "end"
  <2>1. PICK x : x = [y EXCEPT !.step = next]
    OBVIOUS
  <2>2. call' = [call EXCEPT ![u] = x]
    BY <1>1, <1>3, <2>1
  <2>3. x \in Call
    BY <2>2 DEF Calling
  <2>4. DOMAIN x = DOMAIN y
    BY <2>1
  <2>5. DOMAIN x = {"op", "step", "doc", "at", "former", "new", "copy", "made", "record",
                    "major", "todo", "writes", "reads"}
    BY <2>3 DEF Call
  <2>6. /\ x.op = y.op /\ x.doc = y.doc /\ x.at = y.at /\ x.former = y.former
        /\ x.new = y.new /\ x.copy = y.copy /\ x.made = y.made /\ x.record = y.record
        /\ x.todo = y.todo /\ x.step = next
    BY <2>1, <2>4, <2>5
  <2>7. QED  BY <1>1, <2>2, <2>3, <2>6 DEF Follows
<1>4. QED  BY <1>2, <1>3

LEMMA RestServes == ASSUME NEW u \in User, call' = [call EXCEPT ![u] = Rest],
                           call \in [User -> Call], NEW s
                    PROVE  ~Works(u)' /\ ~Serves(u, s)'
BY DEF Works, Serves, Rest

\* A call at work takes a step.
LEMMA OrderlyWork ==
  ASSUME Typed, Typed', Grows, Ordered, NEW u \in User, Works(u), NEW c, c = call[u],
         NEW x, call' = [call EXCEPT ![u] = x],
         x = Rest \/ (x.doc = c.doc /\ (x.made = c.made \/ c.doc # NoDoc)),
         mixed \subseteq mixed', NEW s0, s0 = SeriesOf(c),
         \A s \in Series : s # s0 => Untouched(s),
         Alone(s0) /\ Tidy(s0) /\ Aware(c) => Tidy(s0)' /\ (x # Rest => Aware(x)')
  PROVE  Ordered'
<1>1. Serves(u, s0) /\ s0 \in Series /\ \A s : s # s0 => ~Serves(u, s)
  BY Serving DEF Serves
<1>2. call \in [User -> Call] /\ call'[u] = x
  BY DEF Typed, Calling
<1>3. ASSUME NEW s \in Series, s # s0  PROVE ~Serves(u, s)'
  <2>1. CASE x = Rest
    BY <1>2, <2>1, RestServes
  <2>2. CASE x # Rest
    <3>1. c.doc # NoDoc => c.doc \in V!Created
      BY Serving DEF KnowsDocs, Own
    <3>2. SeriesOf(x)' = s0
      BY <2>2, <3>1 DEF SeriesOf, Grows
    <3>3. QED  BY <1>2, <1>3, <3>2 DEF Serves
  <2>3. QED  BY <2>1, <2>2
<1>4. ASSUME NEW s \in Series \ mixed', s # s0  PROVE Orderly(s)'
  BY <1>1, <1>3, <1>4, OrderlyElsewhere DEF Ordered
<1>5. ASSUME s0 \notin mixed'  PROVE Orderly(s0)'
  <2>1. Alone(s0) /\ Tidy(s0) /\ Aware(c)
    BY <1>1, <1>5 DEF Ordered, Orderly
  <2>2. \A v \in User \ {u} : ~Serves(v, s0)
    BY <1>1, <2>1 DEF Alone
  <2>3. x = Rest => ~Serves(u, s0)'
    BY <1>2, RestServes
  <2>4. QED  BY <2>1, <2>2, <2>3, OrderlyHere
<1>6. QED  BY <1>4, <1>5 DEF Ordered

\* A call begins to work.
LEMMA OrderlyStart ==
  ASSUME Typed, Typed', Grows, Ordered, NEW u \in User, ~Works(u),
         NEW x, call' = [call EXCEPT ![u] = x],
         NEW s0, SeriesOf(x)' = s0, mixed \subseteq mixed',
         (\E v \in User \ {u} : Serves(v, s0)) => s0 \in mixed',
         \A s \in Series : s # s0 => Untouched(s),
         Tidy(s0) => Tidy(s0)' /\ Aware(x)'
  PROVE  Ordered'
<1>1. \A s : ~Serves(u, s)
  BY DEF Serves
<1>2. call'[u] = x
  BY DEF Typed, Calling
<1>3. \A s \in Series : s # s0 => ~Serves(u, s)'
  BY <1>2 DEF Serves
<1>4. ASSUME NEW s \in Series \ mixed', s # s0  PROVE Orderly(s)'
  BY <1>1, <1>3, <1>4, OrderlyElsewhere DEF Ordered
<1>5. ASSUME s0 \in Series \ mixed'  PROVE Orderly(s0)'
  <2>1. Tidy(s0)
    BY <1>5 DEF Ordered, Orderly
  <2>2. \A v \in User \ {u} : ~Serves(v, s0)
    BY <1>5
  <2>3. QED  BY <2>1, <2>2, OrderlyHere
<1>6. QED  BY <1>4, <1>5 DEF Ordered

\* A call that waits, or reads.
LEMMA OrderlyWaits ==
  ASSUME Typed, Typed', Grows, Ordered, NEW u \in User, ~Works(u), ~Works(u)',
         NEW x, call' = [call EXCEPT ![u] = x], mixed \subseteq mixed',
         \A s \in Series : Untouched(s)
  PROVE  Ordered'
BY OrderlyElsewhere DEF Ordered, Serves

\* What a step that touches one document leaves alone.
LEMMA Elsewhere ==
  ASSUME Grows, NEW e, NEW s0, e \in V!Created' => rev'[e].vs = s0,
         \A d \in Doc : d # e => /\ rev'[d] = rev[d] /\ (d \in live' <=> d \in live)
                                 /\ (d \in attached' <=> d \in attached)
                                 /\ Held(d)' = Held(d),
         NEW s, s # s0
  PROVE  Untouched(s)
<1>1. ASSUME NEW d \in V!Created, rev[d].vs = s
      PROVE  /\ rev'[d] = rev[d] /\ (d \in live' <=> d \in live)
             /\ (d \in attached' <=> d \in attached) /\ Held(d)' = Held(d)
  <2>1. d # e
    BY <1>1 DEF Grows
  <2>2. QED  BY <2>1 DEF V!Created
<1>2. ASSUME NEW d \in V!Created', rev'[d].vs = s  PROVE d \in V!Created
  BY <1>2 DEF V!Created
<1>3. QED  BY <1>1, <1>2 DEF Untouched

LEMMA NothingTouched ==
  ASSUME UNCHANGED <<live, rev, attached, records>>
  PROVE  (\A s : Untouched(s)) /\ V!Created' = V!Created /\ Standing' = Standing
         /\ \A d : Held(d)' = Held(d)
BY DEF Untouched, V!Created, Held, Standing

\* What stays tidy, if no record is left behind.
LEMMA TidyStays ==
  ASSUME Typed, NEW s, Tidy(s), UNCHANGED <<live, rev, attached, records>>,
         \A d \in Doc : Droppers(d) # {} => Droppers(d)' # {} \/ Held(d) = {}
  PROVE  Tidy(s)'
<1>1. Standing' = Standing
  BY DEF Standing
<1>2. OneLatest(s)' /\ OneRecord(s)' /\ NoStrays(s)'
  BY <1>1 DEF Tidy, OneLatest, OneRecord, NoStrays
<1>3. TrueRecords(s)'
  <2>1. \A r \in records : r.doc \in Doc /\ Held(r.doc) # {}
    BY StandingCreated DEF V!Created, Held
  <2>2. QED  BY <2>1 DEF Tidy, TrueRecords
<1>4. QED  BY <1>2, <1>3 DEF Tidy

\* The droppers after a step of a call.
LEMMA DroppersStay ==
  ASSUME Typed, NEW u \in User, NEW x, call' = [call EXCEPT ![u] = x], NEW d,
         ~Dropping(call[u], d)
  PROVE  Droppers(d) \subseteq Droppers(d)'
<1>1. u \notin Droppers(d) /\ call \in [User -> Call]
  BY DEF Droppers, Typed, Calling
<1>2. Shift(u, x, d)
  BY <1>1, Duties
<1>3. QED  BY <1>1, <1>2 DEF Shift

-----------------------------------------------------------------------------
(***************************************************************************)
(* The steps, one by one                                                   *)
(***************************************************************************)

\* The calls that wait for a lock, and getAllVersions.
LEMMA Waiting ==
  ASSUME Typed, Typed', NEW u \in User,
         \/ Refuse(u) \/ LockLatest(u) \/ ReadLock(u) \/ AllRead(u)
         \/ \E d \in Doc : \/ \E op \in Locking, isMajor \in Major : Send(u, op, d, isMajor)
                           \/ SendGetAllVersions(u, d)
  PROVE  ~Works(u) /\ \E x : call' = [call EXCEPT ![u] = x] /\ ~Works(u)'
<1>1. PICK c : c = call[u]
  OBVIOUS
<1>2. call \in [User -> Call]
  BY DEF Typed, Calling
<1>3. CASE Refuse(u) \/ LockLatest(u)
  <2>1. call' = [call EXCEPT ![u] = Rest] /\ ~Works(u)
    BY <1>3 DEF Refuse, LockLatest, Ends, Goes, Works
  <2>2. QED  BY <1>2, <2>1, RestServes
<1>4. CASE ReadLock(u) \/ AllRead(u)
  <2>1. c.step = "readLock"
    BY <1>1, <1>4 DEF ReadLock, AllRead, Goes
  <2>2. c.op = "getAllVersions" /\ c \in Call /\ c.op \in DOMAIN After
        /\ c.step \in DOMAIN After[c.op]
    BY <1>1, <2>1, Underway DEF StepFits
  <2>3. ~Works(u)
    BY <1>1, <2>2 DEF Works
  <2>4. CASE AllRead(u)
    BY <1>2, <2>3, <2>4, RestServes DEF AllRead, Ends
  <2>5. CASE ReadLock(u)
    <3>1. PICK d : Continues(u, [c EXCEPT !.todo = @ \ {d}, !.reads = @ \cup {d}])
      BY <1>1, <2>5 DEF ReadLock
    <3>2. PICK y : y = [c EXCEPT !.todo = @ \ {d}, !.reads = @ \cup {d}]
      OBVIOUS
    <3>3. y.op = c.op /\ y.step = c.step /\ Continues(u, y)
      BY <2>2, <3>1, <3>2 DEF Call
    <3>4. PICK x : call' = [call EXCEPT ![u] = x] /\ (x = Rest \/ Follows(x, y))
      BY <2>2, <3>3, StepMade DEF Typed
    <3>5. x.op = "getAllVersions" \/ x.op = "none"
      BY <2>2, <3>3, <3>4 DEF Follows, Rest
    <3>6. ~Works(u)'
      BY <1>2, <3>4, <3>5 DEF Works
    <3>7. QED  BY <2>3, <3>4, <3>6
  <2>6. QED  BY <1>4, <2>4, <2>5
<1>5. ASSUME NEW d \in Doc, NEW op \in Locking, NEW isMajor \in Major,
             Send(u, op, d, isMajor)
      PROVE  ~Works(u) /\ \E x : call' = [call EXCEPT ![u] = x] /\ ~Works(u)'
  <2>1. PICK x : x = [Rest EXCEPT !.op = op, !.step = "lock", !.doc = d,
                                  !.major = isMajor /\ op = "checkIn"]
    OBVIOUS
  <2>2. Sends(u, x)
    BY <1>5, <2>1 DEF Send
  <2>3. call' = [call EXCEPT ![u] = x] /\ call[u] = Rest
    BY <2>2 DEF Sends
  <2>4. x.step = "lock"
    BY <2>1 DEF Rest
  <2>5. ~Works(u) /\ ~Works(u)'
    BY <1>2, <2>3, <2>4 DEF Works, Rest
  <2>6. QED  BY <2>3, <2>5
<1>6. ASSUME NEW d \in Doc, SendGetAllVersions(u, d)
      PROVE  ~Works(u) /\ \E x : call' = [call EXCEPT ![u] = x] /\ ~Works(u)'
  <2>1. PICK x : x = [Rest EXCEPT !.op = "getAllVersions", !.step = "readLock", !.doc = d,
                                  !.todo = V!Versions(rev[d].vs)]
    OBVIOUS
  <2>2. Sends(u, x)
    BY <1>6, <2>1 DEF SendGetAllVersions
  <2>3. call' = [call EXCEPT ![u] = x] /\ call[u] = Rest
    BY <2>2 DEF Sends
  <2>4. x.op = "getAllVersions"
    BY <2>1 DEF Rest
  <2>5. ~Works(u) /\ ~Works(u)'
    BY <1>2, <2>3, <2>4 DEF Works, Rest
  <2>6. QED  BY <2>3, <2>5
<1>7. QED  BY <1>3, <1>4, <1>5, <1>6

LEMMA OrderedWaits ==
  ASSUME Typed, Typed', Grows, Ordered, NEW u \in User,
         \/ Refuse(u) \/ LockLatest(u) \/ ReadLock(u) \/ AllRead(u)
         \/ \E d \in Doc : \/ \E op \in Locking, isMajor \in Major : Send(u, op, d, isMajor)
                           \/ SendGetAllVersions(u, d)
  PROVE  Ordered'
<1>1. UNCHANGED <<live, rev, attached, records>> /\ mixed \subseteq mixed'
  BY DEF Refuse, LockLatest, ReadLock, AllRead, Send, SendGetAllVersions, stores, Fine
<1>2. \A s \in Series : Untouched(s)
  BY <1>1, NothingTouched
<1>3. QED  BY <1>1, <1>2, Waiting, OrderlyWaits

\* A call at work ends here, and it is no restore.
LEMMA OrderedStops ==
  ASSUME Typed, Typed', Grows, Ordered, NEW u \in User, Works(u), Ends(u),
         UNCHANGED stores, UNCHANGED mixed, call[u].op # "restore"
  PROVE  Ordered'
<1>1. PICK c : c = call[u]
  OBVIOUS
<1>2. PICK s0 : s0 = SeriesOf(c)
  OBVIOUS
<1>3. call' = [call EXCEPT ![u] = Rest] /\ UNCHANGED <<live, rev, attached, records>>
  BY DEF Ends, stores
<1>4. \A s : Untouched(s)
  BY <1>3, NothingTouched
<1>5. \A d \in Doc : Droppers(d) \subseteq Droppers(d)'
  BY <1>3, DroppersStay DEF Dropping
<1>6. Tidy(s0) => Tidy(s0)'
  BY <1>3, <1>5, TidyStays
<1>7. QED  BY <1>1, <1>2, <1>3, <1>4, <1>6, OrderlyWork

LEMMA OrderedFails ==
  ASSUME Typed, Typed', Grows, Ordered, NEW u \in User,
         \/ SupersedeFails(u) \/ ResaveFails(u) \/ PromoteFails(u) \/ DetachFails(u)
         \/ RemovalFails(u) \/ RestoreFails(u) \/ Fail(u)
  PROVE  "restore" \in failed' \/ Ordered'
<1>1. Throws(u) /\ UNCHANGED mixed
  BY DEF SupersedeFails, ResaveFails, PromoteFails, DetachFails, RemovalFails,
         RestoreFails, Fail
<1>2. Works(u)
  <2>1. CASE Fail(u)
    BY <2>1 DEF Fail
  <2>2. CASE ~Fail(u)
    <3>1. call[u].step \in {"supersede", "resave", "resaveFormer", "promote", "detach",
                            "rewrite", "archive", "revive", "attach", "drop", "over"}
      BY <2>2 DEF SupersedeFails, ResaveFails, PromoteFails, DetachFails, RemovalFails,
                  RestoreFails, LoopOver, Goes
    <3>2. call[u].op \notin {"none", "getAllVersions"}
      BY <3>1, Busy DEF Typed, Steps, After, ArchiveCalls
    <3>3. QED  BY <3>1, <3>2 DEF Works
  <2>3. QED  BY <2>1, <2>2
<1>3. QED  BY <1>1, <1>2, OrderedStops DEF Throws

LEMMA OrderedDetachEnds ==
  ASSUME Typed, Typed', Grows, Ordered, NEW u \in User, DetachEnds(u)
  PROVE  Ordered'
<1>1. call[u].step = "detach" /\ Ends(u) /\ UNCHANGED stores /\ UNCHANGED mixed
  BY DEF DetachEnds, Goes, Fine
<1>2. call[u].op \in Deleting
  BY <1>1, Underway DEF StepFits
<1>3. Works(u)
  BY <1>1, <1>2 DEF Works, Deleting
<1>4. QED  BY <1>1, <1>2, <1>3, OrderedStops DEF Deleting

\* The calls that begin to work.
LEMMA OrderedSendCreate ==
  ASSUME Typed, Typed', Grows, Ordered, NEW u \in User, NEW s \in Series,
         NEW state \in V!VersioningState, SendCreate(u, s, state)
  PROVE  Ordered'
<1>1. PICK op : op = IF state = "CHECKEDOUT" THEN "createPwc" ELSE "createDocument"
  OBVIOUS
<1>2. PICK m : m = V!FirstVersion(s, state)
  OBVIOUS
<1>3. PICK x : x = [Rest EXCEPT !.op = op, !.step = "create", !.made = m]
  OBVIOUS
<1>4. Sends(u, x) /\ UNCHANGED <<live, rev, attached, records, mixed>>
  BY <1>1, <1>2, <1>3 DEF SendCreate
<1>5. call' = [call EXCEPT ![u] = x] /\ ~Works(u)
  BY <1>4 DEF Sends, Works, Rest
<1>6. m.vs = s
  BY <1>2 DEF V!FirstVersion, V!Pwc, V!Version
<1>7. x.op \in Creating /\ x.op = op /\ x.step = "create" /\ x.doc = NoDoc /\ x.made = m
  BY <1>1, <1>3 DEF Rest, Creating
<1>8. SeriesOf(x)' = s
  BY <1>6, <1>7 DEF SeriesOf
<1>9. \A v \in User : ~Serves(v, s)
  BY Serving DEF SendCreate, Serves
<1>10. (\A t : Untouched(t)) /\ V!Created' = V!Created
  BY <1>4, NothingTouched
<1>11. Tidy(s) => Tidy(s)'
  <2>1. ~\E d : Dropping(call[u], d)
    BY <1>4 DEF Sends, Dropping, Rest
  <2>2. QED  BY <1>4, <1>5, <2>1, DroppersStay, TidyStays
<1>12. Aware(x)'
  <2>1. \A d \in V!Created' : rev'[d].vs # s
    BY <1>4, <1>10 DEF SendCreate, Typed, Stored
  <2>2. QED
    BY <1>1, <1>7, <1>8, <2>1 DEF Aware, KnowsFormer, KnowsMade, KnowsRemoved, KnowsRestored,
       Versioning, Deleting
<1>13. QED  BY <1>4, <1>5, <1>8, <1>9, <1>10, <1>11, <1>12, OrderlyStart

LEMMA OrderedSendSaveVersion ==
  ASSUME Typed, Typed', Grows, Ordered, NEW u \in User, NEW d \in Doc,
         NEW isMajor \in Major, SendSaveVersion(u, d, isMajor)
  PROVE  Ordered'
<1>1. PICK x : x = [Rest EXCEPT !.op = "saveVersion", !.step = "supersede", !.doc = d,
                                !.major = isMajor, !.former = d, !.copy = rev[d]]
  OBVIOUS
<1>2. PICK s0 : s0 = rev[d].vs
  OBVIOUS
<1>3. Sends(u, x) /\ UNCHANGED <<live, rev, attached, records>> /\ Mixes(u, s0)
      /\ d \in live /\ rev[d].latest
  BY <1>1, <1>2 DEF SendSaveVersion, stores
<1>4. call' = [call EXCEPT ![u] = x] /\ ~Works(u)
  BY <1>3 DEF Sends, Works, Rest
<1>5. /\ x.op = "saveVersion" /\ x.step = "supersede" /\ x.doc = d /\ x.former = d
      /\ d # NoDoc
  BY <1>1 DEF Rest
<1>6. SeriesOf(x)' = s0
  BY <1>2, <1>3, <1>5 DEF SeriesOf
<1>7. mixed \subseteq mixed' /\ ((\E v \in User \ {u} : Serves(v, s0)) => s0 \in mixed')
  BY <1>3 DEF Mixes, Serves
<1>8. \A t : Untouched(t)
  BY <1>3, NothingTouched
<1>9. Tidy(s0) => Tidy(s0)'
  <2>1. ~\E e : Dropping(call[u], e)
    BY <1>3 DEF Sends, Dropping, Rest
  <2>2. QED  BY <1>3, <1>4, <2>1, DroppersStay, TidyStays
<1>10. Aware(x)'
  BY <1>3, <1>5 DEF Aware, KnowsFormer, KnowsMade, KnowsRemoved, KnowsRestored,
     Creating, Deleting
<1>11. QED  BY <1>4, <1>6, <1>7, <1>8, <1>9, <1>10, OrderlyStart

LEMMA OrderedSendArchiveCall ==
  ASSUME Typed, Typed', Grows, Ordered, NEW u \in User, NEW d \in Doc,
         NEW op \in ArchiveCalls, SendArchiveCall(u, op, d)
  PROVE  Ordered'
<1>1. PICK s0 : s0 = rev[d].vs
  OBVIOUS
<1>2. PICK st : st = IF op = "restore" THEN "revive" ELSE "drop"
  OBVIOUS
<1>3. PICK x : x = [Rest EXCEPT !.op = op, !.doc = d, !.todo = RecordsOf(s0), !.step = st]
  OBVIOUS
<1>4. Sends(u, x) /\ UNCHANGED <<live, rev, attached, records>> /\ Mixes(u, s0)
  BY <1>1, <1>2, <1>3 DEF SendArchiveCall, stores
<1>5. call' = [call EXCEPT ![u] = x] /\ ~Works(u)
  BY <1>4 DEF Sends, Works, Rest
<1>6. x.op = op /\ x.step = st /\ x.doc = d /\ x.todo = RecordsOf(s0) /\ d # NoDoc
  BY <1>3 DEF Rest
<1>7. SeriesOf(x)' = s0
  BY <1>1, <1>4, <1>6 DEF SeriesOf
<1>8. mixed \subseteq mixed' /\ ((\E v \in User \ {u} : Serves(v, s0)) => s0 \in mixed')
  BY <1>4 DEF Mixes, Serves
<1>9. \A t : Untouched(t)
  BY <1>4, NothingTouched
<1>10. Tidy(s0) => Tidy(s0)'
  <2>1. ~\E e : Dropping(call[u], e)
    BY <1>4 DEF Sends, Dropping, Rest
  <2>2. QED  BY <1>4, <1>5, <2>1, DroppersStay, TidyStays
<1>11. x.todo \subseteq records'
  BY <1>4, <1>6 DEF RecordsOf
<1>12. Aware(x)'
  BY <1>2, <1>6, <1>11 DEF Aware, KnowsFormer, KnowsMade, KnowsRemoved, KnowsRestored,
     Creating, Deleting, Versioning, ArchiveCalls
<1>13. QED  BY <1>5, <1>7, <1>8, <1>9, <1>10, <1>12, OrderlyStart

LEMMA OrderedAdmit ==
  ASSUME Admin = {}, Typed, Typed', Grows, Ordered, NEW u \in User, Admit(u)
  PROVE  Ordered'
<1>1. PICK c : c = call[u]
  OBVIOUS
<1>2. c.step = "lock"
  BY <1>1 DEF Admit, Goes
<1>3. /\ c \in Call /\ c.op \in DOMAIN After /\ c.step \in DOMAIN After[c.op]
      /\ StepFits(c.op, c.step, After[c.op][c.step]) /\ KnowsDocs(c)
  BY <1>1, <1>2, Underway
<1>4. c.doc # NoDoc /\ c.doc \in V!Created
  BY <1>2, <1>3 DEF StepFits, KnowsDocs, Own, Creating, Returning, Deleting
<1>5. PICK s0 : s0 = rev[c.doc].vs
  OBVIOUS
<1>6. UNCHANGED <<live, rev, attached, records>> /\ Mixes(u, s0)
  BY <1>1, <1>5 DEF Admit, stores
<1>7. PICK f, k, m, t : Admits(c, f, k, m, t) /\ Continues(u, Admitted(c, f, k, m, t))
  BY <1>1, AdmitContinues
<1>8. PICK y : y = Admitted(c, f, k, m, t)
  OBVIOUS
<1>9. y.op = c.op /\ y.step = c.step /\ y.doc = c.doc /\ y.former = f /\ Continues(u, y)
  BY <1>3, <1>7, <1>8 DEF Call, Admitted
<1>10. PICK x : /\ call' = [call EXCEPT ![u] = x]
                /\ (x = Rest /\ StepFits(y.op, y.step, "end")) \/ Follows(x, y)
  BY <1>3, <1>9, StepMade DEF Typed
<1>11. StepFits(c.op, "lock", x.step) /\ x.op = c.op /\ x.doc = c.doc /\ x.former = f
  BY <1>2, <1>9, <1>10 DEF Follows, StepFits, Returning, Deleting
<1>12. SeriesOf(x)' = s0
  BY <1>4, <1>5, <1>6, <1>11 DEF SeriesOf
<1>13. mixed \subseteq mixed' /\ ((\E v \in User \ {u} : Serves(v, s0)) => s0 \in mixed')
  BY <1>6 DEF Mixes, Serves
<1>14. \A s : Untouched(s)
  BY <1>6, NothingTouched
<1>15. Tidy(s0) => Tidy(s0)'
  <2>1. ~\E e : Dropping(call[u], e)
    BY <1>1, <1>2 DEF Dropping
  <2>2. QED  BY <1>6, <1>10, <2>1, DroppersStay, TidyStays
<1>16. Aware(x)'
  <2>1. /\ x.step \in {"remove", "supersede", "create", "detach"}
        /\ x.step = "create" => c.op = "checkOut"
        /\ x.step = "remove" => c.op \in Returning
    BY <1>11 DEF StepFits, Returning, Deleting
  <2>2. f # NoDoc => f \in live' /\ rev'[f].latest
    BY <1>6, <1>7 DEF Admits
  <2>3. QED
    BY <1>11, <2>1, <2>2 DEF Aware, KnowsFormer, KnowsMade, KnowsRemoved, KnowsRestored,
       Creating, Deleting, Versioning, Returning
<1>17. ~Works(u)
  BY <1>1, <1>2 DEF Works
<1>18. QED  BY <1>10, <1>12, <1>13, <1>14, <1>15, <1>16, <1>17, OrderlyStart

\* A call at one of the steps that only working calls take.
LEMMA AtWork ==
  ASSUME Typed, NEW u \in User, NEW c, c = call[u],
         c.step \in {"create", "name", "resave", "resaveFormer", "supersede", "remove",
                     "clear", "latest", "detach", "rewrite", "archive", "promote",
                     "revive", "attach", "drop", "over"}
  PROVE  /\ Works(u) /\ c \in Call /\ c.op \in DOMAIN After
         /\ KnowsDocs(c) /\ KnowsNew(c) /\ KnowsPlace(c) /\ KnowsTodo(c)
         /\ c.step # "over" => c.step \in DOMAIN After[c.op]
<1>1. c.op \notin {"none", "getAllVersions"}
  BY Busy DEF Typed, Steps, After, ArchiveCalls
<1>2. Works(u)
  BY <1>1 DEF Works
<1>3. c.step # "over" => c.step \in DOMAIN After[c.op]
  BY Underway
<1>4. QED  BY <1>2, <1>3, Serving

\* A call writes nothing on its way.
LEMMA OrderlyQuiet ==
  ASSUME Typed, Typed', Grows, Ordered, NEW u \in User, Works(u), NEW c, c = call[u],
         NEW x, call' = [call EXCEPT ![u] = x],
         x = Rest \/ (x.doc = c.doc /\ (x.made = c.made \/ c.doc # NoDoc)),
         mixed \subseteq mixed', UNCHANGED <<live, rev, attached, records>>,
         Aware(c) => \A d \in Doc : Dropping(c, d) => Held(d) = {},
         Aware(c) /\ x # Rest => Aware(x)'
  PROVE  Ordered'
<1>1. PICK s0 : s0 = SeriesOf(c)
  OBVIOUS
<1>2. \A s : Untouched(s)
  BY NothingTouched
<1>3. Aware(c) /\ Tidy(s0) => Tidy(s0)'
  <2>1. SUFFICES ASSUME Aware(c), Tidy(s0) PROVE Tidy(s0)'
    OBVIOUS
  <2>2. \A d \in Doc : Droppers(d) # {} => Droppers(d)' # {} \/ Held(d) = {}
    BY <2>1, DroppersStay
  <2>3. QED  BY <2>1, <2>2, TidyStays
<1>4. QED  BY <1>1, <1>2, <1>3, OrderlyWork

LEMMA OrderedName ==
  ASSUME Typed, Typed', Grows, Ordered, NEW u \in User, Name(u) \/ Clear(u)
  PROVE  Ordered'
<1>1. PICK c : c = call[u]
  OBVIOUS
<1>2. c.step \in {"name", "clear"} /\ Continues(u, c)
      /\ UNCHANGED <<live, rev, attached, records, mixed>>
  BY <1>1 DEF Name, Clear, Goes, Fine
<1>3. /\ Works(u) /\ c.op \in DOMAIN After /\ c.step \in DOMAIN After[c.op]
      /\ KnowsDocs(c) /\ KnowsNew(c)
  BY <1>1, <1>2, AtWork
<1>4. PICK x : /\ call' = [call EXCEPT ![u] = x]
               /\ (x = Rest /\ StepFits(c.op, c.step, "end")) \/ Follows(x, c)
  BY <1>2, <1>3, StepMade DEF Typed
<1>5. Follows(x, c)
  BY <1>2, <1>4 DEF StepFits
<1>6. \/ c.step = "name" /\ x.step = "resave" /\ c.op \in {"createPwc", "checkOut"}
      \/ c.step = "clear" /\ x.step \in {"supersede", "latest"} /\ c.op \in Returning
  BY <1>2, <1>5 DEF Follows, StepFits
<1>7. ASSUME Aware(c)  PROVE Aware(x)'
  <2>1. KnowsFormer(x)'
    BY <1>2, <1>5, <1>6, <1>7 DEF Aware, KnowsFormer, Follows, Versioning, Returning
  <2>2. KnowsMade(x)'
    BY <1>2, <1>5, <1>6, <1>7 DEF Aware, KnowsMade, Follows
  <2>3. KnowsRemoved(x)' /\ KnowsRestored(x)'
    BY <1>5, <1>6 DEF KnowsRemoved, KnowsRestored, Follows, Returning, Deleting
  <2>4. QED  BY <2>1, <2>2, <2>3 DEF Aware
<1>8. \A d \in Doc : ~Dropping(c, d)
  BY <1>2 DEF Dropping
<1>9. QED  BY <1>1, <1>2, <1>3, <1>4, <1>5, <1>7, <1>8, OrderlyQuiet DEF Follows

LEMMA OrderedLatest ==
  ASSUME Typed, Typed', Grows, Ordered, NEW u \in User, Latest(u)
  PROVE  Ordered'
<1>1. PICK c : c = call[u]
  OBVIOUS
<1>2. c.step = "latest" /\ UNCHANGED stores /\ UNCHANGED mixed
  BY <1>1 DEF Latest, Goes, Fine
<1>3. /\ Works(u) /\ c \in Call /\ c.op \in DOMAIN After /\ c.step \in DOMAIN After[c.op]
      /\ KnowsDocs(c) /\ KnowsNew(c)
  BY <1>1, <1>2, AtWork
<1>4. c.op \in Returning \cup {"deleteVersion"}
  BY <1>1, <1>2, Underway DEF StepFits
<1>5. CASE Ends(u)
  BY <1>1, <1>2, <1>3, <1>4, <1>5, OrderedStops DEF Returning
<1>6. CASE ~Ends(u)
  <2>1. PICK l \in V!LatestVersions(rev[c.doc].vs) :
             Continues(u, [c EXCEPT !.former = l, !.copy = rev[l]])
    BY <1>1, <1>6 DEF Latest
  <2>2. l \in live /\ rev[l].latest /\ l # NoDoc
    BY <2>1 DEF V!LatestVersions, V!Versions, Typed, Stored, V!Created
  <2>3. PICK y : y = [c EXCEPT !.former = l, !.copy = rev[l]]
    OBVIOUS
  <2>4. y.op = c.op /\ y.step = c.step /\ y.doc = c.doc /\ y.made = c.made /\ y.former = l
    BY <1>3, <2>3 DEF Call
  <2>5. PICK x : /\ call' = [call EXCEPT ![u] = x]
                 /\ (x = Rest /\ StepFits(y.op, y.step, "end")) \/ Follows(x, y)
    BY <1>3, <2>1, <2>3, <2>4, StepMade DEF Typed
  <2>6. Follows(x, y)
    BY <1>2, <2>4, <2>5 DEF StepFits
  <2>7. x.step \in {"promote", "lockLatest"} /\ x.op = c.op /\ x.former = l
        /\ x.doc = c.doc /\ x.made = c.made
    BY <1>2, <2>4, <2>6 DEF Follows, StepFits
  <2>8. Aware(x)'
    <3>1. rev' = rev
      BY <1>2 DEF stores
    <3>2. QED
      BY <1>4, <2>2, <2>7, <3>1
         DEF Aware, KnowsFormer, KnowsMade, KnowsRemoved, KnowsRestored, Returning, Deleting
  <2>9. \A d \in Doc : ~Dropping(c, d)
    BY <1>2 DEF Dropping
  <2>10. QED  BY <1>1, <1>2, <1>3, <2>5, <2>7, <2>8, <2>9, OrderlyQuiet DEF stores
<1>7. QED  BY <1>5, <1>6

LEMMA OrderedLoopEnds ==
  ASSUME Typed, Typed', Grows, Ordered, NEW u \in User, LoopEnds(u)
  PROVE  Ordered'
<1>1. PICK c : c = call[u]
  OBVIOUS
<1>2. /\ LoopOver(u) /\ c.step \in {"revive", "attach", "drop", "over"}
      /\ UNCHANGED stores /\ UNCHANGED mixed
  BY <1>1 DEF LoopEnds, LoopOver, Goes, Fine
<1>3. Works(u) /\ c \in Call /\ KnowsDocs(c) /\ KnowsPlace(c)
  BY <1>1, <1>2, AtWork
<1>4. CASE c.op # "restore"
  BY <1>1, <1>2, <1>3, <1>4, OrderedStops DEF LoopEnds
<1>5. CASE c.op = "restore"
  <2>1. PICK x : x = [c EXCEPT !.step = "rewrite", !.at = c.doc, !.copy = rev[c.doc]]
    OBVIOUS
  <2>2. call' = [call EXCEPT ![u] = x] /\ c.doc \in live
    BY <1>1, <1>5, <2>1 DEF LoopEnds
  <2>3. x.op = "restore" /\ x.step = "rewrite" /\ x.at = c.doc /\ x.copy = rev[c.doc]
        /\ x.doc = c.doc /\ x.made = c.made
    BY <1>3, <1>5, <2>1 DEF Call
  <2>4. Aware(x)'
    <3>1. rev' = rev
      BY <1>2 DEF stores
    <3>2. QED
      BY <2>3, <3>1 DEF Aware, KnowsFormer, KnowsMade, KnowsRemoved, KnowsRestored,
         Versioning, Creating, Deleting
  <2>5. ASSUME Aware(c), NEW d \in Doc, Dropping(c, d)  PROVE Held(d) = {}
    <3>1. c.step = "drop" /\ c.at = d
      BY <2>5 DEF Dropping
    <3>2. Held(d) \subseteq {c.record}
      BY <1>5, <2>5, <3>1 DEF Aware, KnowsRestored
    <3>3. c.record \notin records
      BY <1>1, <1>2, <1>5, <3>1 DEF LoopOver, Goes, Droppable, Doomed
    <3>4. QED  BY <3>2, <3>3 DEF Held
  <2>6. QED  BY <1>1, <1>2, <1>3, <2>2, <2>3, <2>4, <2>5, OrderlyQuiet DEF stores
<1>6. QED  BY <1>4, <1>5

\* A document is rewritten, and not as the latest version if it was not that.
LEMMA TidyWrites ==
  ASSUME Typed, NEW e \in live, NEW r, rev' = [rev EXCEPT ![e] = r],
         r.vs = rev[e].vs, r.latest => rev[e].latest, UNCHANGED <<live, attached, records>>,
         NEW s, Tidy(s), \A d \in Doc : Droppers(d) \subseteq Droppers(d)'
  PROVE  Tidy(s)'
<1>1. Standing' = Standing
  BY DEF Standing
<1>2. \A d \in V!Created : /\ rev'[d].vs = rev[d].vs /\ (rev'[d].latest => rev[d].latest)
                           /\ d # e => rev'[d] = rev[d]
  BY DEF Typed, Stored, V!Created
<1>3. Standing \subseteq V!Created /\ attached \subseteq V!Created
      /\ \A q \in records : q.doc \in V!Created
  BY StandingCreated DEF Typed, Stored
<1>4. OneLatest(s)'
  BY <1>1, <1>2, <1>3 DEF Tidy, OneLatest
<1>5. OneRecord(s)' /\ NoStrays(s)'
  BY <1>2, <1>3 DEF Tidy, OneRecord, NoStrays
<1>6. TrueRecords(s)'
  BY <1>2, <1>3 DEF Tidy, TrueRecords, V!Created
<1>7. QED  BY <1>4, <1>5, <1>6 DEF Tidy

LEMMA OrderlyWrites ==
  ASSUME Typed, Typed', Grows, Ordered, NEW u \in User, Works(u), NEW c, c = call[u],
         NEW x, call' = [call EXCEPT ![u] = x],
         x = Rest \/ (x.doc = c.doc /\ (x.made = c.made \/ c.doc # NoDoc)),
         NEW e, NEW r, Writes(e, r), Own(c, e), r.vs = rev[e].vs,
         \A d \in Doc : ~Dropping(c, d),
         Aware(c) => (r.latest => rev[e].latest),
         Aware(c) /\ Tidy(SeriesOf(c)) /\ x # Rest => Aware(x)'
  PROVE  Ordered'
<1>1. PICK s0 : s0 = SeriesOf(c)
  OBVIOUS
<1>2. /\ e \in live /\ rev' = [rev EXCEPT ![e] = r]
      /\ UNCHANGED <<live, attached, records, mixed>>
  BY DEF Writes, Fine
<1>3. rev'[e].vs = s0 /\ e \in Doc /\ \A d \in Doc : d # e => rev'[d] = rev[d]
  BY <1>1, <1>2 DEF Own, Typed, Stored, V!Created
<1>4. \A d : Held(d)' = Held(d)
  BY <1>2 DEF Held
<1>5. \A s \in Series : s # s0 => Untouched(s)
  BY <1>2, <1>3, <1>4, Elsewhere
<1>6. Aware(c) /\ Tidy(s0) => Tidy(s0)'
  BY <1>2, DroppersStay, TidyWrites
<1>7. QED  BY <1>1, <1>2, <1>5, <1>6, OrderlyWork

LEMMA OrderedSupersede ==
  ASSUME Typed, Typed', Grows, Ordered, NEW u \in User, Supersede(u)
  PROVE  Ordered'
<1>1. PICK c : c = call[u]
  OBVIOUS
<1>2. PICK k : k = V!Superseded(c.copy, c.major)
  OBVIOUS
<1>3. PICK m : m = V!NextVersion(c.copy, c.major)
  OBVIOUS
<1>4. PICK y : y = [c EXCEPT !.copy = k, !.made = m]
  OBVIOUS
<1>5. c.step = "supersede" /\ Writes(c.former, k) /\ Continues(u, y)
  BY <1>1, <1>2, <1>3, <1>4 DEF Supersede, Goes
<1>6. /\ Works(u) /\ c \in Call /\ c.op \in DOMAIN After /\ c.step \in DOMAIN After[c.op]
      /\ KnowsDocs(c)
  BY <1>1, <1>5, AtWork
<1>7. y.op = c.op /\ y.step = c.step /\ y.doc = c.doc /\ y.copy = k
  BY <1>4, <1>6 DEF Call
<1>8. PICK x : /\ call' = [call EXCEPT ![u] = x]
               /\ (x = Rest /\ StepFits(y.op, y.step, "end")) \/ Follows(x, y)
  BY <1>5, <1>6, <1>7, StepMade DEF Typed
<1>9. Follows(x, y)
  BY <1>5, <1>7, <1>8 DEF StepFits
<1>10. x.step = "create" /\ x.op = c.op /\ c.op \in Versioning /\ x.doc = c.doc /\ x.copy = k
  BY <1>5, <1>7, <1>9 DEF Follows, StepFits
<1>11. c.former \in live /\ c.former # NoDoc
  BY <1>5 DEF Writes, Typed, Stored, V!Created
<1>12. c.doc # NoDoc /\ c.doc \in V!Created /\ Own(c, c.former) /\ Alike(c.former, c.copy)
  BY <1>6, <1>10, <1>11 DEF KnowsDocs, Own, Versioning, Creating
<1>13. ~k.latest /\ k.vs = rev[c.former].vs
  BY <1>2, <1>12 DEF V!Superseded, Alike, V!Revision
<1>14. ASSUME Aware(c), Tidy(SeriesOf(c))  PROVE Aware(x)'
  <2>1. SeriesOf(x)' = SeriesOf(c)
    BY <1>10, <1>12 DEF SeriesOf, Grows
  <2>2. rev[c.former].latest
    BY <1>5, <1>10, <1>11, <1>14 DEF Aware, KnowsFormer
  <2>3. Standing' = Standing /\ rev' = [rev EXCEPT ![c.former] = k]
    BY <1>5 DEF Writes, Standing
  <2>4. ASSUME NEW d \in Standing, rev'[d].vs = SeriesOf(c)  PROVE ~rev'[d].latest
    <3>1. d \in V!Created /\ rev[d].vs = SeriesOf(c)
      BY <2>4, StandingCreated DEF Grows
    <3>2. CASE d = c.former
      BY <1>13, <2>3, <3>1, <3>2 DEF Typed, Stored, V!Created
    <3>3. CASE d # c.former
      <4>1. rev'[d] = rev[d]
        BY <2>3, <3>3
      <4>2. c.former \in Standing /\ rev[c.former].vs = SeriesOf(c)
        BY <1>11, <1>12 DEF Standing, Own
      <4>3. QED  BY <1>14, <2>2, <2>4, <3>1, <3>3, <4>1, <4>2 DEF Tidy, OneLatest
    <3>4. QED  BY <3>2, <3>3
  <2>5. KnowsFormer(x)'
    BY <1>10, <1>13 DEF KnowsFormer
  <2>6. KnowsMade(x)'
    BY <1>10, <2>1, <2>3, <2>4 DEF KnowsMade, Versioning, Creating
  <2>7. KnowsRemoved(x)' /\ KnowsRestored(x)'
    BY <1>10 DEF KnowsRemoved, KnowsRestored, Versioning
  <2>8. QED  BY <2>5, <2>6, <2>7 DEF Aware
<1>15. \A d \in Doc : ~Dropping(c, d)
  BY <1>5 DEF Dropping
<1>16. QED
  BY <1>1, <1>5, <1>6, <1>8, <1>10, <1>12, <1>13, <1>14, <1>15, OrderlyWrites

LEMMA OrderedResave ==
  ASSUME Typed, Typed', Grows, Ordered, NEW u \in User, Resave(u)
  PROVE  Ordered'
<1>1. PICK c : c = call[u]
  OBVIOUS
<1>2. c.step = "resave" /\ Continues(u, c)
  BY <1>1 DEF Resave, Goes
<1>3. PICK r \in {c.made, rev[c.new]} : Writes(c.new, r)
  BY <1>1 DEF Resave
<1>4. /\ Works(u) /\ c.op \in DOMAIN After /\ c.step \in DOMAIN After[c.op]
      /\ KnowsDocs(c) /\ KnowsNew(c)
  BY <1>1, <1>2, AtWork
<1>5. PICK x : /\ call' = [call EXCEPT ![u] = x]
               /\ (x = Rest /\ StepFits(c.op, c.step, "end")) \/ Follows(x, c)
  BY <1>2, <1>4, StepMade DEF Typed
<1>6. Own(c, c.new) /\ Alike(c.new, c.made) /\ r.vs = rev[c.new].vs
  BY <1>2, <1>3, <1>4 DEF KnowsDocs, KnowsNew, Alike
<1>7. ASSUME Aware(c)  PROVE r.latest => rev[c.new].latest
  BY <1>2, <1>3, <1>7 DEF Aware, KnowsMade
<1>8. ASSUME Aware(c), x # Rest  PROVE Aware(x)'
  <2>1. x.step \in {"resaveFormer", "end"} /\ x.op = c.op /\ x.copy = c.copy
        /\ c.op \notin Deleting \cup {"restore"}
    BY <1>2, <1>5, <1>8 DEF Follows, StepFits, Creating, Versioning, Deleting
  <2>2. KnowsFormer(x)'
    BY <1>2, <1>8, <2>1 DEF Aware, KnowsFormer
  <2>3. KnowsMade(x)' /\ KnowsRemoved(x)' /\ KnowsRestored(x)'
    BY <2>1 DEF KnowsMade, KnowsRemoved, KnowsRestored
  <2>4. QED  BY <2>2, <2>3 DEF Aware
<1>9. \A d \in Doc : ~Dropping(c, d)
  BY <1>2 DEF Dropping
<1>10. QED
  BY <1>1, <1>3, <1>4, <1>5, <1>6, <1>7, <1>8, <1>9, OrderlyWrites DEF Follows

LEMMA OrderedResaveFormer ==
  ASSUME Typed, Typed', Grows, Ordered, NEW u \in User, ResaveFormer(u)
  PROVE  Ordered'
<1>1. PICK c : c = call[u]
  OBVIOUS
<1>2. c.step = "resaveFormer" /\ Continues(u, c) /\ Writes(c.former, c.copy)
  BY <1>1 DEF ResaveFormer, Goes
<1>3. /\ Works(u) /\ c.op \in DOMAIN After /\ c.step \in DOMAIN After[c.op]
      /\ KnowsDocs(c)
  BY <1>1, <1>2, AtWork
<1>4. PICK x : /\ call' = [call EXCEPT ![u] = x]
               /\ (x = Rest /\ StepFits(c.op, c.step, "end")) \/ Follows(x, c)
  BY <1>2, <1>3, StepMade DEF Typed
<1>5. c.op \in Versioning /\ StepFits(c.op, c.step, After[c.op][c.step])
  BY <1>1, <1>2, Underway DEF StepFits
<1>6. Own(c, c.former) /\ c.copy.vs = rev[c.former].vs
  BY <1>2, <1>3 DEF KnowsDocs, Writes, Typed, Stored, V!Created, Alike
<1>7. ASSUME Aware(c)  PROVE ~c.copy.latest
  BY <1>2, <1>5, <1>7 DEF Aware, KnowsFormer
<1>8. ASSUME x # Rest  PROVE Aware(x)'
  <2>1. x.step \in {"latest", "end"} /\ x.op = c.op /\ c.op \notin Deleting \cup {"restore"}
    BY <1>2, <1>4, <1>5, <1>8 DEF Follows, StepFits, Versioning, Deleting
  <2>2. QED  BY <2>1 DEF Aware, KnowsFormer, KnowsMade, KnowsRemoved, KnowsRestored
<1>9. \A d \in Doc : ~Dropping(c, d)
  BY <1>2 DEF Dropping
<1>10. QED
  BY <1>1, <1>2, <1>3, <1>4, <1>6, <1>7, <1>8, <1>9, OrderlyWrites DEF Follows

LEMMA OrderedRewrite ==
  ASSUME Typed, Typed', Grows, Ordered, NEW u \in User, Rewrite(u)
  PROVE  Ordered'
<1>1. PICK c : c = call[u]
  OBVIOUS
<1>2. c.step = "rewrite" /\ Continues(u, c)
  BY <1>1 DEF Rewrite, Goes
<1>3. PICK r \in {c.copy, rev[c.at]} : Writes(c.at, r)
  BY <1>1 DEF Rewrite
<1>4. /\ Works(u) /\ c.op \in DOMAIN After /\ c.step \in DOMAIN After[c.op]
      /\ KnowsDocs(c) /\ KnowsPlace(c)
  BY <1>1, <1>2, AtWork
<1>5. PICK x : /\ call' = [call EXCEPT ![u] = x]
               /\ (x = Rest /\ StepFits(c.op, c.step, "end")) \/ Follows(x, c)
  BY <1>2, <1>4, StepMade DEF Typed
<1>6. Own(c, c.at) /\ r.vs = rev[c.at].vs
  BY <1>2, <1>3, <1>4 DEF KnowsDocs, KnowsPlace, Alike
<1>7. ASSUME Aware(c)  PROVE r.latest => rev[c.at].latest
  BY <1>2, <1>3, <1>7 DEF Aware, KnowsRemoved
<1>8. ASSUME Aware(c), x # Rest  PROVE Aware(x)'
  <2>1. x.step \in {"archive", "end"} /\ x.op = c.op /\ x.at = c.at
        /\ (x.op = "restore" => x.step = "end")
    BY <1>2, <1>5, <1>8 DEF Follows, StepFits, Deleting
  <2>2. Held(c.at)' = Held(c.at) /\ attached' = attached
    BY <1>3 DEF Writes, Held
  <2>3. KnowsRemoved(x)'
    BY <1>2, <1>8, <2>1, <2>2 DEF Aware, KnowsRemoved
  <2>4. KnowsFormer(x)' /\ KnowsMade(x)' /\ KnowsRestored(x)'
    BY <2>1 DEF KnowsFormer, KnowsMade, KnowsRestored
  <2>5. QED  BY <2>3, <2>4 DEF Aware
<1>9. \A d \in Doc : ~Dropping(c, d)
  BY <1>2 DEF Dropping
<1>10. QED
  BY <1>1, <1>3, <1>4, <1>5, <1>6, <1>7, <1>8, <1>9, OrderlyWrites DEF Follows

LEMMA OrderedPromote ==
  ASSUME Typed, Typed', Grows, Ordered, NEW u \in User, Promote(u)
  PROVE  Ordered'
<1>1. PICK c : c = call[u]
  OBVIOUS
<1>2. PICK r : r = [c.copy EXCEPT !.latest = TRUE, !.latestMajor = c.copy.major]
  OBVIOUS
<1>3. c.step = "promote" /\ Continues(u, c) /\ Writes(c.former, r)
  BY <1>1, <1>2 DEF Promote, Goes
<1>4. /\ Works(u) /\ c.op \in DOMAIN After /\ c.step \in DOMAIN After[c.op]
      /\ KnowsDocs(c)
  BY <1>1, <1>3, AtWork
<1>5. PICK x : /\ call' = [call EXCEPT ![u] = x]
               /\ (x = Rest /\ StepFits(c.op, c.step, "end")) \/ Follows(x, c)
  BY <1>3, <1>4, StepMade DEF Typed
<1>6. Own(c, c.former) /\ Alike(c.former, c.copy)
  BY <1>3, <1>4 DEF KnowsDocs, Writes, Typed, Stored, V!Created
<1>7. r.vs = rev[c.former].vs
  BY <1>2, <1>6 DEF Alike, V!Revision
<1>8. ASSUME Aware(c)  PROVE rev[c.former].latest
  BY <1>3, <1>8 DEF Aware, KnowsFormer
<1>9. ASSUME x # Rest  PROVE Aware(x)'
  <2>1. x.step = "end"
    BY <1>3, <1>5, <1>9 DEF Follows, StepFits
  <2>2. QED  BY <2>1 DEF Aware, KnowsFormer, KnowsMade, KnowsRemoved, KnowsRestored
<1>10. \A d \in Doc : ~Dropping(c, d)
  BY <1>3 DEF Dropping
<1>11. QED
  BY <1>1, <1>3, <1>4, <1>5, <1>6, <1>7, <1>8, <1>9, <1>10, OrderlyWrites DEF Follows

LEMMA OrderedCreate ==
  ASSUME Typed, Typed', Grows, Ordered, NEW u \in User, Create(u)
  PROVE  Ordered'
<1>1. PICK c : c = call[u]
  OBVIOUS
<1>2. PICK n \in Doc :
           /\ V!Fresh(n) /\ rev' = [rev EXCEPT ![n] = c.made]
           /\ live' = live \cup {n} /\ attached' = attached \cup {n}
           /\ Continues(u, [c EXCEPT !.new = n])
  BY <1>1 DEF Create
<1>3. c.step = "create" /\ mixed \subseteq mixed' /\ UNCHANGED records
  BY <1>1 DEF Create, Goes, Mixes
<1>4. /\ Works(u) /\ c \in Call /\ c.op \in DOMAIN After /\ c.step \in DOMAIN After[c.op]
      /\ KnowsDocs(c) /\ KnowsNew(c)
  BY <1>1, <1>3, AtWork
<1>5. PICK y : y = [c EXCEPT !.new = n]
  OBVIOUS
<1>6. /\ y.op = c.op /\ y.step = c.step /\ y.doc = c.doc /\ y.made = c.made
      /\ y.copy = c.copy /\ y.new = n /\ Continues(u, y)
  BY <1>2, <1>4, <1>5 DEF Call
<1>7. PICK x : /\ call' = [call EXCEPT ![u] = x]
               /\ (x = Rest /\ StepFits(y.op, y.step, "end")) \/ Follows(x, y)
  BY <1>4, <1>6, StepMade DEF Typed
<1>8. /\ x.step \in {"name", "resave"} /\ x.op = c.op /\ x.doc = c.doc /\ x.made = c.made
      /\ x.copy = c.copy /\ x.new = n
      /\ c.op \in Creating \cup Versioning \cup {"checkOut"}
      /\ c.op \in Versioning => x.step = "resave"
  BY <1>3, <1>6, <1>7 DEF Follows, StepFits, Versioning, Creating
<1>9. PICK s0 : s0 = SeriesOf(c)
  OBVIOUS
<1>10. /\ rev'[n] = c.made /\ c.made.vs = s0 /\ (c.op = "checkOut" => ~c.made.latest)
       /\ \A d \in Doc : d # n => rev'[d] = rev[d]
  BY <1>2, <1>3, <1>4, <1>9 DEF KnowsNew, Typed, Stored, Creating
<1>11. n \notin V!Created
  BY <1>2 DEF V!Fresh, V!Created
<1>12. \A d : Held(d)' = Held(d)
  BY <1>3 DEF Held
<1>13. \A s \in Series : s # s0 => Untouched(s)
  BY <1>2, <1>10, <1>12, Elsewhere
<1>14. \A d : Droppers(d) \subseteq Droppers(d)'
  BY <1>1, <1>3, <1>7, DroppersStay DEF Dropping
<1>15. ASSUME Tidy(s0), Aware(c)  PROVE Tidy(s0)' /\ Aware(x)'
  <2>1. Standing' = Standing \cup {n}
    BY <1>2, <1>3 DEF Standing
  <2>2. Standing \subseteq V!Created /\ \A r \in records : r.doc \in V!Created
    BY StandingCreated
  <2>3. \A d \in V!Created : d \in Doc /\ d # n /\ rev'[d] = rev[d]
    BY <1>10, <1>11 DEF V!Created
  <2>4. c.made.latest => \A d \in Standing : rev[d].vs = s0 => ~rev[d].latest
    BY <1>3, <1>8, <1>9, <1>10, <1>15, <2>2 DEF Aware, KnowsMade
  <2>5. OneLatest(s0)'
    BY <1>10, <1>15, <2>1, <2>2, <2>3, <2>4 DEF Tidy, OneLatest
  <2>6. OneRecord(s0)'
    BY <1>3, <1>15, <2>2, <2>3 DEF Tidy, OneRecord
  <2>7. TrueRecords(s0)'
    BY <1>2, <1>3, <1>14, <1>15, <2>2, <2>3 DEF Tidy, TrueRecords
  <2>8. NoStrays(s0)'
    BY <1>2, <1>15, <2>3 DEF Tidy, NoStrays, Typed, Stored
  <2>9. KnowsFormer(x)'
    BY <1>3, <1>8, <1>15 DEF Aware, KnowsFormer
  <2>10. KnowsMade(x)' /\ KnowsRemoved(x)' /\ KnowsRestored(x)'
    BY <1>8, <1>10
       DEF KnowsMade, KnowsRemoved, KnowsRestored, Creating, Versioning, Deleting
  <2>11. QED  BY <2>5, <2>6, <2>7, <2>8, <2>9, <2>10 DEF Tidy, Aware
<1>16. QED  BY <1>1, <1>3, <1>4, <1>7, <1>8, <1>9, <1>13, <1>15, OrderlyWork

LEMMA OrderedRemove ==
  ASSUME Guided, Typed, Typed', Grows, Ordered, NEW u \in User, Remove(u)
  PROVE  Ordered'
<1>1. PICK c : c = call[u]
  OBVIOUS
<1>2. PICK d : d = IF c.at = NoDoc THEN c.doc ELSE c.at
  OBVIOUS
<1>3. /\ c.step = "remove" /\ live' = live \ {d} /\ attached' = attached \ {d}
      /\ Continues(u, c) /\ UNCHANGED <<rev, records, mixed>>
  BY <1>1, <1>2 DEF Remove, Goes, Fine
<1>4. /\ Works(u) /\ c.op \in DOMAIN After /\ c.step \in DOMAIN After[c.op]
      /\ KnowsDocs(c) /\ KnowsPlace(c)
  BY <1>1, <1>3, AtWork
<1>5. KnowsLocks(c)
  BY <1>1, <1>3, Underway
<1>6. PICK x : /\ call' = [call EXCEPT ![u] = x]
               /\ (x = Rest /\ StepFits(c.op, c.step, "end")) \/ Follows(x, c)
  BY <1>3, <1>4, StepMade DEF Typed
<1>7. /\ Follows(x, c) /\ c.op \in Returning \cup Deleting
      /\ c.op \in Returning => x.step = "clear"
      /\ c.op \in Deleting => x.step \in {"latest", "detach"}
  BY <1>3, <1>6 DEF Follows, StepFits, Returning, Deleting
<1>8. PICK s0 : s0 = SeriesOf(c)
  OBVIOUS
<1>9. Own(c, d) /\ (c.op \in Returning => d = c.doc /\ rev[d].pwc)
      /\ (c.op \in Deleting => d = c.at)
  BY <1>2, <1>3, <1>4, <1>5, <1>7
     DEF KnowsDocs, KnowsPlace, KnowsLocks, Creating, Returning, Deleting
<1>10. rev[d].vs = s0 /\ d \in V!Created
  BY <1>8, <1>9 DEF Own
<1>11. \A e : Held(e)' = Held(e)
  BY <1>3 DEF Held
<1>12. \A s \in Series : s # s0 => Untouched(s)
  BY <1>3, <1>10, <1>11, Elsewhere
<1>13. \A e : Droppers(e) \subseteq Droppers(e)'
  BY <1>1, <1>3, <1>6, DroppersStay DEF Dropping
<1>14. ASSUME Tidy(s0), Aware(c)  PROVE Tidy(s0)' /\ Aware(x)'
  <2>1. Standing' \subseteq Standing
    BY <1>3 DEF Standing
  <2>2. OneLatest(s0)'
    BY <1>3, <1>14, <2>1 DEF Tidy, OneLatest
  <2>3. OneRecord(s0)' /\ NoStrays(s0)'
    BY <1>3, <1>14 DEF Tidy, OneRecord, NoStrays
  <2>4. ASSUME NEW r \in records, r.doc = d  PROVE r.rev.latest = rev[d].latest
    <3>1. CASE c.op \in Returning
      BY <1>9, <2>4, <3>1 DEF Typed, Stored, Filed, Alike, V!Revision
    <3>2. CASE c.op \in Deleting
      BY <1>3, <1>9, <1>14, <2>4, <3>2 DEF Aware, KnowsRemoved, Held
    <3>3. QED  BY <1>7, <3>1, <3>2
  <2>5. TrueRecords(s0)'
    BY <1>3, <1>13, <1>14, <2>4 DEF Tidy, TrueRecords
  <2>6. KnowsFormer(x)'
    <3>1. c.op \in Returning /\ c.former # NoDoc => c.former # d
      BY <1>4, <1>9 DEF KnowsDocs
    <3>2. QED
      BY <1>3, <1>7, <1>14, <3>1 DEF Aware, KnowsFormer, Follows, Versioning, Returning, Deleting
  <2>7. KnowsMade(x)' /\ KnowsRemoved(x)' /\ KnowsRestored(x)'
    BY <1>7 DEF Follows, KnowsMade, KnowsRemoved, KnowsRestored, Returning, Deleting
  <2>8. QED  BY <2>2, <2>3, <2>5, <2>6, <2>7 DEF Tidy, Aware
<1>15. call' = [call EXCEPT ![u] = x] /\ x.doc = c.doc /\ x.made = c.made
       /\ mixed \subseteq mixed'
  BY <1>3, <1>6, <1>7 DEF Follows
<1>16. QED  BY <1>1, <1>4, <1>8, <1>12, <1>14, <1>15, OrderlyWork

\* A call that drops a record works on the series of the document.
LEMMA DropperServes ==
  ASSUME Typed, NEW d, NEW v \in Droppers(d)  PROVE Serves(v, rev[d].vs)
<1>1. PICK c : c = call[v]
  OBVIOUS
<1>2. c.op = "restore" /\ c.step = "drop" /\ c.at = d
  BY <1>1 DEF Droppers, Dropping
<1>3. Works(v) /\ KnowsDocs(c) /\ KnowsPlace(c)
  BY <1>1, <1>2, AtWork DEF Droppers
<1>4. QED  BY <1>1, <1>2, <1>3 DEF KnowsDocs, KnowsPlace, Own, Serves

\* The attachment of a document goes.
LEMMA TidyDetached ==
  ASSUME Typed, UNCHANGED <<live, rev, records>>, attached' \subseteq attached, NEW s,
         Tidy(s), \A d : Droppers(d) \subseteq Droppers(d)'
  PROVE  Tidy(s)'
<1>1. Standing' = Standing
  BY DEF Standing
<1>2. OneLatest(s)' /\ OneRecord(s)' /\ NoStrays(s)' /\ TrueRecords(s)'
  BY <1>1 DEF Tidy, OneLatest, OneRecord, NoStrays, TrueRecords
<1>3. QED  BY <1>2 DEF Tidy

LEMMA OrderedDetach ==
  ASSUME Typed, Typed', Grows, Ordered, NEW u \in User, Detach(u)
  PROVE  Ordered'
<1>1. PICK c : c = call[u]
  OBVIOUS
<1>2. PICK d \in c.todo \cap attached :
           /\ attached' = attached \ {d}
           /\ IF d \in live
              THEN Continues(u, [c EXCEPT !.todo = @ \ {d}, !.at = d, !.copy = rev[d]])
              ELSE call' = [call EXCEPT ![u].todo = @ \ {d}]
  BY <1>1 DEF Detach
<1>3. c.step = "detach" /\ UNCHANGED <<live, rev, records, mixed>>
  BY <1>1 DEF Detach, Goes, Fine
<1>4. /\ Works(u) /\ c \in Call /\ c.op \in DOMAIN After /\ c.step \in DOMAIN After[c.op]
      /\ KnowsDocs(c) /\ KnowsTodo(c)
  BY <1>1, <1>3, AtWork
<1>5. c.op \in Deleting
  BY <1>1, <1>3, Underway DEF StepFits
<1>6. PICK s0 : s0 = SeriesOf(c)
  OBVIOUS
<1>7. Own(c, d) /\ rev[d].vs = s0 /\ d \in V!Created
  BY <1>2, <1>4, <1>5, <1>6 DEF KnowsTodo, Own, Deleting, ArchiveCalls
<1>8. \A e : Held(e)' = Held(e)
  BY <1>3 DEF Held
<1>9. \A s \in Series : s # s0 => Untouched(s)
  BY <1>2, <1>3, <1>7, <1>8, Elsewhere
<1>10. ASSUME Tidy(s0), Alone(s0), d \in live  PROVE Held(d) = {}
  <2>1. ASSUME NEW r \in records, r.doc = d  PROVE FALSE
    <3>1. PICK v : v \in Droppers(d)
      BY <1>2, <1>7, <1>10, <2>1 DEF Tidy, TrueRecords
    <3>2. v \in User /\ Serves(v, s0) /\ Serves(u, s0)
      BY <1>1, <1>4, <1>6, <1>7, <3>1, DropperServes DEF Serves, Droppers
    <3>3. v = u
      BY <1>10, <3>2 DEF Alone
    <3>4. QED  BY <1>1, <1>3, <3>1, <3>3 DEF Droppers, Dropping
  <2>2. QED  BY <2>1 DEF Held
<1>11. CASE d \in live
  <2>1. PICK y : y = [c EXCEPT !.todo = @ \ {d}, !.at = d, !.copy = rev[d]]
    OBVIOUS
  <2>2. /\ y.op = c.op /\ y.step = c.step /\ y.doc = c.doc /\ y.made = c.made
        /\ y.copy = rev[d] /\ y.at = d /\ Continues(u, y)
    BY <1>2, <1>4, <1>11, <2>1 DEF Call
  <2>3. PICK x : /\ call' = [call EXCEPT ![u] = x]
                 /\ (x = Rest /\ StepFits(y.op, y.step, "end")) \/ Follows(x, y)
    BY <1>4, <2>2, StepMade DEF Typed
  <2>4. /\ x.step = "rewrite" /\ x.op = c.op /\ x.doc = c.doc /\ x.made = c.made
        /\ x.copy = rev[d] /\ x.at = d
    BY <1>3, <2>2, <2>3 DEF Follows, StepFits
  <2>5. \A e : Droppers(e) \subseteq Droppers(e)'
    BY <1>1, <1>3, <2>3, DroppersStay DEF Dropping
  <2>6. Tidy(s0) => Tidy(s0)'
    BY <1>2, <1>3, <2>5, TidyDetached
  <2>7. Tidy(s0) /\ Alone(s0) => Aware(x)'
    BY <1>2, <1>3, <1>5, <1>8, <1>10, <1>11, <2>4
       DEF Aware, KnowsFormer, KnowsMade, KnowsRemoved, KnowsRestored, Versioning, Creating,
           Deleting
  <2>8. QED  BY <1>1, <1>3, <1>4, <1>6, <1>9, <2>3, <2>4, <2>6, <2>7, OrderlyWork
<1>12. CASE d \notin live
  <2>1. PICK x : x = [c EXCEPT !.todo = @ \ {d}]
    OBVIOUS
  <2>2. call' = [call EXCEPT ![u] = x]
    BY <1>1, <1>2, <1>12, <2>1 DEF Typed, Calling
  <2>3. x.step = "detach" /\ x.op = c.op /\ x.doc = c.doc /\ x.made = c.made
    BY <1>3, <1>4, <2>1 DEF Call
  <2>4. \A e : Droppers(e) \subseteq Droppers(e)'
    BY <1>1, <1>3, <2>2, DroppersStay DEF Dropping
  <2>5. Tidy(s0) => Tidy(s0)'
    BY <1>2, <1>3, <2>4, TidyDetached
  <2>6. Aware(x)'
    BY <1>5, <2>3
       DEF Aware, KnowsFormer, KnowsMade, KnowsRemoved, KnowsRestored, Versioning, Creating,
           Deleting
  <2>7. QED  BY <1>1, <1>3, <1>4, <1>6, <1>9, <2>2, <2>3, <2>5, <2>6, OrderlyWork
<1>13. QED  BY <1>11, <1>12

LEMMA OrderedArchive ==
  ASSUME Typed, Typed', Grows, Ordered, NEW u \in User, Archive(u)
  PROVE  Ordered'
<1>1. PICK c : c = call[u]
  OBVIOUS
<1>2. /\ c.step = "archive" /\ c.at \in live /\ Continues(u, c)
      /\ UNCHANGED <<live, rev, attached, mixed>>
  BY <1>1 DEF Archive, Goes, Fine
<1>3. /\ Works(u) /\ c.op \in DOMAIN After /\ c.step \in DOMAIN After[c.op]
      /\ KnowsDocs(c)
  BY <1>1, <1>2, AtWork
<1>4. PICK x : /\ call' = [call EXCEPT ![u] = x]
               /\ (x = Rest /\ StepFits(c.op, c.step, "end")) \/ Follows(x, c)
  BY <1>2, <1>3, StepMade DEF Typed
<1>5. Follows(x, c) /\ x.step = "remove" /\ c.op \in Deleting
  BY <1>2, <1>4 DEF Follows, StepFits
<1>6. PICK s0 : s0 = SeriesOf(c)
  OBVIOUS
<1>7. Own(c, c.at) /\ rev[c.at].vs = s0
  BY <1>2, <1>3, <1>6 DEF KnowsDocs, Own, Typed, Stored, V!Created
<1>8. PICK q : q.doc = c.at /\ q.rev = rev[c.at] /\ records' = records \cup {q}
  <2>1. PICK no : records' = records \cup {[doc |-> c.at, rev |-> rev[c.at], no |-> no]}
    BY <1>1, NewRecord DEF Typed
  <2>2. QED  BY <2>1
<1>9. \A d : Held(d)' = IF d = c.at THEN Held(d) \cup {q} ELSE Held(d)
  BY <1>8 DEF Held
<1>10. \A s \in Series : s # s0 => Untouched(s)
  BY <1>2, <1>7, <1>9, Elsewhere
<1>11. \A d : Droppers(d) \subseteq Droppers(d)'
  BY <1>1, <1>2, <1>4, DroppersStay DEF Dropping
<1>12. ASSUME Tidy(s0), Aware(c)  PROVE Tidy(s0)' /\ Aware(x)'
  <2>1. c.at \notin attached /\ \A r \in records : r.doc # c.at
    BY <1>2, <1>5, <1>12 DEF Aware, KnowsRemoved, Held
  <2>2. Standing' = Standing
    BY <1>2, <1>8 DEF Standing
  <2>3. OneLatest(s0)' /\ NoStrays(s0)'
    BY <1>2, <1>12, <2>2 DEF Tidy, OneLatest, NoStrays
  <2>4. OneRecord(s0)'
    BY <1>2, <1>8, <1>12, <2>1 DEF Tidy, OneRecord
  <2>5. TrueRecords(s0)'
    BY <1>2, <1>8, <1>11, <1>12, <2>1 DEF Tidy, TrueRecords
  <2>6. KnowsRemoved(x)'
    BY <1>2, <1>5, <1>8, <2>1 DEF KnowsRemoved, Held, Follows
  <2>7. KnowsFormer(x)' /\ KnowsMade(x)' /\ KnowsRestored(x)'
    BY <1>5 DEF KnowsFormer, KnowsMade, KnowsRestored, Follows, Versioning, Deleting
  <2>8. QED  BY <2>3, <2>4, <2>5, <2>6, <2>7 DEF Tidy, Aware
<1>13. QED  BY <1>1, <1>2, <1>3, <1>4, <1>5, <1>6, <1>10, <1>12, OrderlyWork DEF Follows

LEMMA OrderedRevive ==
  ASSUME Typed, Typed', Grows, Ordered, NEW u \in User, Revive(u)
  PROVE  Ordered'
<1>1. PICK c : c = call[u]
  OBVIOUS
<1>2. PICK r \in c.todo :
           /\ r.doc \notin live
           /\ live' = live \cup {r.doc} /\ rev' = [rev EXCEPT ![r.doc] = r.rev]
           /\ Continues(u, [c EXCEPT !.at = r.doc, !.record = r, !.todo = @ \ {r}])
  BY <1>1 DEF Revive
<1>3. c.step = "revive" /\ UNCHANGED <<attached, records, mixed>>
  BY <1>1 DEF Revive, Goes, Fine
<1>4. /\ Works(u) /\ c \in Call /\ c.op \in DOMAIN After /\ c.step \in DOMAIN After[c.op]
      /\ KnowsDocs(c) /\ KnowsTodo(c)
  BY <1>1, <1>3, AtWork
<1>5. c.op = "restore"
  BY <1>1, <1>3, Underway DEF StepFits
<1>6. PICK y : y = [c EXCEPT !.at = r.doc, !.record = r, !.todo = @ \ {r}]
  OBVIOUS
<1>7. /\ y.op = c.op /\ y.step = c.step /\ y.doc = c.doc /\ y.made = c.made
      /\ y.at = r.doc /\ y.record = r /\ y.todo = c.todo \ {r} /\ Continues(u, y)
  BY <1>2, <1>4, <1>6 DEF Call
<1>8. PICK x : /\ call' = [call EXCEPT ![u] = x]
               /\ (x = Rest /\ StepFits(y.op, y.step, "end")) \/ Follows(x, y)
  BY <1>4, <1>7, StepMade DEF Typed
<1>9. /\ x.step = "attach" /\ x.op = "restore" /\ x.doc = c.doc /\ x.made = c.made
      /\ x.at = r.doc /\ x.record = r /\ x.todo = c.todo \ {r}
  BY <1>3, <1>5, <1>7, <1>8 DEF Follows, StepFits
<1>10. PICK s0 : s0 = SeriesOf(c)
  OBVIOUS
<1>11. Own(c, r.doc) /\ Alike(r.doc, r.rev) /\ rev[r.doc].vs = s0 /\ r.doc \in V!Created
  BY <1>2, <1>4, <1>5, <1>10 DEF KnowsTodo, Own, ArchiveCalls
<1>12. /\ \A d : d # r.doc => rev'[d] = rev[d]
       /\ rev'[r.doc] = r.rev /\ r.rev.vs = s0
  <2>1. rev \in [Doc -> V!Revision \cup {Absent}] /\ r.doc \in Doc
    BY <1>11 DEF V!Created, Typed, Stored
  <2>2. \A d \in Doc : rev'[d] = IF d = r.doc THEN r.rev ELSE rev[d]
    BY <1>2, <2>1
  <2>3. \A d : d \notin Doc => rev'[d] = rev[d]
    BY <1>2, <2>1
  <2>4. QED  BY <1>11, <2>1, <2>2, <2>3 DEF Alike
<1>13. \A d : Held(d)' = Held(d)
  BY <1>3 DEF Held
<1>14. \A s \in Series : s # s0 => Untouched(s)
  <2>1. PICK e : e = r.doc
    OBVIOUS
  <2>2. \A d \in Doc : d # e => /\ rev'[d] = rev[d] /\ (d \in live' <=> d \in live)
                                /\ (d \in attached' <=> d \in attached)
                                /\ Held(d)' = Held(d)
    BY <1>2, <1>3, <1>12, <1>13, <2>1
  <2>3. rev'[e].vs = s0
    BY <1>12, <2>1
  <2>4. QED  BY <2>2, <2>3, Elsewhere
<1>15. \A d : Droppers(d) \subseteq Droppers(d)'
  BY <1>1, <1>3, <1>8, DroppersStay DEF Dropping
<1>16. ASSUME Tidy(s0), Aware(c)  PROVE Tidy(s0)' /\ Aware(x)'
  <2>1. c.todo \subseteq records
    BY <1>3, <1>5, <1>16 DEF Aware, KnowsRestored
  <2>2. Standing' = Standing
    BY <1>2, <1>3, <2>1 DEF Standing
  <2>3. r.rev.latest = rev[r.doc].latest
    BY <1>2, <1>11, <1>16, <2>1 DEF Tidy, TrueRecords
  <2>4. \A d : rev'[d].vs = rev[d].vs /\ rev'[d].latest = rev[d].latest
    BY <1>11, <1>12, <2>3
  <2>5. OneLatest(s0)'
    BY <1>16, <2>2, <2>4 DEF Tidy, OneLatest
  <2>6. OneRecord(s0)'
    BY <1>3, <1>16, <2>4 DEF Tidy, OneRecord
  <2>7. r.doc \notin attached
    BY <1>2, <1>11, <1>16 DEF Tidy, NoStrays
  <2>8. TrueRecords(s0)'
    BY <1>2, <1>3, <1>15, <1>16, <2>4, <2>7 DEF Tidy, TrueRecords
  <2>9. NoStrays(s0)'
    BY <1>2, <1>3, <1>16, <2>4 DEF Tidy, NoStrays
  <2>10. Held(r.doc)' \subseteq {r}
    BY <1>2, <1>3, <1>11, <1>16, <2>1 DEF Tidy, OneRecord, Held
  <2>11. KnowsRestored(x)'
    BY <1>2, <1>3, <1>9, <2>1, <2>7, <2>10 DEF KnowsRestored
  <2>12. KnowsFormer(x)' /\ KnowsMade(x)' /\ KnowsRemoved(x)'
    BY <1>9 DEF KnowsFormer, KnowsMade, KnowsRemoved, Versioning, Creating, Deleting
  <2>13. QED  BY <2>5, <2>6, <2>8, <2>9, <2>11, <2>12 DEF Tidy, Aware
<1>17. QED  BY <1>1, <1>3, <1>4, <1>8, <1>9, <1>10, <1>14, <1>16, OrderlyWork

LEMMA OrderedAttach ==
  ASSUME Typed, Typed', Grows, Ordered, NEW u \in User, Attach(u)
  PROVE  Ordered'
<1>1. PICK c : c = call[u]
  OBVIOUS
<1>2. /\ c.step = "attach" /\ attached' = attached \cup {c.at} /\ Continues(u, c)
      /\ UNCHANGED <<live, rev, records, mixed>>
  BY <1>1 DEF Attach, Goes, Fine
<1>3. /\ Works(u) /\ c.op \in DOMAIN After /\ c.step \in DOMAIN After[c.op]
      /\ KnowsDocs(c) /\ KnowsPlace(c)
  BY <1>1, <1>2, AtWork
<1>4. PICK x : /\ call' = [call EXCEPT ![u] = x]
               /\ (x = Rest /\ StepFits(c.op, c.step, "end")) \/ Follows(x, c)
  BY <1>2, <1>3, StepMade DEF Typed
<1>5. Follows(x, c) /\ x.step = "drop" /\ c.op = "restore"
  BY <1>2, <1>4 DEF Follows, StepFits
<1>6. PICK s0 : s0 = SeriesOf(c)
  OBVIOUS
<1>7. Own(c, c.at) /\ rev[c.at].vs = s0
  BY <1>2, <1>3, <1>5, <1>6 DEF KnowsDocs, KnowsPlace, Own
<1>8. \A d : Held(d)' = Held(d)
  BY <1>2 DEF Held
<1>9. \A s \in Series : s # s0 => Untouched(s)
  BY <1>2, <1>7, <1>8, Elsewhere
<1>10. \A d : Droppers(d) \subseteq Droppers(d)'
  BY <1>1, <1>2, <1>4, DroppersStay DEF Dropping
<1>11. Droppers(c.at)' # {}
  <2>1. Dropping(x, c.at)
    BY <1>5 DEF Dropping, Follows
  <2>2. u \in Droppers(c.at)'
    <3>1. Shift(u, x, c.at)
      BY <1>4, Duties DEF Typed, Calling
    <3>2. QED  BY <2>1, <3>1 DEF Shift
  <2>3. QED  BY <2>2
<1>12. ASSUME Tidy(s0), Aware(c)  PROVE Tidy(s0)' /\ Aware(x)'
  <2>1. /\ c.todo \subseteq records /\ Held(c.at) \subseteq {c.record}
        /\ c.record \notin c.todo /\ c.at \in live
    BY <1>2, <1>5, <1>12 DEF Aware, KnowsRestored
  <2>2. Standing' = Standing
    BY <1>2 DEF Standing
  <2>3. OneLatest(s0)' /\ OneRecord(s0)'
    BY <1>2, <1>12, <2>2 DEF Tidy, OneLatest, OneRecord
  <2>4. TrueRecords(s0)'
    BY <1>2, <1>10, <1>11, <1>12 DEF Tidy, TrueRecords
  <2>5. NoStrays(s0)'
    BY <1>2, <1>12, <2>1 DEF Tidy, NoStrays
  <2>6. KnowsRestored(x)'
    BY <1>2, <1>5, <1>8, <2>1 DEF KnowsRestored, Follows
  <2>7. KnowsFormer(x)' /\ KnowsMade(x)' /\ KnowsRemoved(x)'
    BY <1>5
       DEF KnowsFormer, KnowsMade, KnowsRemoved, Follows, Versioning, Creating, Deleting
  <2>8. QED  BY <2>3, <2>4, <2>5, <2>6, <2>7 DEF Tidy, Aware
<1>13. QED  BY <1>1, <1>2, <1>3, <1>4, <1>5, <1>6, <1>9, <1>12, OrderlyWork DEF Follows

\* A record goes; what it was to be dropped for is done.
LEMMA TidyDropped ==
  ASSUME Typed, UNCHANGED <<live, rev, attached>>, records' \subseteq records, NEW s,
         Tidy(s), \A d \in Doc : Droppers(d) \subseteq Droppers(d)' \/ Held(d)' = {}
  PROVE  Tidy(s)'
<1>1. Standing' \subseteq Standing
  BY DEF Standing
<1>2. OneLatest(s)' /\ OneRecord(s)' /\ NoStrays(s)'
  BY <1>1 DEF Tidy, OneLatest, OneRecord, NoStrays
<1>3. ASSUME NEW r \in records', rev[r.doc].vs = s, r.doc \in live, r.doc \in attached
      PROVE  Droppers(r.doc)' # {}
  <2>1. r.doc \in Doc /\ Droppers(r.doc) # {} /\ r \in Held(r.doc)'
    BY <1>3, StandingCreated, HeldThen DEF V!Created, Tidy, TrueRecords
  <2>2. QED  BY <2>1
<1>4. TrueRecords(s)'
  BY <1>3 DEF Tidy, TrueRecords
<1>5. QED  BY <1>2, <1>4 DEF Tidy

\* What a call is about to do once it has dropped a record.
LEMMA DropGoesOn ==
  ASSUME Typed, Typed', NEW u \in User, NEW c, c = call[u], c.step = "drop",
         NEW y, y.op = c.op, y.step = c.step, y.doc = c.doc, y.made = c.made,
         DropHalf(u) \/ Continues(u, y)
  PROVE  \E x : /\ call' = [call EXCEPT ![u] = x]
                /\ x.op = c.op /\ x.doc = c.doc /\ x.made = c.made
                /\ \/ x.step = "over"
                   \/ x.step \in {"revive", "drop"} /\ x.todo = y.todo
                      /\ (x.op = "restore" => x.step = "revive")
<1>1. c \in Call /\ c.op \in DOMAIN After /\ c.step \in DOMAIN After[c.op]
  BY AtWork
<1>2. CASE DropHalf(u)
  <2>1. PICK x : x = [c EXCEPT !.step = "over"]
    OBVIOUS
  <2>2. call' = [call EXCEPT ![u] = x]
    BY <1>2, <2>1 DEF DropHalf, Typed, Calling
  <2>3. x.op = c.op /\ x.doc = c.doc /\ x.made = c.made /\ x.step = "over"
    BY <1>1, <2>1 DEF Call
  <2>4. QED  BY <2>2, <2>3
<1>3. CASE ~DropHalf(u)
  <2>1. Continues(u, y)
    BY <1>3
  <2>2. PICK x : /\ call' = [call EXCEPT ![u] = x]
                 /\ (x = Rest /\ StepFits(y.op, y.step, "end")) \/ Follows(x, y)
    BY <1>1, <2>1, StepMade DEF Typed
  <2>3. Follows(x, y)
    BY <2>1, <2>2 DEF StepFits
  <2>4. x.step \in {"revive", "drop"} /\ (x.op = "restore" => x.step = "revive")
    BY <2>1, <2>3 DEF Follows, StepFits
  <2>5. QED  BY <2>1, <2>2, <2>3, <2>4 DEF Follows
<1>4. QED  BY <1>2, <1>3

LEMMA OrderedDrop ==
  ASSUME Typed, Typed', Grows, Ordered, NEW u \in User, Drop(u) \/ DropHalf(u)
  PROVE  Ordered'
<1>1. PICK c : c = call[u]
  OBVIOUS
<1>2. c.step = "drop" /\ UNCHANGED <<live, rev, attached, mixed>>
  BY <1>1 DEF Drop, DropHalf, Goes, Fine
<1>3. /\ Works(u) /\ c \in Call /\ c.op \in DOMAIN After /\ c.step \in DOMAIN After[c.op]
      /\ KnowsDocs(c) /\ KnowsPlace(c) /\ KnowsTodo(c)
  BY <1>1, <1>2, AtWork
<1>4. c.op \in ArchiveCalls
  BY <1>1, <1>2, Underway DEF StepFits
<1>5. PICK r \in Droppable(c) :
           /\ records' = records \ {r}
           /\ \/ Continues(u, [c EXCEPT !.todo = @ \ {r}])
              \/ DropHalf(u)
  BY <1>1 DEF Drop, DropHalf
<1>6. /\ c.op = "restore" => r = c.record /\ r.doc = c.at
      /\ c.op # "restore" => r \in c.todo
  BY <1>2, <1>3, <1>5 DEF Droppable, Doomed, KnowsPlace
<1>7. PICK s0 : s0 = SeriesOf(c)
  OBVIOUS
<1>8. Own(c, r.doc) /\ rev[r.doc].vs = s0
  BY <1>2, <1>3, <1>4, <1>6, <1>7 DEF KnowsDocs, KnowsPlace, KnowsTodo, Own
<1>9. \A d \in Doc : d # r.doc => Held(d)' = Held(d)
  BY <1>5 DEF Held
<1>10. \A s \in Series : s # s0 => Untouched(s)
  BY <1>2, <1>8, <1>9, Elsewhere
<1>11. PICK x : /\ call' = [call EXCEPT ![u] = x]
                /\ x.op = c.op /\ x.doc = c.doc /\ x.made = c.made
                /\ \/ x.step = "over"
                   \/ x.step \in {"revive", "drop"} /\ x.todo = c.todo \ {r}
                      /\ (x.op = "restore" => x.step = "revive")
  <2>1. PICK y : y = [c EXCEPT !.todo = @ \ {r}]
    OBVIOUS
  <2>2. /\ y.op = c.op /\ y.step = c.step /\ y.doc = c.doc /\ y.made = c.made
        /\ y.todo = c.todo \ {r}
    BY <1>3, <2>1 DEF Call
  <2>3. DropHalf(u) \/ Continues(u, y)
    BY <1>5, <2>1
  <2>4. QED  BY <1>1, <1>2, <2>2, <2>3, DropGoesOn
<1>12. ASSUME Tidy(s0), Aware(c)  PROVE Tidy(s0)' /\ Aware(x)'
  <2>1. ASSUME NEW d \in Doc  PROVE Droppers(d) \subseteq Droppers(d)' \/ Held(d)' = {}
    <3>1. CASE Dropping(c, d)
      <4>1. c.op = "restore" /\ c.at = d
        BY <3>1 DEF Dropping
      <4>2. Held(d) \subseteq {r}
        BY <1>2, <1>6, <1>12, <4>1 DEF Aware, KnowsRestored
      <4>3. QED  BY <1>5, <4>2 DEF Held
    <3>2. CASE ~Dropping(c, d)
      BY <1>1, <1>11, <3>2, DroppersStay
    <3>3. QED  BY <3>1, <3>2
  <2>2. Tidy(s0)'
    BY <1>2, <1>5, <1>12, <2>1, TidyDropped
  <2>3. KnowsRestored(x)'
    BY <1>2, <1>5, <1>11, <1>12 DEF Aware, KnowsRestored
  <2>4. KnowsFormer(x)' /\ KnowsMade(x)' /\ KnowsRemoved(x)'
    BY <1>4, <1>11
       DEF KnowsFormer, KnowsMade, KnowsRemoved, Versioning, Creating, Deleting, ArchiveCalls
  <2>5. QED  BY <2>2, <2>3, <2>4 DEF Aware
<1>13. QED  BY <1>1, <1>2, <1>3, <1>7, <1>10, <1>11, <1>12, OrderlyWork

-----------------------------------------------------------------------------

LEMMA OrderedSendsAny ==
  ASSUME Typed, Typed', Grows, Ordered, NEW u \in User, SendsAny(u)
  PROVE  Ordered'
BY OrderedWaits, OrderedSendCreate, OrderedSendSaveVersion, OrderedSendArchiveCall
   DEF SendsAny

LEMMA OrderedAdvances ==
  ASSUME Guided, Admin = {}, Typed, Typed', Grows, Ordered, NEW u \in User,
         Advances(u) \/ Fail(u)
  PROVE  "restore" \in failed' \/ Ordered'
<1>1. CASE Refuse(u) \/ LockLatest(u) \/ ReadLock(u) \/ AllRead(u)
  BY <1>1, OrderedWaits
<1>2. CASE Fail(u) \/ SupersedeFails(u) \/ ResaveFails(u) \/ PromoteFails(u)
           \/ DetachFails(u) \/ RemovalFails(u) \/ RestoreFails(u)
  BY <1>2, OrderedFails
<1>3. CASE Admit(u) \/ Supersede(u) \/ Create(u) \/ Name(u) \/ Resave(u)
           \/ ResaveFormer(u) \/ Remove(u) \/ Clear(u) \/ Latest(u)
  BY <1>3, OrderedAdmit, OrderedSupersede, OrderedCreate, OrderedName, OrderedResave,
     OrderedResaveFormer, OrderedRemove, OrderedLatest
<1>4. CASE Detach(u) \/ DetachEnds(u) \/ Rewrite(u) \/ Archive(u) \/ Promote(u)
           \/ Revive(u) \/ Attach(u) \/ Drop(u) \/ DropHalf(u) \/ LoopEnds(u)
  BY <1>4, OrderedDetach, OrderedDetachEnds, OrderedRewrite, OrderedArchive,
     OrderedPromote, OrderedRevive, OrderedAttach, OrderedDrop, OrderedLoopEnds
<1>5. Advances(u) \/ Fail(u)
  OBVIOUS
<1>6. QED
  BY <1>1, <1>2, <1>3, <1>4, <1>5 DEF Advances, AdvancesVersion, AdvancesRemoval

\* A restore that has failed is never forgotten.
LEMMA FailuresStay ==
  ASSUME NEW u \in User, SendsAny(u) \/ Advances(u) \/ Fail(u)
  PROVE  failed \subseteq failed'
<1>1. SendsAny(u) => failed' = failed
  BY DEF SendsAny, SendCreate, Send, SendSaveVersion, SendArchiveCall, SendGetAllVersions
<1>2. AdvancesVersion(u) => failed \subseteq failed'
  BY DEF AdvancesVersion, Supersede, SupersedeFails, Create, Name, Resave, ResaveFormer,
         ResaveFails, Remove, Clear, Latest, LockLatest, Writes, Fine, Throws
<1>3. AdvancesRemoval(u) => failed \subseteq failed'
  BY DEF AdvancesRemoval, Detach, DetachEnds, DetachFails, Rewrite, Archive, RemovalFails,
         Promote, PromoteFails, Revive, Attach, Drop, DropHalf, LoopEnds, RestoreFails,
         Writes, Fine, Throws
<1>4. Refuse(u) \/ Admit(u) \/ ReadLock(u) \/ AllRead(u) => failed' = failed
  BY DEF Refuse, Admit, ReadLock, AllRead, Fine
<1>5. Fail(u) => failed \subseteq failed'
  BY DEF Fail, Throws
<1>6. QED  BY <1>1, <1>2, <1>3, <1>4, <1>5 DEF Advances

LEMMA OrderlyInit == Init => AllOrderly
<1>1. SUFFICES ASSUME Init, NEW s \in Series PROVE Orderly(s)
  BY DEF AllOrderly
<1>2. \A u \in User : ~Serves(u, s)
  BY <1>1 DEF Init, Serves, Works, Rest
<1>3. Alone(s) /\ \A u \in User : Serves(u, s) => Aware(call[u])
  BY <1>2 DEF Alone
<1>4. Standing = {} /\ records = {} /\ attached = {}
  BY <1>1 DEF Init, Standing
<1>5. Tidy(s)
  BY <1>4 DEF Tidy, OneLatest, OneRecord, TrueRecords, NoStrays
<1>6. QED  BY <1>3, <1>5 DEF Orderly

LEMMA OrderlyStutters == AllOrderly /\ UNCHANGED vars => AllOrderly'
<1>1. SUFFICES ASSUME UNCHANGED vars, NEW s, Orderly(s) PROVE Orderly(s)'
  BY DEF AllOrderly, vars
<1>2. /\ \A u, t : Serves(u, t)' <=> Serves(u, t)
      /\ \A d : Droppers(d)' = Droppers(d) /\ Held(d)' = Held(d)
      /\ Standing' = Standing
  BY <1>1 DEF vars, Serves, Works, SeriesOf, Droppers, Dropping, Held, Standing
<1>3. Alone(s)'
  BY <1>1, <1>2 DEF Orderly, Alone
<1>4. Tidy(s)'
  BY <1>1, <1>2 DEF vars, Orderly, Tidy, OneLatest, OneRecord, TrueRecords, NoStrays
<1>5. ASSUME NEW c, Aware(c)  PROVE Aware(c)'
  BY <1>1, <1>2, <1>5
     DEF vars, Aware, KnowsFormer, KnowsMade, KnowsRemoved, KnowsRestored, SeriesOf,
         V!Created
<1>6. \A u \in User : Serves(u, s)' => Aware(call[u])'
  <2>1. SUFFICES ASSUME NEW u \in User, Serves(u, s)' PROVE Aware(call[u])'
    OBVIOUS
  <2>2. PICK c : c = call[u]
    OBVIOUS
  <2>3. Aware(c)
    BY <1>1, <1>2, <2>1, <2>2 DEF Orderly
  <2>4. call'[u] = c
    BY <1>1, <2>2 DEF vars
  <2>5. QED  BY <1>5, <2>3, <2>4
<1>7. QED  BY <1>3, <1>4, <1>6 DEF Orderly

\* OneLatestUnlessMixed: with guided clients and no administrator (for whom
\* constraintVersioning is not asked), a series that no two calls have worked
\* on at the same time never has two latest versions, at any step of any call,
\* until a restore fails.
THEOREM OneVersionIsLatest ==
  ASSUME Guided, Admin = {}  PROVE Spec => []OneLatestUnlessMixed
<1>1. Init => AllOrderly
  BY OrderlyInit
<1>2. Typed /\ Typed' /\ AllOrderly /\ [Next]_vars => AllOrderly'
  <2>1. SUFFICES ASSUME Typed, Typed', AllOrderly, [Next]_vars PROVE AllOrderly'
    OBVIOUS
  <2>2. CASE UNCHANGED vars
    BY <2>1, <2>2, OrderlyStutters
  <2>3. CASE Next
    <3>1. PICK u \in User : SendsAny(u) \/ Advances(u) \/ Fail(u)
      BY <2>3 DEF Next
    <3>2. Grows
      BY <2>1, <2>3, TypedNextStep
    <3>3. CASE "restore" \in failed
      BY <3>1, <3>3, FailuresStay DEF AllOrderly
    <3>4. CASE "restore" \notin failed
      <4>1. Ordered
        BY <2>1, <3>4 DEF AllOrderly, Ordered
      <4>2. "restore" \in failed' \/ Ordered'
        BY <2>1, <3>1, <3>2, <4>1, OrderedSendsAny, OrderedAdvances
      <4>3. QED  BY <4>2 DEF AllOrderly, Ordered
    <3>5. QED  BY <3>3, <3>4
  <2>4. QED  BY <2>1, <2>2, <2>3
<1>3. Typed /\ AllOrderly => OneLatestUnlessMixed
  <2>1. SUFFICES ASSUME Typed, AllOrderly, "restore" \notin failed, NEW d \in live,
                        NEW e \in live, rev[d].vs = rev[e].vs, rev[d].latest,
                        rev[e].latest, rev[d].vs \notin mixed
                 PROVE  d = e
    BY DEF OneLatestUnlessMixed
  <2>2. PICK s : s = rev[d].vs
    OBVIOUS
  <2>3. s \in Series
    BY <2>1, <2>2 DEF Typed, Stored, Alike, V!Revision
  <2>4. OneLatest(s)
    BY <2>1, <2>2, <2>3 DEF AllOrderly, Orderly, Tidy
  <2>5. d \in Standing /\ e \in Standing
    BY DEF Standing
  <2>6. QED  BY <2>1, <2>2, <2>4, <2>5 DEF OneLatest
<1>4. QED  BY <1>1, <1>2, <1>3, TypedAlways, PTL DEF Spec

-----------------------------------------------------------------------------
(***************************************************************************)
(* The PWC a series names                                                  *)
(***************************************************************************)

\* The PWCs of a series that are there, or that a restore can bring back.
Pwcs(s) == {d \in Standing : rev[d].vs = s /\ rev[d].pwc}

\* Call c is about to name document d, or has it in two places for a while.
Naming(c, d) == c.step = "name" /\ c.new = d
InHand(c, d) ==
  /\ c.at = d
  /\ \/ c.op \in Deleting /\ c.step = "remove"
     \/ c.op = "restore" /\ c.step \in {"attach", "drop"}

\* PWC d of series s, when c is the only call at work on the series.
Named(s, d) == series[s].out /\ series[s].id = d

Fits(c, s, d) ==
  /\ Named(s, d) \/ Naming(c, d)
  /\ d \in live /\ Held(d) # {} => InHand(c, d)
  /\ Held(d) # {} => shelved[d] > 0
  /\ \A r, q \in Held(d) : r = q

AllFit(c, s) == \A d \in Pwcs(s) : Fits(c, s, d)

\* What that call knows.
Mindful(c, s) ==
  /\ c.step = "create" /\ c.op \in {"createPwc", "checkOut"} => Pwcs(s) = {}
  /\ c.step = "name" => Pwcs(s) \subseteq {c.new}
  /\ c.step = "remove" /\ c.op \in Returning => c.doc \in live /\ Held(c.doc) = {}
  /\ c.step = "clear" => Pwcs(s) = {}
  /\ c.step \in {"rewrite", "archive"} /\ c.op \in Deleting /\ rev[c.at].pwc =>
       Held(c.at) = {} /\ shelved[c.at] > 0
  /\ c.step \in {"revive", "attach", "drop"} => c.todo \subseteq records
  /\ c.step \in {"attach", "drop"} /\ c.op = "restore" =>
       c.record \notin c.todo /\ (rev[c.at].pwc => Held(c.at) \subseteq {c.record})

\* The steps at which there is nothing to know.
Careless(c) ==
  /\ c.step \notin {"name", "remove", "clear", "revive", "attach", "drop"}
  /\ c.step = "create" => c.op \notin {"createPwc", "checkOut"}
  /\ c.step \in {"rewrite", "archive"} => c.op \notin Deleting

LEMMA CarelessMinds == ASSUME NEW c, Careless(c), NEW s PROVE Mindful(c, s)'
BY DEF Careless, Mindful

\* A series is settled for the one call at work on it, or for none.
Settled(s) ==
  /\ Alone(s)
  /\ \A u \in User : Serves(u, s) => AllFit(call[u], s) /\ Mindful(call[u], s)
  /\ (\A u \in User : ~Serves(u, s)) => AllFit(Rest, s)

AllSettled == \A s \in Series \ mixed : Settled(s)

\* A step leaves the documents, the records and the node of a series alone,
\* apart from flags of the documents.
Spares(s) ==
  /\ \A d \in V!Created :
       rev[d].vs = s => /\ d \in live' <=> d \in live
                        /\ Held(d)' = Held(d) /\ shelved'[d] = shelved[d]
  /\ \A d \in V!Created' : rev'[d].vs = s => d \in V!Created
  /\ series'[s] = series[s]

LEMMA PwcsSpared ==
  ASSUME Typed, Typed', Grows, NEW s, Spares(s)
  PROVE  /\ Pwcs(s)' = Pwcs(s)
         /\ \A d \in Pwcs(s) : /\ d \in live' <=> d \in live
                               /\ Held(d)' = Held(d) /\ shelved'[d] = shelved[d]
<1>1. Standing \subseteq V!Created /\ Standing' \subseteq V!Created'
  BY StandingCreated DEF Typed, Stored, Filed, Alike, Standing
<1>2. \A d : d \in Standing <=> d \in live \/ Held(d) # {}
  BY DEF Standing, Held
<1>3. \A d : d \in Standing' <=> d \in live' \/ Held(d)' # {}
  BY DEF Standing, Held
<1>4. \A d \in V!Created :
        /\ d \in V!Created' /\ rev'[d].vs = rev[d].vs /\ rev'[d].pwc = rev[d].pwc
  BY DEF Grows
<1>5. ASSUME NEW d \in Pwcs(s)  PROVE d \in Pwcs(s)'
  BY <1>1, <1>2, <1>3, <1>4, <1>5 DEF Pwcs, Spares
<1>6. ASSUME NEW d \in Pwcs(s)'  PROVE d \in Pwcs(s)
  <2>1. d \in Standing' /\ rev'[d].vs = s /\ rev'[d].pwc
    BY <1>6 DEF Pwcs
  <2>2. d \in V!Created /\ rev[d].vs = s /\ rev[d].pwc
    BY <1>1, <1>4, <2>1 DEF Spares
  <2>3. QED  BY <1>2, <1>3, <2>1, <2>2 DEF Pwcs, Spares
<1>7. QED  BY <1>1, <1>5, <1>6 DEF Pwcs, Spares

LEMMA FitSpared ==
  ASSUME Typed, Typed', Grows, NEW s, Spares(s), NEW c, AllFit(c, s)
  PROVE  AllFit(c, s)'
BY PwcsSpared DEF AllFit, Fits, Spares, Named, Naming, InHand

LEMMA MindfulSpared ==
  ASSUME Typed, Typed', Grows, NEW c, Knows(c), c.op # "none", NEW s, s = SeriesOf(c),
         Spares(s), Mindful(c, s)
  PROVE  Mindful(c, s)'
<1>1. /\ c \in Call /\ KnowsDocs(c) /\ KnowsNew(c) /\ KnowsPlace(c) /\ KnowsTodo(c)
      /\ c.step \in Steps(c.op)
  BY DEF Knows
<1>2. \A d : Own(c, d) => /\ d \in live' <=> d \in live
                          /\ Held(d)' = Held(d) /\ shelved'[d] = shelved[d]
                          /\ rev'[d].pwc = rev[d].pwc
  BY DEF Own, Spares, Grows
<1>3. Pwcs(s)' = Pwcs(s)
  BY PwcsSpared
<1>4. c.step = "remove" /\ c.op \in Returning => Own(c, c.doc)
  BY <1>1 DEF KnowsDocs, Returning, Creating
<1>5. c.step \in {"rewrite", "archive"} /\ c.op \in Deleting => Own(c, c.at)
  BY <1>1 DEF KnowsDocs, KnowsPlace
<1>6. c.step \in {"attach", "drop"} /\ c.op = "restore" => Own(c, c.at)
  BY <1>1 DEF KnowsDocs, KnowsPlace
<1>7. c.step \in {"revive", "attach", "drop"} => \A r \in c.todo : Own(c, r.doc)
  <2>1. c.step \in {"revive", "attach", "drop"} => c.op \in ArchiveCalls
    BY <1>1 DEF Call, Steps, After, ArchiveCalls
  <2>2. QED  BY <1>1, <2>1 DEF KnowsTodo
<1>8. c.step \in {"revive", "attach", "drop"} /\ c.todo \subseteq records
        => c.todo \subseteq records'
  BY <1>2, <1>7, HeldBy, HeldThen
<1>9. QED  BY <1>2, <1>3, <1>4, <1>5, <1>6, <1>8 DEF Mindful

\* A call that does not work on a series takes a step that spares it.
LEMMA SettledElsewhere ==
  ASSUME Typed, Typed', Grows, NEW u \in User, NEW x, call' = [call EXCEPT ![u] = x],
         NEW s, Settled(s), Spares(s), ~Serves(u, s), ~Serves(u, s)'
  PROVE  Settled(s)'
<1>1. \A v \in User : (Serves(v, s)' <=> Serves(v, s)) /\ (v # u => call'[v] = call[v])
  BY OtherCalls
<1>2. Alone(s)'
  BY <1>1 DEF Alone, Settled
<1>3. ASSUME NEW v \in User, Serves(v, s)'  PROVE (AllFit(call[v], s) /\ Mindful(call[v], s))'
  <2>1. v # u /\ Serves(v, s) /\ call'[v] = call[v]
    BY <1>1, <1>3
  <2>2. PICK c : c = call[v]
    OBVIOUS
  <2>3. /\ Knows(c) /\ c.op # "none" /\ SeriesOf(c) = s
        /\ AllFit(c, s) /\ Mindful(c, s)
    BY <2>1, <2>2, Serving DEF Serves, Settled
  <2>4. AllFit(c, s)' /\ Mindful(c, s)'
    BY <2>3, FitSpared, MindfulSpared
  <2>5. QED  BY <2>1, <2>2, <2>4
<1>4. ASSUME \A v \in User : ~Serves(v, s)'  PROVE AllFit(Rest, s)'
  <2>1. \A v \in User : ~Serves(v, s)
    BY <1>1, <1>4
  <2>2. PICK c : c = Rest
    OBVIOUS
  <2>3. AllFit(c, s)
    BY <2>1, <2>2 DEF Settled
  <2>4. AllFit(c, s)'
    BY <2>3, FitSpared
  <2>5. Rest' = Rest
    BY DEF Rest
  <2>6. QED  BY <2>2, <2>4, <2>5
<1>5. QED  BY <1>2, <1>3, <1>4 DEF Settled

\* The only call that works on a series takes a step.
LEMMA SettledHere ==
  ASSUME Typed, Grows, NEW u \in User, NEW x, call' = [call EXCEPT ![u] = x],
         NEW s, \A v \in User \ {u} : ~Serves(v, s), AllFit(x, s)',
         IF Serves(u, s)' THEN Mindful(x, s)' ELSE AllFit(Rest, s)'
  PROVE  Settled(s)'
<1>1. \A v \in User : Serves(v, s)' => v = u
  BY OtherCalls
<1>2. call'[u] = x
  BY DEF Typed, Calling
<1>3. Alone(s)'
  BY <1>1 DEF Alone
<1>4. \A v \in User : Serves(v, s)' => (AllFit(call[v], s) /\ Mindful(call[v], s))'
  BY <1>1, <1>2
<1>5. (\A v \in User : ~Serves(v, s)') => AllFit(Rest, s)'
  OBVIOUS
<1>6. QED  BY <1>3, <1>4, <1>5 DEF Settled

\* A call at work takes a step.
LEMMA SettledWork ==
  ASSUME Typed, Typed', Grows, AllSettled, NEW u \in User, Works(u), NEW c, c = call[u],
         NEW x, call' = [call EXCEPT ![u] = x],
         x = Rest \/ (x.doc = c.doc /\ (x.made = c.made \/ c.doc # NoDoc)),
         mixed \subseteq mixed', NEW s0, s0 = SeriesOf(c),
         \A s \in Series : s # s0 => Spares(s),
         AllFit(c, s0) /\ Mindful(c, s0) =>
           /\ AllFit(x, s0)' /\ (x # Rest => Mindful(x, s0)')
           /\ ~Works(u)' => AllFit(Rest, s0)'
  PROVE  AllSettled'
<1>1. Serves(u, s0) /\ s0 \in Series /\ \A s : s # s0 => ~Serves(u, s)
  BY Serving DEF Serves
<1>2. call \in [User -> Call] /\ call'[u] = x
  BY DEF Typed, Calling
<1>3. x # Rest => SeriesOf(x)' = s0
  <2>1. c.doc # NoDoc => c.doc \in V!Created
    BY Serving DEF KnowsDocs, Own
  <2>2. QED  BY <2>1 DEF SeriesOf, Grows
<1>4. ASSUME NEW s \in Series, s # s0  PROVE ~Serves(u, s)'
  BY <1>2, <1>3, <1>4, RestServes DEF Serves
<1>5. ASSUME NEW s \in Series \ mixed', s # s0  PROVE Settled(s)'
  BY <1>1, <1>4, <1>5, SettledElsewhere DEF AllSettled
<1>6. ASSUME s0 \notin mixed'  PROVE Settled(s0)'
  <2>1. Alone(s0) /\ AllFit(c, s0) /\ Mindful(c, s0)
    BY <1>1, <1>6 DEF AllSettled, Settled
  <2>2. \A v \in User \ {u} : ~Serves(v, s0)
    BY <1>1, <2>1 DEF Alone
  <2>3. Serves(u, s0)' => x # Rest
    BY <1>2, RestServes
  <2>4. ~Serves(u, s0)' => ~Works(u)'
    <3>1. CASE x = Rest
      BY <1>2, <3>1, RestServes
    <3>2. CASE x # Rest
      BY <1>2, <1>3, <3>2 DEF Serves
    <3>3. QED  BY <3>1, <3>2
  <2>5. QED  BY <2>1, <2>2, <2>3, <2>4, SettledHere
<1>7. QED  BY <1>5, <1>6 DEF AllSettled

\* A call begins to work.
LEMMA SettledStart ==
  ASSUME Typed, Typed', Grows, AllSettled, NEW u \in User, ~Works(u),
         NEW x, call' = [call EXCEPT ![u] = x], Works(u)',
         NEW s0, SeriesOf(x)' = s0, mixed \subseteq mixed',
         (\E v \in User \ {u} : Serves(v, s0)) => s0 \in mixed',
         \A s \in Series : s # s0 => Spares(s),
         AllFit(Rest, s0) => AllFit(x, s0)' /\ Mindful(x, s0)'
  PROVE  AllSettled'
<1>1. \A s : ~Serves(u, s)
  BY DEF Serves
<1>2. call'[u] = x
  BY DEF Typed, Calling
<1>3. (\A s \in Series : s # s0 => ~Serves(u, s)') /\ Serves(u, s0)'
  BY <1>2 DEF Serves
<1>4. ASSUME NEW s \in Series \ mixed', s # s0  PROVE Settled(s)'
  BY <1>1, <1>3, <1>4, SettledElsewhere DEF AllSettled
<1>5. ASSUME s0 \in Series \ mixed'  PROVE Settled(s0)'
  <2>1. \A v \in User \ {u} : ~Serves(v, s0)
    BY <1>5
  <2>2. AllFit(Rest, s0)
    BY <1>1, <1>5, <2>1 DEF AllSettled, Settled
  <2>3. QED  BY <1>3, <2>1, <2>2, SettledHere
<1>6. QED  BY <1>4, <1>5 DEF AllSettled

\* A call that waits, or reads.
LEMMA SettledWaits ==
  ASSUME Typed, Typed', Grows, AllSettled, NEW u \in User, ~Works(u), ~Works(u)',
         NEW x, call' = [call EXCEPT ![u] = x], mixed \subseteq mixed',
         \A s \in Series : Spares(s)
  PROVE  AllSettled'
BY SettledElsewhere DEF AllSettled, Serves

\* A step touches one document only, or the record of one.
OnlyTouches(e) ==
  \A d \in Doc : d # e => /\ rev'[d] = rev[d] /\ (d \in live' <=> d \in live)
                          /\ Held(d)' = Held(d) /\ shelved'[d] = shelved[d]

LEMMA SparesElsewhere ==
  ASSUME Grows, NEW e, NEW s0, e \in V!Created' => rev'[e].vs = s0,
         OnlyTouches(e), NEW s, s # s0, series'[s] = series[s]
  PROVE  Spares(s)
<1>1. ASSUME NEW d \in V!Created, rev[d].vs = s
      PROVE  /\ d \in live' <=> d \in live
             /\ Held(d)' = Held(d) /\ shelved'[d] = shelved[d]
  <2>1. d # e
    BY <1>1 DEF Grows
  <2>2. QED  BY <2>1 DEF V!Created, OnlyTouches
<1>2. ASSUME NEW d \in V!Created', rev'[d].vs = s  PROVE d \in V!Created
  BY <1>2 DEF V!Created, OnlyTouches
<1>3. QED  BY <1>1, <1>2 DEF Spares

LEMMA SparesAll ==
  ASSUME UNCHANGED <<live, records, shelved, series>>, V!Created' = V!Created
  PROVE  \A s : Spares(s)
BY DEF Spares, Held

\* A series that is spared fits the call at its next step.
LEMMA FitPasses ==
  ASSUME Typed, Typed', Grows, NEW s, Spares(s), NEW c, AllFit(c, s), c.step # "name",
         NEW x, \A d \in Pwcs(s) : InHand(c, d) => InHand(x, d) \/ Held(d) = {}
  PROVE  AllFit(x, s)'
BY PwcsSpared DEF AllFit, Fits, Spares, Named, Naming, InHand

LEMMA RestFits == \A d : ~InHand(Rest, d) /\ ~Naming(Rest, d)
BY DEF InHand, Naming, Rest, Deleting

\* A call takes a step that moves nothing.
LEMMA SettledQuiet ==
  ASSUME Typed, Typed', Grows, AllSettled, NEW u \in User, Works(u), NEW c, c = call[u],
         c.step # "name", NEW x, call' = [call EXCEPT ![u] = x],
         x = Rest \/ (x.doc = c.doc /\ (x.made = c.made \/ c.doc # NoDoc)),
         mixed \subseteq mixed', UNCHANGED <<live, records, shelved, series>>,
         V!Created' = V!Created, NEW s0, s0 = SeriesOf(c),
         AllFit(c, s0) /\ Mindful(c, s0) =>
           /\ \A d \in Pwcs(s0) : InHand(c, d) => InHand(x, d) \/ Held(d) = {}
           /\ x # Rest => Mindful(x, s0)'
  PROVE  AllSettled'
<1>1. \A s : Spares(s)
  BY SparesAll
<1>2. call'[u] = x
  BY DEF Typed, Calling
<1>3. ASSUME AllFit(c, s0), Mindful(c, s0)
      PROVE  AllFit(x, s0)' /\ (~Works(u)' => AllFit(Rest, s0)')
  <2>1. AllFit(x, s0)'
    BY <1>1, <1>3, FitPasses
  <2>2. ASSUME ~Works(u)'  PROVE AllFit(Rest, s0)'
    <3>1. \A d : ~InHand(x, d)
      BY <1>2, <2>2 DEF Works, InHand, Deleting
    <3>2. PICK y : y = Rest
      OBVIOUS
    <3>3. AllFit(y, s0)'
      BY <1>1, <1>3, <3>1, FitPasses
    <3>4. Rest' = Rest
      BY DEF Rest
    <3>5. QED  BY <3>2, <3>3, <3>4
  <2>3. QED  BY <2>1, <2>2
<1>4. QED  BY <1>1, <1>3, SettledWork

\* A document is written again, and is there before and after.
LEMMA WritesCreate ==
  ASSUME Typed, Typed', NEW e, NEW r, Writes(e, r)
  PROVE  V!Created' = V!Created
<1>1. e \in live /\ live' = live /\ rev' = [rev EXCEPT ![e] = r]
  BY DEF Writes
<1>2. e \in V!Created /\ e \in V!Created'
  BY <1>1 DEF Typed, Stored
<1>3. QED  BY <1>1, <1>2 DEF V!Created, Typed, Stored

\* A step of a working call that goes on with the same document.
LEMMA SettledWrites ==
  ASSUME Typed, Typed', Grows, AllSettled, NEW u \in User, NEW c, c = call[u],
         c.step \in {"supersede", "resave", "resaveFormer", "promote"},
         NEW y, y.op = c.op, y.step = c.step, y.doc = c.doc,
         c.doc = NoDoc => y.made = c.made, Continues(u, y), NEW e, NEW r, Writes(e, r)
  PROVE  AllSettled'
<1>1. Works(u) /\ c.op \in DOMAIN After /\ c.step \in DOMAIN After[c.op]
  BY AtWork
<1>2. PICK x : /\ call' = [call EXCEPT ![u] = x]
               /\ (x = Rest /\ StepFits(y.op, y.step, "end")) \/ Follows(x, y)
  BY <1>1, StepMade DEF Typed
<1>3. V!Created' = V!Created
  BY WritesCreate
<1>4. UNCHANGED <<live, records, shelved, series, mixed>>
  BY DEF Writes, Fine
<1>5. \A d : ~InHand(c, d)
  BY DEF InHand
<1>6. ASSUME x # Rest, NEW s  PROVE Mindful(x, s)'
  <2>1. /\ x.step \in {"create", "resaveFormer", "latest", "end"}
        /\ x.step = "create" => x.op \in Versioning
    BY <1>2, <1>6 DEF Follows, StepFits
  <2>2. QED  BY <2>1, CarelessMinds DEF Careless, Versioning
<1>7. x = Rest \/ (x.doc = c.doc /\ (x.made = c.made \/ c.doc # NoDoc))
  BY <1>2 DEF Follows
<1>8. PICK s0 : s0 = SeriesOf(c)
  OBVIOUS
<1>9. QED  BY <1>1, <1>2, <1>3, <1>4, <1>5, <1>6, <1>7, <1>8, SettledQuiet

LEMMA SettledVersions ==
  ASSUME Typed, Typed', Grows, AllSettled, NEW u \in User,
         Supersede(u) \/ Resave(u) \/ ResaveFormer(u) \/ Promote(u)
  PROVE  AllSettled'
<1>1. PICK c : c = call[u]
  OBVIOUS
<1>2. c.step \in {"supersede", "resave", "resaveFormer", "promote"}
  BY <1>1 DEF Supersede, Resave, ResaveFormer, Promote, Goes
<1>3. c \in Call /\ c.op \in DOMAIN After /\ KnowsDocs(c)
      /\ StepFits(c.op, c.step, After[c.op][c.step])
  BY <1>1, <1>2, Underway
<1>4. CASE ~Supersede(u)
  <2>1. Continues(u, c) /\ \E e, r : Writes(e, r)
    BY <1>1, <1>4 DEF Resave, ResaveFormer, Promote
  <2>2. QED  BY <1>1, <1>2, <2>1, SettledWrites
<1>5. CASE Supersede(u)
  <2>1. PICK k, m : /\ Continues(u, [c EXCEPT !.copy = k, !.made = m])
                    /\ \E e, r : Writes(e, r)
    BY <1>1, <1>5 DEF Supersede
  <2>2. PICK y : y = [c EXCEPT !.copy = k, !.made = m]
    OBVIOUS
  <2>3. y.op = c.op /\ y.step = c.step /\ y.doc = c.doc
    BY <1>3, <2>2 DEF Call
  <2>4. c.doc # NoDoc
    BY <1>1, <1>3, <1>5 DEF Supersede, Goes, StepFits, KnowsDocs, Versioning, Creating
  <2>5. QED  BY <1>1, <1>2, <2>1, <2>2, <2>3, <2>4, SettledWrites
<1>6. QED  BY <1>4, <1>5

LEMMA SettledRewrite ==
  ASSUME Typed, Typed', Grows, AllSettled, NEW u \in User, Rewrite(u)
  PROVE  AllSettled'
<1>1. PICK c : c = call[u]
  OBVIOUS
<1>2. c.step = "rewrite" /\ Continues(u, c) /\ \E r : Writes(c.at, r)
  BY <1>1 DEF Rewrite, Goes
<1>3. /\ Works(u) /\ c.op \in DOMAIN After /\ c.step \in DOMAIN After[c.op]
      /\ KnowsDocs(c) /\ KnowsPlace(c)
  BY <1>1, <1>2, AtWork
<1>4. PICK x : /\ call' = [call EXCEPT ![u] = x]
               /\ (x = Rest /\ StepFits(c.op, c.step, "end")) \/ Follows(x, c)
  BY <1>2, <1>3, StepMade DEF Typed
<1>5. V!Created' = V!Created
  BY <1>2, WritesCreate
<1>6. UNCHANGED <<live, records, shelved, series, mixed>>
  BY <1>2 DEF Writes, Fine
<1>7. \A d : ~InHand(c, d)
  BY <1>2 DEF InHand
<1>8. PICK s0 : s0 = SeriesOf(c)
  OBVIOUS
<1>9. ASSUME x # Rest, Mindful(c, s0)  PROVE Mindful(x, s0)'
  <2>1. /\ x.step \in {"archive", "end"} /\ x.op = c.op /\ x.at = c.at
        /\ c.op \in Deleting \cup {"restore"}
    BY <1>2, <1>4, <1>9 DEF Follows, StepFits
  <2>2. rev'[c.at].pwc = rev[c.at].pwc
    BY <1>2, <1>3 DEF KnowsPlace, KnowsDocs, Own, Grows
  <2>3. Held(c.at)' = Held(c.at) /\ shelved' = shelved
    BY <1>6 DEF Held
  <2>4. QED  BY <1>2, <1>9, <2>1, <2>2, <2>3 DEF Mindful
<1>10. x = Rest \/ (x.doc = c.doc /\ x.made = c.made)
  BY <1>4 DEF Follows
<1>11. QED
  BY <1>1, <1>2, <1>3, <1>4, <1>5, <1>6, <1>7, <1>8, <1>9, <1>10, SettledQuiet

\* A call at work ends here, and holds nothing.
LEMMA SettledStops ==
  ASSUME Typed, Typed', Grows, AllSettled, NEW u \in User, Works(u), NEW c, c = call[u],
         c.step # "name", \A d : ~InHand(c, d), Ends(u), UNCHANGED stores, UNCHANGED mixed
  PROVE  AllSettled'
<1>1. call' = [call EXCEPT ![u] = Rest] /\ UNCHANGED <<live, rev, records, shelved, series>>
  BY DEF Ends, stores
<1>2. V!Created' = V!Created
  BY <1>1 DEF V!Created
<1>3. PICK s0 : s0 = SeriesOf(c)
  OBVIOUS
<1>4. PICK x : x = Rest
  OBVIOUS
<1>5. QED  BY <1>1, <1>2, <1>3, <1>4, SettledQuiet

LEMMA SettledLatest ==
  ASSUME Typed, Typed', Grows, AllSettled, NEW u \in User, Latest(u) \/ DetachEnds(u)
  PROVE  AllSettled'
<1>1. PICK c : c = call[u]
  OBVIOUS
<1>2. c.step \in {"latest", "detach"} /\ UNCHANGED stores /\ UNCHANGED mixed
  BY <1>1 DEF Latest, DetachEnds, Goes, Fine
<1>3. /\ Works(u) /\ c \in Call /\ c.op \in DOMAIN After /\ c.step \in DOMAIN After[c.op]
  BY <1>1, <1>2, AtWork
<1>4. \A d : ~InHand(c, d)
  BY <1>2 DEF InHand
<1>5. CASE Ends(u)
  BY <1>1, <1>2, <1>3, <1>4, <1>5, SettledStops
<1>6. CASE ~Ends(u)
  <2>1. c.step = "latest" /\ \E l : Continues(u, [c EXCEPT !.former = l, !.copy = rev[l]])
    BY <1>1, <1>6 DEF Latest, DetachEnds, Goes
  <2>2. PICK l : Continues(u, [c EXCEPT !.former = l, !.copy = rev[l]])
    BY <2>1
  <2>3. PICK y : y = [c EXCEPT !.former = l, !.copy = rev[l]]
    OBVIOUS
  <2>4. y.op = c.op /\ y.step = c.step /\ y.doc = c.doc /\ y.made = c.made
    BY <1>3, <2>3 DEF Call
  <2>5. PICK x : /\ call' = [call EXCEPT ![u] = x]
                 /\ (x = Rest /\ StepFits(y.op, y.step, "end")) \/ Follows(x, y)
    BY <1>3, <2>2, <2>3, <2>4, StepMade DEF Typed
  <2>6. Follows(x, y) /\ x.step \in {"promote", "lockLatest"}
    BY <2>1, <2>4, <2>5 DEF Follows, StepFits
  <2>7. \A s : Mindful(x, s)'
    BY <2>6, CarelessMinds DEF Careless
  <2>8. UNCHANGED <<live, records, shelved, series>> /\ V!Created' = V!Created
    BY <1>2 DEF stores, V!Created
  <2>9. x.doc = c.doc /\ x.made = c.made
    BY <2>4, <2>6 DEF Follows
  <2>10. PICK s0 : s0 = SeriesOf(c)
    OBVIOUS
  <2>11. QED
    BY <1>1, <1>2, <1>3, <1>4, <2>5, <2>7, <2>8, <2>9, <2>10, SettledQuiet
<1>7. QED  BY <1>5, <1>6

LEMMA SettledLoopEnds ==
  ASSUME Typed, Typed', Grows, AllSettled, NEW u \in User, LoopEnds(u)
  PROVE  AllSettled'
<1>1. PICK c : c = call[u]
  OBVIOUS
<1>2. /\ LoopOver(u) /\ c.step \in {"revive", "attach", "drop", "over"}
      /\ UNCHANGED stores /\ UNCHANGED mixed
  BY <1>1 DEF LoopEnds, LoopOver, Goes, Fine
<1>3. Works(u) /\ c \in Call /\ KnowsPlace(c)
  BY <1>1, <1>2, AtWork
<1>4. CASE c.op # "restore"
  <2>1. \A d : ~InHand(c, d)
    BY <1>2, <1>4 DEF InHand
  <2>2. QED  BY <1>1, <1>2, <1>3, <1>4, <2>1, SettledStops DEF LoopEnds
<1>5. CASE c.op = "restore"
  <2>1. PICK x : x = [c EXCEPT !.step = "rewrite", !.at = c.doc, !.copy = rev[c.doc]]
    OBVIOUS
  <2>2. call' = [call EXCEPT ![u] = x]
    BY <1>1, <1>5, <2>1 DEF LoopEnds
  <2>3. x.op = "restore" /\ x.step = "rewrite" /\ x.doc = c.doc /\ x.made = c.made
    BY <1>3, <1>5, <2>1 DEF Call
  <2>4. \A s : Mindful(x, s)'
    BY <2>3, CarelessMinds DEF Careless, Deleting
  <2>5. PICK s0 : s0 = SeriesOf(c)
    OBVIOUS
  <2>6. ASSUME AllFit(c, s0), Mindful(c, s0), NEW d \in Pwcs(s0), InHand(c, d)
        PROVE  Held(d) = {}
    <3>1. c.at = d /\ c.step \in {"attach", "drop"}
      BY <1>2, <2>6 DEF InHand
    <3>2. CASE c.step = "attach"
      <4>1. shelved[d] = 0
        BY <1>1, <1>2, <3>1, <3>2 DEF LoopOver, Goes
      <4>2. QED  BY <2>6, <4>1 DEF AllFit, Fits
    <3>3. CASE c.step = "drop"
      <4>1. c.record \notin records
        BY <1>1, <1>2, <1>5, <3>3 DEF LoopOver, Goes, Droppable, Doomed
      <4>2. Held(d) \subseteq {c.record}
        BY <1>5, <2>6, <3>1, <3>3 DEF Mindful, Pwcs
      <4>3. QED  BY <4>1, <4>2 DEF Held
    <3>4. QED  BY <3>1, <3>2, <3>3
  <2>7. UNCHANGED <<live, records, shelved, series>> /\ V!Created' = V!Created
    BY <1>2 DEF stores, V!Created
  <2>8. QED
    BY <1>1, <1>2, <1>3, <2>2, <2>3, <2>4, <2>5, <2>6, <2>7, SettledQuiet
<1>6. QED  BY <1>4, <1>5

LEMMA SettledAttach ==
  ASSUME Typed, Typed', Grows, AllSettled, NEW u \in User, Attach(u)
  PROVE  AllSettled'
<1>1. PICK c : c = call[u]
  OBVIOUS
<1>2. /\ c.step = "attach" /\ Continues(u, c)
      /\ UNCHANGED <<live, rev, records, shelved, series, mixed>>
  BY <1>1 DEF Attach, Goes, Fine
<1>3. /\ Works(u) /\ c.op \in DOMAIN After /\ c.step \in DOMAIN After[c.op]
  BY <1>1, <1>2, AtWork
<1>4. PICK x : /\ call' = [call EXCEPT ![u] = x]
               /\ (x = Rest /\ StepFits(c.op, c.step, "end")) \/ Follows(x, c)
  BY <1>2, <1>3, StepMade DEF Typed
<1>5. Follows(x, c) /\ x.step = "drop" /\ c.op = "restore"
  BY <1>2, <1>4 DEF Follows, StepFits
<1>6. PICK s0 : s0 = SeriesOf(c)
  OBVIOUS
<1>7. \A d : InHand(c, d) => InHand(x, d)
  BY <1>2, <1>5 DEF InHand, Follows, Deleting
<1>8. ASSUME Mindful(c, s0)  PROVE Mindful(x, s0)'
  BY <1>2, <1>5, <1>8 DEF Mindful, Follows, Held
<1>9. V!Created' = V!Created
  BY <1>2 DEF V!Created
<1>10. x.doc = c.doc /\ x.made = c.made
  BY <1>5 DEF Follows
<1>11. QED
  BY <1>1, <1>2, <1>3, <1>4, <1>6, <1>7, <1>8, <1>9, <1>10, SettledQuiet

\* The calls that wait for a lock, and getAllVersions.
LEMMA SettledWaiting ==
  ASSUME Typed, Typed', Grows, AllSettled, NEW u \in User,
         \/ Refuse(u) \/ LockLatest(u) \/ ReadLock(u) \/ AllRead(u)
         \/ \E d \in Doc : \/ \E op \in Locking, isMajor \in Major : Send(u, op, d, isMajor)
                           \/ SendGetAllVersions(u, d)
  PROVE  AllSettled'
<1>1. UNCHANGED <<live, rev, records, shelved, series>> /\ mixed \subseteq mixed'
  BY DEF Refuse, LockLatest, ReadLock, AllRead, Send, SendGetAllVersions, stores, Fine
<1>2. \A s \in Series : Spares(s)
  BY <1>1, SparesAll DEF V!Created
<1>3. ~Works(u) /\ \E x : call' = [call EXCEPT ![u] = x] /\ ~Works(u)'
  BY Waiting
<1>4. QED  BY <1>1, <1>2, <1>3, SettledWaits

\* The calls that begin to work.
LEMMA SettledSendCreate ==
  ASSUME Typed, Typed', Grows, AllSettled, NEW u \in User, NEW s \in Series,
         NEW state \in V!VersioningState, SendCreate(u, s, state)
  PROVE  AllSettled'
<1>1. PICK op : op = IF state = "CHECKEDOUT" THEN "createPwc" ELSE "createDocument"
  OBVIOUS
<1>2. PICK m : m = V!FirstVersion(s, state)
  OBVIOUS
<1>3. PICK x : x = [Rest EXCEPT !.op = op, !.step = "create", !.made = m]
  OBVIOUS
<1>4. /\ Sends(u, x) /\ UNCHANGED <<live, rev, records, shelved, mixed>>
      /\ \A t \in Series : t # s => series'[t] = series[t]
  BY <1>1, <1>2, <1>3 DEF SendCreate, Typed, Stored
<1>5. call' = [call EXCEPT ![u] = x] /\ ~Works(u)
  BY <1>4 DEF Sends, Works, Rest
<1>6. m.vs = s
  BY <1>2 DEF V!FirstVersion, V!Pwc, V!Version
<1>7. x.op \in Creating /\ x.step = "create" /\ x.doc = NoDoc /\ x.made = m
  BY <1>1, <1>3 DEF Rest, Creating
<1>8. SeriesOf(x)' = s
  BY <1>6, <1>7 DEF SeriesOf
<1>9. \A v \in User : ~Serves(v, s)
  BY Serving DEF SendCreate, Serves
<1>10. \A t \in Series : t # s => Spares(t)
  BY <1>4 DEF Spares, Held, V!Created
<1>11. Pwcs(s)' = {}
  <2>1. Standing' = Standing /\ rev' = rev
    BY <1>4 DEF Standing
  <2>2. \A d \in Standing : rev[d].vs # s
    BY StandingCreated DEF SendCreate, Typed, Stored
  <2>3. QED  BY <2>1, <2>2 DEF Pwcs
<1>12. AllFit(x, s)' /\ Mindful(x, s)'
  BY <1>7, <1>11 DEF AllFit, Mindful
<1>13. Works(u)'
  <2>1. call'[u] = x
    BY <1>5 DEF Typed, Calling
  <2>2. QED  BY <1>7, <2>1 DEF Works, Creating
<1>14. QED  BY <1>4, <1>5, <1>8, <1>9, <1>10, <1>12, <1>13, SettledStart

\* What a call that is sent without a lock, or let in, finds.
LEMMA SettledStarts ==
  ASSUME Typed, Typed', Grows, AllSettled, NEW u \in User, ~Works(u),
         NEW x, call' = [call EXCEPT ![u] = x], Works(u)', NEW s0, SeriesOf(x)' = s0,
         Mixes(u, s0), UNCHANGED <<live, rev, records, shelved, series>>,
         AllFit(Rest, s0) => Mindful(x, s0)
  PROVE  AllSettled'
<1>1. mixed \subseteq mixed' /\ ((\E v \in User \ {u} : Serves(v, s0)) => s0 \in mixed')
  BY DEF Mixes, Serves
<1>2. \A s : Spares(s)
  BY SparesAll DEF V!Created
<1>3. ASSUME AllFit(Rest, s0)  PROVE AllFit(x, s0)' /\ Mindful(x, s0)'
  <2>1. PICK c : c = Rest
    OBVIOUS
  <2>2. AllFit(c, s0) /\ c.step # "name"
    BY <1>3, <2>1 DEF Rest
  <2>3. \A d : ~InHand(c, d)
    BY <2>1, RestFits
  <2>4. AllFit(x, s0)'
    BY <1>2, <2>2, <2>3, FitPasses
  <2>5. Pwcs(s0)' = Pwcs(s0)
    BY <1>2, PwcsSpared
  <2>6. Mindful(x, s0)'
    BY <1>3, <2>5 DEF Mindful, Held
  <2>7. QED  BY <2>4, <2>6
<1>4. QED  BY <1>1, <1>2, <1>3, SettledStart

LEMMA SettledSendSaveVersion ==
  ASSUME Typed, Typed', Grows, AllSettled, NEW u \in User, NEW d \in Doc,
         NEW isMajor \in Major, SendSaveVersion(u, d, isMajor)
  PROVE  AllSettled'
<1>1. PICK x : x = [Rest EXCEPT !.op = "saveVersion", !.step = "supersede", !.doc = d,
                                !.major = isMajor, !.former = d, !.copy = rev[d]]
  OBVIOUS
<1>2. PICK s0 : s0 = rev[d].vs
  OBVIOUS
<1>3. Sends(u, x) /\ UNCHANGED <<live, rev, records, shelved, series>> /\ Mixes(u, s0)
  BY <1>1, <1>2 DEF SendSaveVersion, stores
<1>4. call' = [call EXCEPT ![u] = x] /\ ~Works(u)
  BY <1>3 DEF Sends, Works, Rest
<1>5. x.op = "saveVersion" /\ x.step = "supersede" /\ x.doc = d /\ d # NoDoc
  BY <1>1 DEF Rest
<1>6. SeriesOf(x)' = s0
  BY <1>2, <1>3, <1>5 DEF SeriesOf
<1>7. Works(u)'
  <2>1. call'[u] = x
    BY <1>4 DEF Typed, Calling
  <2>2. QED  BY <1>5, <2>1 DEF Works
<1>8. Mindful(x, s0)
  BY <1>5 DEF Mindful
<1>9. QED  BY <1>3, <1>4, <1>6, <1>7, <1>8, SettledStarts

LEMMA SettledSendArchiveCall ==
  ASSUME Typed, Typed', Grows, AllSettled, NEW u \in User, NEW d \in Doc,
         NEW op \in ArchiveCalls, SendArchiveCall(u, op, d)
  PROVE  AllSettled'
<1>1. PICK s0 : s0 = rev[d].vs
  OBVIOUS
<1>2. PICK st : st = IF op = "restore" THEN "revive" ELSE "drop"
  OBVIOUS
<1>3. PICK x : x = [Rest EXCEPT !.op = op, !.doc = d, !.todo = RecordsOf(s0), !.step = st]
  OBVIOUS
<1>4. Sends(u, x) /\ UNCHANGED <<live, rev, records, shelved, series>> /\ Mixes(u, s0)
  BY <1>1, <1>2, <1>3 DEF SendArchiveCall, stores
<1>5. call' = [call EXCEPT ![u] = x] /\ ~Works(u)
  BY <1>4 DEF Sends, Works, Rest
<1>6. x.op = op /\ x.step = st /\ x.doc = d /\ x.todo = RecordsOf(s0) /\ d # NoDoc
  BY <1>3 DEF Rest
<1>7. SeriesOf(x)' = s0
  BY <1>1, <1>4, <1>6 DEF SeriesOf
<1>8. Works(u)'
  <2>1. call'[u] = x
    BY <1>5 DEF Typed, Calling
  <2>2. QED  BY <1>2, <1>6, <2>1 DEF Works, ArchiveCalls
<1>9. Mindful(x, s0)
  BY <1>2, <1>6 DEF Mindful, RecordsOf, ArchiveCalls
<1>10. QED  BY <1>4, <1>5, <1>7, <1>8, <1>9, SettledStarts

\* A PWC is checked in, or given up, once; and checkOut asks for one before it
\* makes another.
LEMMA SettledAdmit ==
  ASSUME Guided, Typed, Typed', Grows, AllSettled, NEW u \in User, Admit(u)
  PROVE  AllSettled'
<1>1. PICK c : c = call[u]
  OBVIOUS
<1>2. c.step = "lock"
  BY <1>1 DEF Admit, Goes
<1>3. /\ c \in Call /\ c.op \in DOMAIN After /\ c.step \in DOMAIN After[c.op]
      /\ StepFits(c.op, c.step, After[c.op][c.step]) /\ KnowsDocs(c) /\ KnowsLocks(c)
  BY <1>1, <1>2, Underway
<1>4. c.doc # NoDoc /\ c.doc \in V!Created
  BY <1>2, <1>3 DEF StepFits, KnowsDocs, Own, Creating, Returning, Deleting
<1>5. PICK s0 : s0 = rev[c.doc].vs
  OBVIOUS
<1>6. /\ UNCHANGED <<live, rev, records, shelved, series>> /\ Mixes(u, s0)
      /\ c.doc \in live /\ (c.op = "checkOut" /\ series[s0].out => rev[c.doc].pwc)
  BY <1>1, <1>5 DEF Admit, Accepted, stores
<1>7. PICK f, k, m, t : Admits(c, f, k, m, t) /\ Continues(u, Admitted(c, f, k, m, t))
  BY <1>1, AdmitContinues
<1>8. PICK y : y = Admitted(c, f, k, m, t)
  OBVIOUS
<1>9. y.op = c.op /\ y.step = c.step /\ y.doc = c.doc /\ Continues(u, y)
  BY <1>3, <1>7, <1>8 DEF Call, Admitted
<1>10. PICK x : /\ call' = [call EXCEPT ![u] = x]
                /\ (x = Rest /\ StepFits(y.op, y.step, "end")) \/ Follows(x, y)
  BY <1>3, <1>9, StepMade DEF Typed
<1>11. StepFits(c.op, "lock", x.step) /\ x.op = c.op /\ x.doc = c.doc
  BY <1>2, <1>9, <1>10 DEF Follows, StepFits, Returning, Deleting
<1>12. SeriesOf(x)' = s0
  BY <1>4, <1>5, <1>6, <1>11 DEF SeriesOf
<1>13. /\ x.step \in {"remove", "supersede", "create", "detach"}
       /\ x.step = "create" => c.op = "checkOut"
  BY <1>11 DEF StepFits, Returning, Deleting
<1>14. ~Works(u) /\ Works(u)'
  <2>1. call'[u] = x
    BY <1>10 DEF Typed, Calling
  <2>2. c.op \notin {"none", "getAllVersions"}
    BY <1>2, <1>3 DEF StepFits, Returning, Deleting
  <2>3. QED  BY <1>1, <1>2, <1>11, <1>13, <2>1, <2>2 DEF Works
<1>15. ASSUME AllFit(Rest, s0)  PROVE Mindful(x, s0)
  <2>1. \A d \in Pwcs(s0) : Named(s0, d) /\ (d \in live => Held(d) = {})
    BY <1>15, RestFits DEF AllFit, Fits
  <2>2. c.op = "checkOut" => ~series[s0].out
    BY <1>3, <1>6 DEF KnowsLocks
  <2>3. c.op = "checkOut" => Pwcs(s0) = {}
    BY <2>1, <2>2 DEF Named
  <2>4. c.op \in Returning => c.doc \in Pwcs(s0)
    BY <1>3, <1>5, <1>6 DEF KnowsLocks, Pwcs, Standing
  <2>5. x.step = "remove" /\ x.op \in Returning => x.doc \in live /\ Held(x.doc) = {}
    BY <1>6, <1>11, <2>1, <2>4
  <2>6. QED  BY <1>11, <1>13, <2>3, <2>5 DEF Mindful
<1>16. QED  BY <1>6, <1>10, <1>12, <1>14, <1>15, SettledStarts

-----------------------------------------------------------------------------

\* A working call moves one document of its series, or the record of one.
LEMMA FitHere ==
  ASSUME Typed, Typed', Grows, NEW s, NEW e, NEW c, AllFit(c, s), c.step # "name",
         NEW x, series'[s] = series[s],
         OnlyTouches(e),
         \A d \in Pwcs(s) : d # e /\ InHand(c, d) => InHand(x, d) \/ Held(d) = {},
         e \in Pwcs(s)' => Fits(x, s, e)'
  PROVE  AllFit(x, s)'
<1>1. SUFFICES ASSUME NEW d \in Pwcs(s)', d # e  PROVE Fits(x, s, d)'
  BY DEF AllFit
<1>2. d \in Doc /\ (d \in live' \/ Held(d)' # {}) /\ rev'[d].vs = s /\ rev'[d].pwc
  <2>1. d \in Standing' /\ rev'[d].vs = s /\ rev'[d].pwc
    BY DEF Pwcs
  <2>2. Standing' \subseteq V!Created'
    BY DEF Typed, Stored, Filed, Alike, Standing
  <2>3. QED  BY <2>1, <2>2 DEF Standing, Held, V!Created
<1>3. rev'[d] = rev[d] /\ (d \in live' <=> d \in live) /\ Held(d)' = Held(d)
      /\ shelved'[d] = shelved[d]
  BY <1>1, <1>2 DEF OnlyTouches
<1>4. d \in Standing
  BY <1>2, <1>3 DEF Standing, Held
<1>5. d \in Pwcs(s) /\ Fits(c, s, d)
  BY <1>2, <1>3, <1>4 DEF AllFit, Pwcs
<1>6. Named(s, d)'
  BY <1>5 DEF Fits, Naming, Named
<1>7. InHand(x, d)' <=> InHand(x, d)
  BY DEF InHand
<1>8. QED  BY <1>1, <1>3, <1>5, <1>6, <1>7 DEF Fits

\* The documents of series s fit call c at its next step x, which moves e.
Moves(c, x, s, e) ==
  /\ \A d \in Pwcs(s) : d # e /\ InHand(c, d) => InHand(x, d) \/ Held(d) = {}
  /\ e \in Pwcs(s)' => Fits(x, s, e)'
  /\ Mindful(x, s)'

LEMMA SettledMoves ==
  ASSUME Typed, Typed', Grows, AllSettled, NEW u \in User, Works(u), NEW c, c = call[u],
         c.step # "name", NEW x, call' = [call EXCEPT ![u] = x],
         x.op = c.op, x.step \notin {"lock", "lockLatest"},
         x.doc = c.doc, x.made = c.made \/ c.doc # NoDoc,
         mixed \subseteq mixed', UNCHANGED series, NEW s0, s0 = SeriesOf(c),
         NEW e, e \in V!Created' => rev'[e].vs = s0,
         OnlyTouches(e), AllFit(c, s0) /\ Mindful(c, s0) => Moves(c, x, s0, e)
  PROVE  AllSettled'
<1>1. \A s \in Series : s # s0 => Spares(s)
  BY SparesElsewhere
<1>2. Works(u)'
  <2>1. call'[u] = x
    BY DEF Typed, Calling
  <2>2. QED  BY <2>1 DEF Works
<1>3. AllFit(c, s0) /\ Mindful(c, s0) => AllFit(x, s0)' /\ Mindful(x, s0)'
  BY FitHere DEF Moves
<1>4. QED  BY <1>1, <1>2, <1>3, SettledWork

LEMMA SettledName ==
  ASSUME Typed, Typed', Grows, AllSettled, NEW u \in User, Name(u) \/ Clear(u)
  PROVE  AllSettled'
<1>1. PICK c : c = call[u]
  OBVIOUS
<1>2. c.step \in {"name", "clear"} /\ Continues(u, c)
      /\ UNCHANGED <<live, rev, records, shelved, mixed>>
  BY <1>1 DEF Name, Clear, Goes, Fine
<1>3. /\ Works(u) /\ c.op \in DOMAIN After /\ c.step \in DOMAIN After[c.op]
      /\ KnowsDocs(c) /\ KnowsNew(c)
  BY <1>1, <1>2, AtWork
<1>4. PICK x : /\ call' = [call EXCEPT ![u] = x]
               /\ (x = Rest /\ StepFits(c.op, c.step, "end")) \/ Follows(x, c)
  BY <1>2, <1>3, StepMade DEF Typed
<1>5. Follows(x, c) /\ x.step \in {"resave", "supersede", "latest"}
      /\ (c.step = "clear" => c.op \in Returning)
  BY <1>2, <1>4 DEF Follows, StepFits
<1>6. PICK s0 \in Series : s0 = SeriesOf(c)
  BY <1>1, <1>3, Serving
<1>7. \/ c.step = "name" /\ series' = [series EXCEPT ![s0] = V!CheckedOut(c.new, u)]
      \/ c.step = "clear" /\ \E node : series' = [series EXCEPT ![s0] = node]
  <2>1. CASE Name(u)
    BY <1>1, <1>3, <1>6, <2>1 DEF Name, Goes, KnowsNew
  <2>2. CASE Clear(u)
    <3>1. c.doc # NoDoc
      BY <1>1, <1>3, <1>5, <2>2 DEF Clear, Goes, KnowsDocs, Returning, Creating
    <3>2. QED  BY <1>1, <1>6, <2>2, <3>1 DEF Clear, Goes, SeriesOf
  <2>3. QED  BY <2>1, <2>2
<1>8. V!Created' = V!Created /\ Pwcs(s0)' = Pwcs(s0) /\ \A d : Held(d)' = Held(d)
  BY <1>2 DEF V!Created, Pwcs, Standing, Held
<1>9. \A s \in Series : s # s0 => Spares(s)
  BY <1>2, <1>7, <1>8 DEF Spares, Typed, Stored
<1>10. ASSUME AllFit(c, s0), Mindful(c, s0)  PROVE AllFit(x, s0)'
  <2>1. CASE c.step = "clear"
    <3>1. Pwcs(s0)' = {}
      BY <1>8, <1>10, <2>1 DEF Mindful
    <3>2. QED  BY <3>1 DEF AllFit
  <2>2. CASE c.step = "name"
    <3>1. series'[s0] = V!CheckedOut(c.new, u)
      BY <1>7, <2>2 DEF Typed, Stored
    <3>2. ASSUME NEW d \in Pwcs(s0)'  PROVE Fits(x, s0, d)'
      <4>1. d = c.new /\ d \in Pwcs(s0)
        BY <1>8, <1>10, <2>2, <3>2 DEF Mindful
      <4>2. Named(s0, d)'
        BY <3>1, <4>1 DEF Named, V!CheckedOut
      <4>3. ~InHand(c, d)
        BY <2>2 DEF InHand
      <4>4. QED  BY <1>2, <1>8, <1>10, <4>1, <4>2, <4>3 DEF AllFit, Fits
    <3>3. QED  BY <3>2 DEF AllFit
  <2>3. QED  BY <1>2, <2>1, <2>2
<1>11. Mindful(x, s0)'
  BY <1>5, CarelessMinds DEF Careless
<1>12. x.doc = c.doc /\ x.made = c.made /\ Works(u)'
  <2>1. call'[u] = x
    BY <1>4 DEF Typed, Calling
  <2>2. QED  BY <1>1, <1>3, <1>5, <2>1 DEF Follows, Works
<1>13. QED
  BY <1>1, <1>2, <1>3, <1>4, <1>6, <1>9, <1>10, <1>11, <1>12, SettledWork

LEMMA SettledCreate ==
  ASSUME Typed, Typed', Grows, AllSettled, NEW u \in User, Create(u)
  PROVE  AllSettled'
<1>1. PICK c : c = call[u]
  OBVIOUS
<1>2. PICK n \in Doc :
           /\ V!Fresh(n) /\ rev' = [rev EXCEPT ![n] = c.made]
           /\ live' = live \cup {n}
           /\ Continues(u, [c EXCEPT !.new = n])
  BY <1>1 DEF Create
<1>3. c.step = "create" /\ mixed \subseteq mixed' /\ UNCHANGED <<records, shelved, series>>
  BY <1>1 DEF Create, Goes, Mixes
<1>4. /\ Works(u) /\ c \in Call /\ c.op \in DOMAIN After /\ c.step \in DOMAIN After[c.op]
      /\ KnowsDocs(c) /\ KnowsNew(c)
  BY <1>1, <1>3, AtWork
<1>5. PICK y : y = [c EXCEPT !.new = n]
  OBVIOUS
<1>6. /\ y.op = c.op /\ y.step = c.step /\ y.doc = c.doc /\ y.made = c.made
      /\ y.new = n /\ Continues(u, y)
  BY <1>2, <1>4, <1>5 DEF Call
<1>7. PICK x : /\ call' = [call EXCEPT ![u] = x]
               /\ (x = Rest /\ StepFits(y.op, y.step, "end")) \/ Follows(x, y)
  BY <1>4, <1>6, StepMade DEF Typed
<1>8. /\ x.op = c.op /\ x.doc = c.doc /\ x.made = c.made /\ x.new = n
      /\ x.step = IF c.op \in {"createPwc", "checkOut"} THEN "name" ELSE "resave"
  BY <1>3, <1>6, <1>7 DEF Follows, StepFits
<1>9. PICK s0 : s0 = SeriesOf(c)
  OBVIOUS
<1>10. /\ rev'[n] = c.made /\ c.made.vs = s0
       /\ c.made.pwc <=> c.op \in {"createPwc", "checkOut"}
       /\ \A d \in Doc : d # n => rev'[d] = rev[d]
  BY <1>2, <1>3, <1>4, <1>9 DEF KnowsNew, Typed, Stored
<1>11. n \notin V!Created /\ n \notin Standing /\ Held(n) = {}
  BY <1>2, StandingCreated DEF V!Fresh, V!Created, Held
<1>12. \A d : Held(d)' = Held(d)
  BY <1>3 DEF Held
<1>13. ASSUME NEW d \in Pwcs(s0)', d # n  PROVE d \in Pwcs(s0)
  <2>1. d \in Standing
    BY <1>2, <1>3, <1>13 DEF Pwcs, Standing
  <2>2. rev'[d] = rev[d]
    BY <1>10, <1>13, <2>1, StandingCreated DEF V!Created
  <2>3. QED  BY <1>13, <2>1, <2>2 DEF Pwcs
<1>14. ASSUME AllFit(c, s0), Mindful(c, s0)
       PROVE  Moves(c, x, s0, n)
  <2>1. \A d : ~InHand(c, d)
    BY <1>3 DEF InHand
  <2>2. n \in Pwcs(s0)' => x.step = "name"
    BY <1>8, <1>10 DEF Pwcs
  <2>3. n \in Pwcs(s0)' => Fits(x, s0, n)'
    BY <1>8, <1>11, <1>12, <2>2 DEF Fits, Naming
  <2>4. x.step = "name" => Pwcs(s0)' \subseteq {x.new}
    BY <1>3, <1>8, <1>13, <1>14 DEF Mindful
  <2>5. Mindful(x, s0)'
    BY <1>8, <2>4 DEF Mindful
  <2>6. QED  BY <2>1, <2>3, <2>5 DEF Moves
<1>15. x.step \notin {"lock", "lockLatest"}
  BY <1>8
<1>16. OnlyTouches(n)
  BY <1>2, <1>3, <1>10, <1>12 DEF OnlyTouches
<1>17. /\ call' = [call EXCEPT ![u] = x] /\ x.op = c.op /\ x.doc = c.doc
       /\ x.made = c.made /\ rev'[n].vs = s0 /\ c.step # "name" /\ UNCHANGED series
  BY <1>3, <1>7, <1>8, <1>10
<1>18. QED
  BY <1>1, <1>3, <1>4, <1>9, <1>14, <1>15, <1>16, <1>17, SettledMoves

LEMMA SettledRemove ==
  ASSUME Guided, Typed, Typed', Grows, AllSettled, NEW u \in User, Remove(u)
  PROVE  AllSettled'
<1>1. PICK c : c = call[u]
  OBVIOUS
<1>2. PICK e : e = IF c.at = NoDoc THEN c.doc ELSE c.at
  OBVIOUS
<1>3. /\ c.step = "remove" /\ live' = live \ {e} /\ Continues(u, c)
      /\ UNCHANGED <<rev, records, shelved, series, mixed>>
  BY <1>1, <1>2 DEF Remove, Goes, Fine
<1>4. /\ Works(u) /\ c.op \in DOMAIN After /\ c.step \in DOMAIN After[c.op]
      /\ KnowsDocs(c) /\ KnowsPlace(c)
  BY <1>1, <1>3, AtWork
<1>5. KnowsLocks(c)
  BY <1>1, <1>3, Underway
<1>6. PICK x : /\ call' = [call EXCEPT ![u] = x]
               /\ (x = Rest /\ StepFits(c.op, c.step, "end")) \/ Follows(x, c)
  BY <1>3, <1>4, StepMade DEF Typed
<1>7. /\ Follows(x, c) /\ c.op \in Returning \cup Deleting
      /\ c.op \in Returning => x.step = "clear"
      /\ c.op \in Deleting => x.step \in {"latest", "detach"}
  BY <1>3, <1>6 DEF Follows, StepFits, Returning, Deleting
<1>8. PICK s0 : s0 = SeriesOf(c)
  OBVIOUS
<1>9. Own(c, e) /\ (c.op \in Returning => e = c.doc /\ rev[e].pwc)
      /\ (c.op \in Deleting => e = c.at)
  BY <1>2, <1>3, <1>4, <1>5, <1>7
     DEF KnowsDocs, KnowsPlace, KnowsLocks, Creating, Returning, Deleting
<1>10. rev[e].vs = s0
  BY <1>8, <1>9 DEF Own
<1>11. \A d : Held(d)' = Held(d)
  BY <1>3 DEF Held
<1>12. Pwcs(s0)' \subseteq Pwcs(s0)
  BY <1>3 DEF Pwcs, Standing
<1>13. ASSUME AllFit(c, s0), Mindful(c, s0)
       PROVE  Moves(c, x, s0, e)
  <2>1. \A d : InHand(c, d) => d = e
    BY <1>3, <1>9 DEF InHand
  <2>2. ASSUME e \in Pwcs(s0)'  PROVE Fits(x, s0, e)'
    <3>1. Fits(c, s0, e)
      BY <1>12, <1>13, <2>2 DEF AllFit
    <3>2. Named(s0, e)'
      BY <1>3, <3>1 DEF Fits, Naming, Named
    <3>3. QED  BY <1>3, <1>11, <3>1, <3>2 DEF Fits
  <2>3. CASE c.op \in Deleting
    <3>1. Mindful(x, s0)'
      BY <1>7, <2>3, CarelessMinds DEF Careless
    <3>2. QED  BY <2>1, <2>2, <3>1 DEF Moves
  <2>4. CASE c.op \in Returning
    <3>1. e \in live /\ Held(e) = {}
      BY <1>3, <1>9, <1>13, <2>4 DEF Mindful
    <3>2. e \in Pwcs(s0) /\ e \notin Pwcs(s0)'
      BY <1>3, <1>9, <1>10, <2>4, <3>1 DEF Pwcs, Standing, Held
    <3>3. \A d \in Pwcs(s0) : Named(s0, d)
      BY <1>3, <1>13 DEF AllFit, Fits, Naming
    <3>4. Pwcs(s0)' = {}
      BY <1>12, <3>2, <3>3 DEF Named
    <3>5. Mindful(x, s0)'
      BY <1>7, <2>4, <3>4 DEF Mindful
    <3>6. QED  BY <2>1, <2>2, <3>5 DEF Moves
  <2>5. QED  BY <1>7, <2>3, <2>4
<1>14. /\ x.op = c.op /\ x.step \notin {"lock", "lockLatest"} /\ x.doc = c.doc
       /\ x.made = c.made
  BY <1>7 DEF Follows
<1>15. OnlyTouches(e)
  BY <1>3, <1>11 DEF OnlyTouches
<1>16. call' = [call EXCEPT ![u] = x] /\ mixed \subseteq mixed' /\ rev'[e].vs = s0
  BY <1>3, <1>6, <1>7, <1>10, RestFits
<1>17. QED
  BY <1>1, <1>3, <1>4, <1>8, <1>13, <1>14, <1>15, <1>16, SettledMoves

LEMMA SettledDetach ==
  ASSUME Typed, Typed', Grows, AllSettled, NEW u \in User, Detach(u)
  PROVE  AllSettled'
<1>1. PICK c : c = call[u]
  OBVIOUS
<1>2. PICK e \in c.todo \cap attached :
           /\ shelved' = [shelved EXCEPT ![e] = @ + 1]
           /\ IF e \in live
              THEN Continues(u, [c EXCEPT !.todo = @ \ {e}, !.at = e, !.copy = rev[e]])
              ELSE call' = [call EXCEPT ![u].todo = @ \ {e}]
  BY <1>1 DEF Detach
<1>3. c.step = "detach" /\ UNCHANGED <<live, rev, records, series, mixed>>
  BY <1>1 DEF Detach, Goes, Fine
<1>4. /\ Works(u) /\ c \in Call /\ c.op \in DOMAIN After /\ c.step \in DOMAIN After[c.op]
      /\ KnowsDocs(c) /\ KnowsTodo(c)
  BY <1>1, <1>3, AtWork
<1>5. c.op \in Deleting
  BY <1>1, <1>3, Underway DEF StepFits
<1>6. PICK x : /\ call' = [call EXCEPT ![u] = x] /\ x.op = c.op /\ x.doc = c.doc
               /\ x.made = c.made
               /\ IF e \in live THEN x.step = "rewrite" /\ x.at = e ELSE x.step = "detach"
  <2>1. CASE e \in live
    <3>1. PICK y : y = [c EXCEPT !.todo = @ \ {e}, !.at = e, !.copy = rev[e]]
      OBVIOUS
    <3>2. /\ y.op = c.op /\ y.step = c.step /\ y.doc = c.doc /\ y.made = c.made
          /\ y.at = e /\ Continues(u, y)
      BY <1>2, <1>4, <2>1, <3>1 DEF Call
    <3>3. PICK x : /\ call' = [call EXCEPT ![u] = x]
                   /\ (x = Rest /\ StepFits(y.op, y.step, "end")) \/ Follows(x, y)
      BY <1>4, <3>2, StepMade DEF Typed
    <3>4. Follows(x, y) /\ x.step = "rewrite"
      BY <1>3, <3>2, <3>3 DEF Follows, StepFits
    <3>5. QED  BY <2>1, <3>2, <3>3, <3>4 DEF Follows
  <2>2. CASE e \notin live
    <3>1. PICK x : x = [c EXCEPT !.todo = @ \ {e}]
      OBVIOUS
    <3>2. call' = [call EXCEPT ![u] = x]
      BY <1>1, <1>2, <2>2, <3>1 DEF Typed, Calling
    <3>3. x.op = c.op /\ x.doc = c.doc /\ x.made = c.made /\ x.step = c.step
      BY <1>4, <3>1 DEF Call
    <3>4. QED  BY <1>3, <2>2, <3>2, <3>3
  <2>3. QED  BY <2>1, <2>2
<1>7. PICK s0 : s0 = SeriesOf(c)
  OBVIOUS
<1>8. e \in Doc /\ rev[e].vs = s0
  BY <1>2, <1>4, <1>5, <1>7 DEF KnowsTodo, Own, V!Created, ArchiveCalls, Deleting
<1>9. (\A d : Held(d)' = Held(d)) /\ Pwcs(s0)' = Pwcs(s0)
  BY <1>3 DEF Held, Pwcs, Standing
<1>10. shelved'[e] > 0 /\ \A d \in Doc : d # e => shelved'[d] = shelved[d]
  BY <1>2, <1>8 DEF Typed, Stored
<1>11. ASSUME AllFit(c, s0), Mindful(c, s0)
       PROVE  Moves(c, x, s0, e)
  <2>1. \A d : ~InHand(c, d) /\ ~Naming(c, d)
    BY <1>3 DEF InHand, Naming
  <2>2. e \in Pwcs(s0) => Fits(c, s0, e)
    BY <1>11 DEF AllFit
  <2>3. e \in Pwcs(s0)' => Fits(x, s0, e)'
    BY <1>3, <1>9, <1>10, <2>1, <2>2 DEF Fits, Named
  <2>4. e \in live /\ rev[e].pwc => Held(e) = {}
    BY <1>8, <2>1, <2>2 DEF Fits, Pwcs, Standing
  <2>5. Mindful(x, s0)'
    BY <1>3, <1>6, <1>9, <1>10, <2>4 DEF Mindful
  <2>6. QED  BY <2>1, <2>3, <2>5 DEF Moves
<1>12. x.step \notin {"lock", "lockLatest"}
  BY <1>6
<1>13. OnlyTouches(e)
  BY <1>3, <1>9, <1>10 DEF OnlyTouches
<1>14. mixed \subseteq mixed' /\ rev'[e].vs = s0
  BY <1>3, <1>8
<1>15. QED
  BY <1>1, <1>3, <1>4, <1>6, <1>7, <1>11, <1>12, <1>13, <1>14, SettledMoves

LEMMA SettledArchive ==
  ASSUME Typed, Typed', Grows, AllSettled, NEW u \in User, Archive(u)
  PROVE  AllSettled'
<1>1. PICK c : c = call[u]
  OBVIOUS
<1>2. /\ c.step = "archive" /\ c.at \in live /\ Continues(u, c)
      /\ UNCHANGED <<live, rev, shelved, series, mixed>>
  BY <1>1 DEF Archive, Goes, Fine
<1>3. /\ Works(u) /\ c.op \in DOMAIN After /\ c.step \in DOMAIN After[c.op]
      /\ KnowsDocs(c)
  BY <1>1, <1>2, AtWork
<1>4. PICK x : /\ call' = [call EXCEPT ![u] = x]
               /\ (x = Rest /\ StepFits(c.op, c.step, "end")) \/ Follows(x, c)
  BY <1>2, <1>3, StepMade DEF Typed
<1>5. Follows(x, c) /\ x.step = "remove" /\ c.op \in Deleting
  BY <1>2, <1>4 DEF Follows, StepFits
<1>6. PICK s0 : s0 = SeriesOf(c)
  OBVIOUS
<1>7. PICK e : e = c.at
  OBVIOUS
<1>8. Own(c, e) /\ rev[e].vs = s0
  BY <1>2, <1>3, <1>6, <1>7 DEF KnowsDocs, Own, Typed, Stored, V!Created
<1>9. PICK q : q.doc = e /\ records' = records \cup {q}
  <2>1. PICK no : records' = records \cup {[doc |-> c.at, rev |-> rev[c.at], no |-> no]}
    BY <1>1, NewRecord DEF Typed
  <2>2. QED  BY <1>7, <2>1
<1>10. \A d : Held(d)' = IF d = e THEN Held(d) \cup {q} ELSE Held(d)
  BY <1>9 DEF Held
<1>11. Pwcs(s0)' = Pwcs(s0)
  BY <1>2, <1>7, <1>9 DEF Pwcs, Standing
<1>12. ASSUME AllFit(c, s0), Mindful(c, s0)  PROVE Moves(c, x, s0, e)
  <2>1. \A d : ~InHand(c, d) /\ ~Naming(c, d)
    BY <1>2 DEF InHand, Naming
  <2>2. ASSUME e \in Pwcs(s0)  PROVE Fits(x, s0, e)'
    <3>1. Held(e) = {} /\ shelved[e] > 0
      BY <1>2, <1>5, <1>7, <1>12, <2>2 DEF Mindful, Pwcs
    <3>2. Named(s0, e)
      BY <1>12, <2>1, <2>2 DEF AllFit, Fits
    <3>3. InHand(x, e)
      BY <1>5, <1>7 DEF InHand, Follows
    <3>4. QED  BY <1>2, <1>10, <3>1, <3>2, <3>3 DEF Fits, Named, InHand
  <2>3. Mindful(x, s0)'
    BY <1>5 DEF Mindful, Follows, Deleting, Returning
  <2>4. QED  BY <1>11, <2>1, <2>2, <2>3 DEF Moves
<1>13. OnlyTouches(e)
  BY <1>2, <1>10 DEF OnlyTouches
<1>14. /\ x.op = c.op /\ x.step \notin {"lock", "lockLatest"} /\ x.doc = c.doc
       /\ x.made = c.made /\ rev'[e].vs = s0 /\ mixed \subseteq mixed'
       /\ call' = [call EXCEPT ![u] = x]
  BY <1>2, <1>4, <1>5, <1>8, RestFits DEF Follows
<1>15. QED
  BY <1>1, <1>2, <1>3, <1>6, <1>12, <1>13, <1>14, SettledMoves

LEMMA SettledRevive ==
  ASSUME Typed, Typed', Grows, AllSettled, NEW u \in User, Revive(u)
  PROVE  AllSettled'
<1>1. PICK c : c = call[u]
  OBVIOUS
<1>2. PICK r \in c.todo :
           /\ live' = live \cup {r.doc} /\ rev' = [rev EXCEPT ![r.doc] = r.rev]
           /\ Continues(u, [c EXCEPT !.at = r.doc, !.record = r, !.todo = @ \ {r}])
  BY <1>1 DEF Revive
<1>3. c.step = "revive" /\ UNCHANGED <<records, shelved, series, mixed>>
  BY <1>1 DEF Revive, Goes, Fine
<1>4. /\ Works(u) /\ c \in Call /\ c.op \in DOMAIN After /\ c.step \in DOMAIN After[c.op]
      /\ KnowsDocs(c) /\ KnowsTodo(c)
  BY <1>1, <1>3, AtWork
<1>5. c.op = "restore"
  BY <1>1, <1>3, Underway DEF StepFits
<1>6. PICK y : y = [c EXCEPT !.at = r.doc, !.record = r, !.todo = @ \ {r}]
  OBVIOUS
<1>7. /\ y.op = c.op /\ y.step = c.step /\ y.doc = c.doc /\ y.made = c.made
      /\ y.at = r.doc /\ y.record = r /\ y.todo = c.todo \ {r} /\ Continues(u, y)
  BY <1>2, <1>4, <1>6 DEF Call
<1>8. PICK x : /\ call' = [call EXCEPT ![u] = x]
               /\ (x = Rest /\ StepFits(y.op, y.step, "end")) \/ Follows(x, y)
  BY <1>4, <1>7, StepMade DEF Typed
<1>9. PICK e : e = r.doc
  OBVIOUS
<1>10. /\ x.step = "attach" /\ x.op = "restore" /\ x.doc = c.doc /\ x.made = c.made
       /\ x.at = e /\ x.record = r /\ x.todo = c.todo \ {r}
  BY <1>3, <1>5, <1>7, <1>8, <1>9 DEF Follows, StepFits
<1>11. PICK s0 : s0 = SeriesOf(c)
  OBVIOUS
<1>12. Alike(e, r.rev) /\ rev[e].vs = s0 /\ e \in V!Created
  BY <1>2, <1>4, <1>5, <1>9, <1>11 DEF KnowsTodo, Own, ArchiveCalls
<1>13. (\A d \in Doc : d # e => rev'[d] = rev[d]) /\ rev'[e].vs = s0
       /\ rev'[e].pwc = rev[e].pwc
  <2>1. rev \in [Doc -> V!Revision \cup {Absent}]
    BY DEF Typed, Stored
  <2>2. QED  BY <1>2, <1>9, <1>12, <2>1 DEF Grows
<1>14. \A d : Held(d)' = Held(d)
  BY <1>3 DEF Held
<1>15. ASSUME AllFit(c, s0), Mindful(c, s0)  PROVE Moves(c, x, s0, e)
  <2>1. \A d : ~InHand(c, d) /\ ~Naming(c, d)
    BY <1>3 DEF InHand, Naming
  <2>2. c.todo \subseteq records /\ r \in Held(e)
    BY <1>2, <1>3, <1>9, <1>15 DEF Mindful, Held
  <2>3. ASSUME rev[e].pwc
        PROVE  Named(s0, e) /\ shelved[e] > 0 /\ \A p, q \in Held(e) : p = q
    <3>1. e \in Pwcs(s0)
      BY <1>12, <2>2, <2>3 DEF Pwcs, Standing, Held
    <3>2. QED  BY <1>15, <2>1, <2>2, <3>1 DEF AllFit, Fits
  <2>4. InHand(x, e)
    BY <1>10 DEF InHand
  <2>5. ASSUME e \in Pwcs(s0)'  PROVE Fits(x, s0, e)'
    <3>1. rev[e].pwc
      BY <1>13, <2>5 DEF Pwcs
    <3>2. QED  BY <1>3, <1>14, <2>3, <2>4, <3>1 DEF Fits, Named, InHand
  <2>6. Mindful(x, s0)'
    <3>1. c.todo \ {r} \subseteq records'
      BY <1>3, <2>2
    <3>2. rev'[e].pwc => Held(e)' \subseteq {r}
      BY <1>13, <1>14, <2>2, <2>3
    <3>3. QED  BY <1>10, <3>1, <3>2 DEF Mindful
  <2>7. QED  BY <2>1, <2>5, <2>6 DEF Moves
<1>16. OnlyTouches(e)
  BY <1>2, <1>3, <1>9, <1>13, <1>14 DEF OnlyTouches
<1>17. x.op = c.op /\ x.step \notin {"lock", "lockLatest"} /\ mixed \subseteq mixed'
       /\ c.step # "name" /\ UNCHANGED series
  BY <1>3, <1>5, <1>10
<1>18. QED
  BY <1>1, <1>4, <1>8, <1>10, <1>11, <1>13, <1>15, <1>16, <1>17, SettledMoves

LEMMA SettledDrop ==
  ASSUME Typed, Typed', Grows, AllSettled, NEW u \in User, Drop(u) \/ DropHalf(u)
  PROVE  AllSettled'
<1>1. PICK c : c = call[u]
  OBVIOUS
<1>2. c.step = "drop" /\ UNCHANGED <<live, rev, series, mixed>>
  BY <1>1 DEF Drop, DropHalf, Goes, Fine
<1>3. /\ Works(u) /\ c \in Call /\ c.op \in DOMAIN After /\ c.step \in DOMAIN After[c.op]
      /\ KnowsDocs(c) /\ KnowsPlace(c) /\ KnowsTodo(c)
  BY <1>1, <1>2, AtWork
<1>4. c.op \in ArchiveCalls
  BY <1>1, <1>2, Underway DEF StepFits
<1>5. PICK r \in Droppable(c) :
           /\ records' = records \ {r}
           /\ \/ /\ Continues(u, [c EXCEPT !.todo = @ \ {r}])
                 /\ shelved' = [shelved EXCEPT ![r.doc] = @ - 1]
              \/ DropHalf(u) /\ shelved' = shelved
  BY <1>1 DEF Drop, DropHalf
<1>6. /\ c.op = "restore" => r = c.record /\ r.doc = c.at /\ r \in records
      /\ c.op # "restore" => r \in c.todo
  BY <1>2, <1>3, <1>5 DEF Droppable, Doomed, KnowsPlace
<1>7. PICK s0 : s0 = SeriesOf(c)
  OBVIOUS
<1>8. PICK e : e = r.doc
  OBVIOUS
<1>9. rev[e].vs = s0
  BY <1>2, <1>3, <1>4, <1>6, <1>7, <1>8 DEF KnowsDocs, KnowsPlace, KnowsTodo, Own
<1>10. \A d : Held(d)' = Held(d) \ {r} /\ (d # e => Held(d)' = Held(d))
  BY <1>5, <1>8 DEF Held
<1>11. PICK x : /\ call' = [call EXCEPT ![u] = x]
                /\ x.op = c.op /\ x.doc = c.doc /\ x.made = c.made
                /\ \/ x.step = "over"
                   \/ x.step \in {"revive", "drop"} /\ x.todo = c.todo \ {r}
                      /\ (x.op = "restore" => x.step = "revive")
  <2>1. PICK y : y = [c EXCEPT !.todo = @ \ {r}]
    OBVIOUS
  <2>2. /\ y.op = c.op /\ y.step = c.step /\ y.doc = c.doc /\ y.made = c.made
        /\ y.todo = c.todo \ {r}
    BY <1>3, <2>1 DEF Call
  <2>3. DropHalf(u) \/ Continues(u, y)
    BY <1>5, <2>1
  <2>4. QED  BY <1>1, <1>2, <2>2, <2>3, DropGoesOn
<1>12. Pwcs(s0)' \subseteq Pwcs(s0)
  BY <1>2, <1>5 DEF Pwcs, Standing
<1>13. ASSUME AllFit(c, s0), Mindful(c, s0)  PROVE Moves(c, x, s0, e)
  <2>1. \A d : InHand(c, d) => d = e
    BY <1>2, <1>6, <1>8 DEF InHand, Deleting
  <2>2. r \in Held(e) /\ c.todo \subseteq records
    BY <1>2, <1>6, <1>8, <1>13 DEF Mindful, Held
  <2>3. ASSUME e \in Pwcs(s0)'  PROVE Fits(x, s0, e)'
    <3>1. Fits(c, s0, e) /\ ~Naming(c, e)
      BY <1>2, <1>12, <1>13, <2>3 DEF AllFit, Naming
    <3>2. Held(e)' = {}
      BY <1>10, <2>2, <3>1 DEF Fits
    <3>3. QED  BY <1>2, <3>1, <3>2 DEF Fits, Named
  <2>4. Mindful(x, s0)'
    <3>1. c.todo \ {r} \subseteq records'
      BY <1>5, <2>2
    <3>2. QED  BY <1>4, <1>11, <3>1 DEF Mindful, ArchiveCalls
  <2>5. QED  BY <2>1, <2>3, <2>4 DEF Moves
<1>14. OnlyTouches(e)
  BY <1>2, <1>5, <1>8, <1>10 DEF OnlyTouches, Typed, Stored
<1>15. x.step \notin {"lock", "lockLatest"} /\ mixed \subseteq mixed' /\ rev'[e].vs = s0
       /\ c.step # "name" /\ UNCHANGED series
  BY <1>2, <1>9, <1>11
<1>16. QED  BY <1>1, <1>3, <1>7, <1>11, <1>13, <1>14, <1>15, SettledMoves

-----------------------------------------------------------------------------

LEMMA SettledSendsAny ==
  ASSUME Typed, Typed', Grows, AllSettled, NEW u \in User, SendsAny(u)
  PROVE  AllSettled'
BY SettledWaiting, SettledSendCreate, SettledSendSaveVersion, SettledSendArchiveCall
   DEF SendsAny

\* A call that ends half-way is remembered.
LEMMA FailuresCount ==
  ASSUME NEW u \in User,
         \/ SupersedeFails(u) \/ ResaveFails(u) \/ PromoteFails(u) \/ DetachFails(u)
         \/ RemovalFails(u) \/ RestoreFails(u) \/ Fail(u)
  PROVE  failed' # {}
<1>1. Throws(u)
  BY DEF SupersedeFails, ResaveFails, PromoteFails, DetachFails, RemovalFails,
         RestoreFails, Fail
<1>2. QED  BY <1>1 DEF Throws

LEMMA SettledAdvances ==
  ASSUME Guided, Typed, Typed', Grows, AllSettled, NEW u \in User, Advances(u) \/ Fail(u)
  PROVE  failed' # {} \/ AllSettled'
<1>1. CASE Refuse(u) \/ LockLatest(u) \/ ReadLock(u) \/ AllRead(u)
  BY <1>1, SettledWaiting
<1>2. CASE Fail(u) \/ SupersedeFails(u) \/ ResaveFails(u) \/ PromoteFails(u)
           \/ DetachFails(u) \/ RemovalFails(u) \/ RestoreFails(u)
  BY <1>2, FailuresCount
<1>3. CASE Admit(u) \/ Supersede(u) \/ Create(u) \/ Name(u) \/ Resave(u)
           \/ ResaveFormer(u) \/ Remove(u) \/ Clear(u) \/ Latest(u)
  BY <1>3, SettledAdmit, SettledVersions, SettledCreate, SettledName, SettledRemove,
     SettledLatest
<1>4. CASE Detach(u) \/ DetachEnds(u) \/ Rewrite(u) \/ Archive(u) \/ Promote(u)
           \/ Revive(u) \/ Attach(u) \/ Drop(u) \/ DropHalf(u) \/ LoopEnds(u)
  BY <1>4, SettledDetach, SettledLatest, SettledRewrite, SettledArchive,
     SettledVersions, SettledRevive, SettledAttach, SettledDrop, SettledLoopEnds
<1>5. Advances(u) \/ Fail(u)
  OBVIOUS
<1>6. QED
  BY <1>1, <1>2, <1>3, <1>4, <1>5 DEF Advances, AdvancesVersion, AdvancesRemoval

LEMMA SettledInit == Init => AllSettled
<1>1. SUFFICES ASSUME Init, NEW s \in Series PROVE Settled(s)
  BY DEF AllSettled
<1>2. \A u \in User : ~Serves(u, s)
  BY <1>1 DEF Init, Serves, Works, Rest
<1>3. Pwcs(s) = {}
  BY <1>1 DEF Init, Pwcs, Standing
<1>4. QED  BY <1>2, <1>3 DEF Settled, Alone, AllFit

LEMMA SettledStutters == AllSettled /\ UNCHANGED vars => AllSettled'
<1>1. SUFFICES ASSUME UNCHANGED vars, NEW s, Settled(s) PROVE Settled(s)'
  BY DEF AllSettled, vars
<1>2. /\ \A u, t : Serves(u, t)' <=> Serves(u, t)
      /\ \A d : Held(d)' = Held(d)
      /\ Pwcs(s)' = Pwcs(s)
  BY <1>1 DEF vars, Serves, Works, SeriesOf, Held, Pwcs, Standing
<1>3. Alone(s)'
  BY <1>1, <1>2 DEF Settled, Alone
<1>4. ASSUME NEW c, AllFit(c, s)  PROVE AllFit(c, s)'
  BY <1>1, <1>2, <1>4 DEF vars, AllFit, Fits, Named, Naming, InHand
<1>5. ASSUME NEW c, Mindful(c, s)  PROVE Mindful(c, s)'
  BY <1>1, <1>2, <1>5 DEF vars, Mindful
<1>6. ASSUME NEW u \in User, Serves(u, s)'  PROVE (AllFit(call[u], s) /\ Mindful(call[u], s))'
  <2>1. PICK c : c = call[u]
    OBVIOUS
  <2>2. AllFit(c, s) /\ Mindful(c, s)
    BY <1>1, <1>2, <1>6, <2>1 DEF Settled
  <2>3. call'[u] = c
    BY <1>1, <2>1 DEF vars
  <2>4. QED  BY <1>4, <1>5, <2>2, <2>3
<1>7. ASSUME \A u \in User : ~Serves(u, s)'  PROVE AllFit(Rest, s)'
  <2>1. PICK c : c = Rest
    OBVIOUS
  <2>2. AllFit(c, s)
    BY <1>1, <1>2, <1>7, <2>1 DEF Settled
  <2>3. Rest' = Rest
    BY DEF Rest
  <2>4. QED  BY <1>4, <2>1, <2>2, <2>3
<1>8. QED  BY <1>3, <1>6, <1>7 DEF Settled

\* PwcNamed: with guided clients, as long as no call has ended half-way, a PWC
\* in the repository is the one its series names, or its call is about to name
\* it, on every series that no two calls have worked on at the same time: also
\* across its deletion and the restore that brings it back.
THEOREM PwcsAreNamed ==
  ASSUME Guided  PROVE Spec => []PwcNamed
<1> DEFINE Inv == failed # {} \/ AllSettled
<1>1. Init => Inv
  BY SettledInit
<1>2. Typed /\ Typed' /\ Inv /\ [Next]_vars => Inv'
  <2>1. SUFFICES ASSUME Typed, Typed', Inv, [Next]_vars PROVE Inv'
    OBVIOUS
  <2>2. CASE UNCHANGED vars
    BY <2>1, <2>2, SettledStutters DEF vars
  <2>3. CASE Next
    <3>1. PICK u \in User : SendsAny(u) \/ Advances(u) \/ Fail(u)
      BY <2>3 DEF Next
    <3>2. Grows
      BY <2>1, <2>3, TypedNextStep
    <3>3. CASE failed # {}
      BY <3>1, <3>3, FailuresStay
    <3>4. CASE failed = {}
      BY <2>1, <3>1, <3>2, <3>4, SettledSendsAny, SettledAdvances
    <3>5. QED  BY <3>3, <3>4
  <2>4. QED  BY <2>1, <2>2, <2>3
<1>3. Typed /\ Inv => PwcNamed
  <2>1. SUFFICES ASSUME Typed, Inv, NEW d \in live, rev[d].pwc, failed = {},
                        rev[d].vs \notin mixed
                 PROVE  \/ series[rev[d].vs].out /\ series[rev[d].vs].id = d
                        \/ \E u \in User : call[u].new = d
    BY DEF PwcNamed
  <2>2. PICK s : s = rev[d].vs
    OBVIOUS
  <2>3. s \in Series /\ d \in Pwcs(s)
    BY <2>1, <2>2 DEF Typed, Stored, Alike, V!Revision, Pwcs, Standing
  <2>4. Settled(s)
    BY <2>1, <2>2, <2>3 DEF AllSettled
  <2>5. CASE \E u \in User : Serves(u, s)
    BY <2>2, <2>3, <2>4, <2>5 DEF Settled, AllFit, Fits, Named, Naming
  <2>6. CASE \A u \in User : ~Serves(u, s)
    BY <2>2, <2>3, <2>4, <2>6, RestFits DEF Settled, AllFit, Fits, Named
  <2>7. QED  BY <2>5, <2>6
<1> HIDE DEF Inv
<1>4. QED  BY <1>1, <1>2, <1>3, TypedAlways, PTL DEF Spec
=============================================================================
