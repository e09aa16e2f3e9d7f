------------------------ MODULE VersionRefinementProofs ------------------------
(***************************************************************************)
(* Proof that the steps of a single caller, not guided and without         *)
(* failures, add up to the whole calls of VersionSeries, for every number  *)
(* of documents, series and calls.  At every step of a call the invariant  *)
(* Joined says what is in the databases, in terms of what there was when   *)
(* the call began (seen) and of what the call has done so far.             *)
(***************************************************************************)
EXTENDS VersionRefinement, VersionThreadsProofs

Single(u) == User = {u} /\ ~Guided /\ ~Faulty

-----------------------------------------------------------------------------
(***************************************************************************)
(* What there is at every step of a call                                   *)
(***************************************************************************)

Shows(l, r, s, a) == live = l /\ rev = r /\ series = s /\ Archived(records) = a

\* The call has written nothing.
Unwritten(c) == c.op \in {"none", "getAllVersions"} \/ c.step = "lock"

\* The series nodes, with another node for the series of the call.
Nodes(c, node) == [seen.series EXCEPT ![SeriesOf(c)] = node]

\* The document exists and accepts the caller.
Given(u, c) ==
  /\ c.doc \in seen.live /\ seen.rev[c.doc].vs = SeriesOf(c)
  /\ Whole!Permitted(u, c.doc)

\* createDocument and checkOut: the new document is written, and then named.
AddsGiven(u, c) ==
  IF c.op = "checkOut"
  THEN /\ Given(u, c) /\ Whole!Current(u, c.doc)
       /\ seen.series[SeriesOf(c)].out => seen.rev[c.doc].pwc
       /\ c.made = V!Pwc(SeriesOf(c))
  ELSE /\ seen.series[SeriesOf(c)] = Absent
       /\ \E state \in V!VersioningState :
            /\ c.made = V!FirstVersion(SeriesOf(c), state)
            /\ c.op = "createPwc" <=> state = "CHECKEDOUT"

NodesOpened(c) == IF c.op = "checkOut" THEN seen.series ELSE Nodes(c, V!CheckedIn)

NodesNamed(u, c) ==
  IF c.op = "createDocument" THEN NodesOpened(c) ELSE Nodes(c, V!CheckedOut(c.new, u))

Adds(u, c) ==
  /\ AddsGiven(u, c)
  /\ IF c.step = "create"
     THEN Shows(seen.live, seen.rev, NodesOpened(c), seen.archive)
     ELSE /\ c.new \in Doc /\ seen.rev[c.new] = Absent
          /\ Shows(seen.live \cup {c.new}, [seen.rev EXCEPT ![c.new] = c.made],
                   IF c.step = "resave" THEN NodesNamed(u, c) ELSE NodesOpened(c), seen.archive)

\* cancelCheckOut: the document is removed, then the series is free again.
Left(c) == IF c.step = "remove" THEN seen.live ELSE seen.live \ {c.doc}
Freed(c) == IF c.step \in {"remove", "clear"} THEN seen.series ELSE Nodes(c, V!CheckedIn)

Cancels(u, c) ==
  Given(u, c) /\ Shows(Left(c), seen.rev, Freed(c), seen.archive)

\* checkIn, setContentStream and saveAllVersions: version n supersedes f.
Choice(c) == IF c.op = "checkIn" THEN Whole!LatestVersions(SeriesOf(c)) ELSE {c.doc}

Chosen(c) ==
  IF c.former = NoDoc THEN c.op = "checkIn" /\ Choice(c) = {}
  ELSE c.former \in Choice(c) /\ c.copy = seen.rev[c.former]

RenewsGiven(u, c) ==
  /\ c.doc \in seen.live /\ seen.rev[c.doc].vs = SeriesOf(c)
  /\ c.op # "saveVersion" => Whole!Permitted(u, c.doc)
  /\ c.op = "setContentStream" => Whole!Current(u, c.doc) /\ ~seen.rev[c.doc].pwc
  /\ c.op = "saveVersion" => seen.rev[c.doc].latest

Kept(c)    == IF c.op = "checkIn" THEN Left(c) ELSE seen.live
Returned(c) == IF c.op = "checkIn" THEN Freed(c) ELSE seen.series

Chooses(c) ==
  Chosen(c) /\ Shows(Kept(c), seen.rev, Returned(c), seen.archive)

\* f is superseded, and the call knows what n will be ...
Supersedes(c) ==
  LET f == c.former IN
  /\ f \in Choice(c) /\ (c.op = "checkIn" => f # c.doc)
  /\ c.copy = V!Superseded(seen.rev[f], c.major)
  /\ c.made = V!NextVersion(seen.rev[f], c.major)
  /\ Shows(Kept(c), [seen.rev EXCEPT ![f] = c.copy], Returned(c), seen.archive)

\* ... and n is there.
Versioned(c, f, n) ==
  /\ f \in Choice(c) /\ (c.op = "checkIn" => f # c.doc)
  /\ n \in Doc /\ seen.rev[n] = Absent
  /\ Shows(Kept(c) \cup {n},
           [seen.rev EXCEPT ![n] = V!NextVersion(seen.rev[f], c.major),
                            ![f] = V!Superseded(seen.rev[f], c.major)],
           Returned(c), seen.archive)
  /\ c.step = "resave" => n = c.new /\ c.made = V!NextVersion(seen.rev[f], c.major)
  /\ c.step \in {"resave", "resaveFormer"} =>
       f = c.former /\ c.copy = V!Superseded(seen.rev[f], c.major)

Renews(u, c) ==
  /\ RenewsGiven(u, c)
  /\ IF c.step \in {"remove", "clear", "supersede"} THEN Chooses(c)
     ELSE IF c.step = "create" THEN Supersedes(c)
     ELSE \E f, n \in Doc : Versioned(c, f, n)

\* deleteObject: the documents to remove, those that are dealt with, and the
\* one in hand.
Targets(c) == IF c.op = "deleteVersion" THEN {c.doc} ELSE Whole!Versions(SeriesOf(c))
Taken(c)   == Targets(c) \ c.todo

Deletes(u, c) ==
  /\ Given(u, c) /\ c.todo \subseteq Targets(c)
  /\ c.op = "deleteVersion" => c.todo = IF c.step = "detach" THEN {c.doc} ELSE {}
  /\ rev = seen.rev /\ series = seen.series
  /\ IF c.step \in {"rewrite", "archive", "remove"}
     THEN c.at \in Taken(c) /\ live = seen.live \ (Taken(c) \ {c.at})
     ELSE live = seen.live \ Taken(c)
  /\ Archived(records) = seen.archive \cup
       IF c.step \in {"rewrite", "archive"} THEN Taken(c) \ {c.at} ELSE Taken(c)
  /\ c.step = "rewrite" => c.copy = rev[c.at]
  /\ c.step = "promote" => c.former \in V!LatestVersions(SeriesOf(c)) /\ c.copy = rev[c.former]

\* restoreArchive and destroyArchive: the archives of the series, and those
\* that are dealt with.
Archives(c) == Whole!ArchivesOfVersionSeries(SeriesOf(c))
Done(c)     == Archives(c) \ Archived(c.todo)

Restores(c) ==
  /\ c.doc \in seen.archive
  /\ c.todo \subseteq records /\ Archived(c.todo) \subseteq Archives(c)
  /\ rev = seen.rev /\ series = seen.series
  /\ live = seen.live \cup Done(c)
  /\ IF c.step \in {"attach", "drop"}
     THEN /\ c.record \in records /\ c.record.doc = c.at /\ c.at \in Done(c)
          /\ Archived(records) = seen.archive \ (Done(c) \ {c.at})
     ELSE Archived(records) = seen.archive \ Done(c)
  /\ c.step = "rewrite" => c.todo = {} /\ c.at = c.doc /\ c.copy = rev[c.doc]

Purges(c) ==
  /\ c.doc \in seen.archive
  /\ c.todo \subseteq records /\ Archived(c.todo) \subseteq Archives(c)
  /\ Shows(seen.live, seen.rev, seen.series, seen.archive \ Done(c))

Story(u, c) ==
  IF Unwritten(c) THEN Shows(seen.live, seen.rev, seen.series, seen.archive)
  ELSE /\ c.op \in Creating \cup {"checkOut"} => Adds(u, c)
       /\ c.op = "cancelCheckOut" => Cancels(u, c)
       /\ c.op \in Versioning => Renews(u, c)
       /\ c.op \in Deleting => Deletes(u, c)
       /\ c.op = "restore" => Restores(c)
       /\ c.op = "destroy" => Purges(c)

-----------------------------------------------------------------------------
(***************************************************************************)
(* Content streams and records are where they belong                       *)
(***************************************************************************)

\* A document has one record, of its last revision, and that of its stream.
OneEach == \A r, q \in records : r.doc = q.doc => r = q
RecordsSound == \A r \in records : r.rev = rev[r.doc] /\ shelved[r.doc] > 0

\* The document whose stream is away, and the one that is both in the
\* repository and in the archive.
Away(c) ==
  IF \/ c.op \in Deleting /\ c.step \in {"rewrite", "archive", "remove"}
     \/ c.op = "restore" /\ c.step = "attach"
  THEN {c.at} ELSE {}
Twice(c) ==
  IF \/ c.op \in Deleting /\ c.step = "remove"
     \/ c.op = "restore" /\ c.step \in {"attach", "drop"}
  THEN {c.at} ELSE {}

InOrder(c) ==
  /\ attached = live \ Away(c)
  /\ Archived(records) \cap live \subseteq Twice(c)
  /\ c.op \in Deleting /\ c.step \in {"rewrite", "archive"} => shelved[c.at] > 0
  /\ c.step # "over"

SeenType ==
  /\ seen \in [live : SUBSET Doc, rev : [Doc -> V!Revision \cup {Absent}],
               series : [Series -> V!SeriesNode \cup {Absent}],
               archive : SUBSET Doc, outcome : {"ok", "failed"}]
  /\ seen.live \subseteq Whole!Created /\ seen.archive \subseteq Whole!Created

Joined(u) ==
  /\ SeenType /\ OneEach /\ RecordsSound
  /\ call[u].op = "setContentStream" => ~call[u].major
  /\ Story(u, call[u]) /\ InOrder(call[u])

-----------------------------------------------------------------------------
(***************************************************************************)
(* Going on, and ending                                                    *)
(***************************************************************************)

WholeStep == [Whole!Next]_(Whole!vars)

LEMMA SeenSame == ASSUME seen' = seen PROVE WholeStep
BY DEF WholeStep, Whole!vars

\* What the caller is doing, when it does something.
LEMMA AtStep ==
  ASSUME NEW u, Single(u), Typed, call[u].step # "end"
  PROVE  /\ u \in User /\ call[u] \in Call
         /\ call[u].op # "none" /\ call[u].op \in DOMAIN After
         /\ KnowsDocs(call[u]) /\ KnowsNew(call[u]) /\ KnowsPlace(call[u])
         /\ KnowsTodo(call[u]) /\ KnowsLocks(call[u])
         /\ call[u].step # "over" =>
              /\ call[u].step \in DOMAIN After[call[u].op]
              /\ StepFits(call[u].op, call[u].step, After[call[u].op][call[u].step])
<1>1. u \in User
  BY DEF Single
<1>2. QED  BY <1>1, Busy, StepOrder DEF Typed

\* The call goes on: nothing is seen.
LEMMA GoesOn ==
  ASSUME NEW u, Single(u), Typed, NEW x, call' = [call EXCEPT ![u] = x],
         x.step # "end", Remembers, Joined(u), (OneEach /\ RecordsSound)',
         Story(u, x)', InOrder(x)', x.op = "setContentStream" => ~x.major
  PROVE  Joined(u)' /\ WholeStep
<1>1. u \in User /\ call'[u] = x
  BY DEF Single, Typed, Calling
<1>2. x # Rest
  BY DEF Rest
<1>3. ~Ended
  BY <1>1, <1>2 DEF Ended, Single
<1>4. seen' = seen
  BY <1>3 DEF Remembers
<1>5. SeenType'
  BY <1>4 DEF SeenType, Joined, Whole!Created
<1>6. QED  BY <1>1, <1>4, <1>5, SeenSame DEF Joined

LEMMA NotSeen ==
  ASSUME NEW u, Single(u), Typed, NEW x, call' = [call EXCEPT ![u] = x],
         x.step # "end", Remembers
  PROVE  seen' = seen /\ call'[u] = x
<1>1. u \in User /\ call'[u] = x
  BY DEF Single, Typed, Calling
<1>2. x # Rest
  BY DEF Rest
<1>3. ~Ended
  BY <1>1, <1>2 DEF Ended, Single
<1>4. QED  BY <1>1, <1>3 DEF Remembers

\* The call ends: what there is now is seen.
Told(how) ==
  /\ seen'.live = live' /\ seen'.rev = rev' /\ seen'.series = series'
  /\ seen'.archive = Archived(records)' /\ seen'.outcome = how

Untold ==
  /\ live' = seen.live /\ rev' = seen.rev /\ series' = seen.series
  /\ Archived(records)' = seen.archive

Ending == IF failed' = failed THEN Told("ok") ELSE Told("failed")

LEMMA EndsSeen ==
  ASSUME NEW u, Single(u), Typed, Typed', Joined(u), call[u].step # "end",
         call' = [call EXCEPT ![u] = Rest], Remembers, (OneEach /\ RecordsSound)',
         attached' = live', Archived(records)' \cap live' = {}
  PROVE  /\ Joined(u)'
         /\ seen' = seen \/ Ending
         /\ Untold => seen' = seen
<1>1. u \in User /\ call'[u] = Rest /\ call[u] # Rest
  BY DEF Single, Typed, Calling, Rest
<1>2. Ended
  BY <1>1 DEF Ended
<1> DEFINE now(how) == [live |-> live', rev |-> rev', series |-> series',
                        archive |-> Archived(records'), outcome |-> how]
<1>3. seen' = IF now(seen.outcome) = seen THEN seen
              ELSE now(IF failed' = failed THEN "ok" ELSE "failed")
  BY <1>2 DEF Remembers
<1>4. PICK how \in {"ok", "failed"} : seen' = now(how)
  BY <1>3 DEF Joined, SeenType
<1>5. /\ seen'.live = live' /\ seen'.rev = rev' /\ seen'.series = series'
      /\ seen'.archive = Archived(records)'
  BY <1>4
<1>6. live' \subseteq Doc /\ rev' \in [Doc -> V!Revision \cup {Absent}]
      /\ series' \in [Series -> V!SeriesNode \cup {Absent}]
  BY DEF Typed, Stored, V!Created
<1>7. Archived(records') \subseteq Doc
  BY DEF Typed, Filed, Archived, Record
<1>8. SeenType'
  <2>1. seen' \in [live : SUBSET Doc, rev : [Doc -> V!Revision \cup {Absent}],
                   series : [Series -> V!SeriesNode \cup {Absent}],
                   archive : SUBSET Doc, outcome : {"ok", "failed"}]
    BY <1>4, <1>6, <1>7
  <2>2. Whole!Created' = V!Created'
    BY <1>5 DEF Whole!Created, V!Created
  <2>3. Archived(records)' \subseteq V!Created'
    BY DEF Typed, Filed, Alike, Archived
  <2>4. live' \subseteq V!Created'
    BY DEF Typed, Stored
  <2>5. QED  BY <1>5, <2>1, <2>2, <2>3, <2>4 DEF SeenType
<1>9. Story(u, Rest)'
  BY <1>5 DEF Story, Unwritten, Rest, Shows
<1>10. InOrder(Rest)'
  <2>1. Away(Rest) = {} /\ Twice(Rest) = {} /\ Rest.op \notin Deleting /\ Rest.step # "over"
    BY DEF Away, Twice, Rest, Deleting
  <2>2. QED  BY <2>1 DEF InOrder
<1>11. Joined(u)'
  BY <1>1, <1>8, <1>9, <1>10 DEF Joined, Rest
<1>12. seen' = seen \/ Ending
  <2>1. CASE now(seen.outcome) = seen
    BY <1>3, <2>1
  <2>2. CASE now(seen.outcome) # seen /\ failed' = failed
    <3>1. seen'.outcome = "ok"
      BY <1>3, <2>2
    <3>2. Told("ok")
      BY <1>5, <3>1 DEF Told
    <3>3. QED  BY <2>2, <3>2 DEF Ending
  <2>3. CASE now(seen.outcome) # seen /\ failed' # failed
    <3>1. seen'.outcome = "failed"
      BY <1>3, <2>3
    <3>2. Told("failed")
      BY <1>5, <3>1 DEF Told
    <3>3. QED  BY <2>3, <3>2 DEF Ending
  <2>4. QED  BY <2>1, <2>2, <2>3
<1>13. ASSUME Untold  PROVE seen' = seen
  <2>1. seen = [live |-> seen.live, rev |-> seen.rev, series |-> seen.series,
                archive |-> seen.archive, outcome |-> seen.outcome]
    BY DEF Joined, SeenType
  <2>2. now(seen.outcome) = seen
    BY <1>13, <2>1 DEF Untold
  <2>3. QED  BY <1>3, <2>2
<1>14. QED  BY <1>11, <1>12, <1>13

-----------------------------------------------------------------------------
(***************************************************************************)
(* What stays from step to step                                            *)
(***************************************************************************)

LEMMA SeriesSame ==
  ASSUME Grows, NEW c, KnowsDocs(c), NEW x, x.doc = c.doc,
         c.doc = NoDoc => x.made.vs = c.made.vs
  PROVE  SeriesOf(x)' = SeriesOf(c)
<1>1. c.doc # NoDoc => c.doc \in V!Created
  BY DEF KnowsDocs, Own
<1>2. QED  BY <1>1 DEF SeriesOf, Grows

\* x is the same call, a step later.
SameWork(c, x) ==
  /\ x.op = c.op /\ x.doc = c.doc /\ x.major = c.major
  /\ SeriesOf(x)' = SeriesOf(c) /\ seen' = seen

LEMMA StillGiven ==
  ASSUME NEW c, NEW x, SameWork(c, x), NEW u
  PROVE  /\ Given(u, x)' <=> Given(u, c)
         /\ RenewsGiven(u, x)' <=> RenewsGiven(u, c)
         /\ x.made = c.made => (AddsGiven(u, x)' <=> AddsGiven(u, c))
         /\ \A node : Nodes(x, node)' = Nodes(c, node)
         /\ NodesOpened(x)' = NodesOpened(c)
         /\ x.new = c.new => NodesNamed(u, x)' = NodesNamed(u, c)
<1>1. /\ x.op = c.op /\ x.doc = c.doc /\ x.major = c.major
      /\ SeriesOf(x)' = SeriesOf(c) /\ seen' = seen
  BY DEF SameWork
<1>2. \A d : Whole!Permitted(u, d)' = Whole!Permitted(u, d)
  BY <1>1 DEF Whole!Permitted
<1>3. \A d : Whole!Current(u, d)' = Whole!Current(u, d)
  BY <1>1 DEF Whole!Current
<1>4. \A node : Nodes(x, node)' = Nodes(c, node)
  BY <1>1 DEF Nodes
<1>5. NodesOpened(x)' = NodesOpened(c)
  BY <1>1, <1>4 DEF NodesOpened
<1>6. x.new = c.new => NodesNamed(u, x)' = NodesNamed(u, c)
  BY <1>1, <1>4, <1>5 DEF NodesNamed
<1>7. Given(u, x)' <=> Given(u, c)
  BY <1>1, <1>2 DEF Given
<1>8. RenewsGiven(u, x)' <=> RenewsGiven(u, c)
  BY <1>1, <1>2, <1>3 DEF RenewsGiven
<1>9. x.made = c.made => (AddsGiven(u, x)' <=> AddsGiven(u, c))
  BY <1>1, <1>3, <1>7 DEF AddsGiven
<1>10. QED  BY <1>4, <1>5, <1>6, <1>7, <1>8, <1>9

LEMMA SameSets ==
  ASSUME NEW c, NEW x, SameWork(c, x)
  PROVE  /\ Choice(x)' = Choice(c) /\ Targets(x)' = Targets(c)
         /\ Archives(x)' = Archives(c)
<1>1. /\ x.op = c.op /\ x.doc = c.doc
      /\ SeriesOf(x)' = SeriesOf(c) /\ seen' = seen
  BY DEF SameWork
<1>2. QED
  BY <1>1 DEF Choice, Targets, Archives, Whole!LatestVersions, Whole!Versions,
     Whole!ArchivesOfVersionSeries

\* The databases are as they were, but for the series nodes.
LEMMA RecordsStay ==
  ASSUME OneEach, RecordsSound, UNCHANGED <<rev, shelved, records>>
  PROVE  (OneEach /\ RecordsSound)' /\ Archived(records)' = Archived(records)
BY DEF OneEach, RecordsSound, Archived

\* The calls that neither delete nor restore leave no trace in InOrder.
LEMMA InOrderAtRest ==
  ASSUME NEW c, \/ c.op \notin Deleting \cup {"restore"}
                \/ c.step \notin {"rewrite", "archive", "remove", "attach", "drop"}
  PROVE  /\ Away(c) = {} /\ Twice(c) = {}
         /\ InOrder(c) <=> /\ attached = live /\ Archived(records) \cap live = {}
                           /\ c.step # "over"
         /\ InOrder(c)' <=> /\ attached' = live' /\ Archived(records)' \cap live' = {}
                            /\ c.step # "over"
BY DEF Away, Twice, InOrder, Deleting

-----------------------------------------------------------------------------
(***************************************************************************)
(* createDocument and checkOut                                             *)
(***************************************************************************)

LEMMA JoinedName ==
  ASSUME NEW u, Single(u), Typed, Typed', Grows, Joined(u), Remembers, Name(u)
  PROVE  Joined(u)' /\ WholeStep
<1>1. PICK c : c = call[u]
  OBVIOUS
<1>2. /\ c.step = "name" /\ Continues(u, c)
      /\ series' = [series EXCEPT ![c.made.vs] = V!CheckedOut(c.new, u)]
      /\ UNCHANGED <<live, rev, attached, shelved, records>>
  BY <1>1 DEF Name, Goes
<1>3. /\ u \in User /\ c \in Call /\ KnowsDocs(c) /\ KnowsNew(c)
      /\ c.op \in DOMAIN After /\ c.step \in DOMAIN After[c.op]
      /\ c.op \in {"createPwc", "checkOut"} /\ After[c.op][c.step] = "resave"
  BY <1>1, <1>2, AtStep DEF StepFits
<1>4. PICK x : x = [c EXCEPT !.step = "resave"]
  OBVIOUS
<1>5. /\ x.op = c.op /\ x.step = "resave" /\ x.doc = c.doc /\ x.new = c.new
      /\ x.made = c.made /\ x.major = c.major
  BY <1>3, <1>4 DEF Call
<1>6. call' = [call EXCEPT ![u] = x]
  BY <1>2, <1>3, <1>4 DEF Continues
<1>7. seen' = seen
  BY <1>5, <1>6, NotSeen
<1>8. SeriesOf(x)' = SeriesOf(c)
  BY <1>3, <1>5, SeriesSame
<1>9. SameWork(c, x)
  BY <1>5, <1>7, <1>8 DEF SameWork
<1>10. Adds(u, c) /\ InOrder(c) /\ SeenType /\ OneEach /\ RecordsSound
  BY <1>1, <1>2, <1>3 DEF Joined, Story, Unwritten, Creating
<1>11. /\ AddsGiven(u, c) /\ c.new \in Doc /\ seen.rev[c.new] = Absent
       /\ live = seen.live \cup {c.new} /\ rev = [seen.rev EXCEPT ![c.new] = c.made]
       /\ series = NodesOpened(c) /\ Archived(records) = seen.archive
  BY <1>2, <1>10 DEF Adds, Shows
<1>12. c.made.vs = SeriesOf(c)
  BY <1>2, <1>3 DEF KnowsNew
<1>13. series' = NodesNamed(u, c)
  BY <1>2, <1>3, <1>11, <1>12 DEF NodesNamed, NodesOpened, Nodes
<1>14. (OneEach /\ RecordsSound)' /\ Archived(records)' = Archived(records)
  BY <1>2, <1>10, RecordsStay
<1>15. AddsGiven(u, x)' /\ NodesNamed(u, x)' = NodesNamed(u, c)
  BY <1>5, <1>9, <1>11, StillGiven
<1>16. Adds(u, x)'
  BY <1>2, <1>5, <1>7, <1>11, <1>13, <1>14, <1>15 DEF Adds, Shows
<1>17. Story(u, x)'
  BY <1>3, <1>5, <1>16 DEF Story, Unwritten, Creating, Versioning, Deleting
<1>18. InOrder(x)'
  BY <1>2, <1>3, <1>5, <1>10, <1>14, InOrderAtRest DEF Deleting
<1>19. QED
  BY <1>3, <1>5, <1>6, <1>14, <1>17, <1>18, GoesOn

LEMMA SoundWrites ==
  ASSUME Typed, OneEach, RecordsSound, NEW d \in Doc, d \notin Archived(records), NEW m,
         rev' = [rev EXCEPT ![d] = m], UNCHANGED <<shelved, records>>
  PROVE  (OneEach /\ RecordsSound)' /\ Archived(records)' = Archived(records)
<1>1. \A r \in records : r.doc # d
  BY DEF Archived
<1>2. \A r \in records : rev'[r.doc] = rev[r.doc]
  BY <1>1 DEF Typed, Stored
<1>3. QED  BY <1>2 DEF OneEach, RecordsSound, Archived

LEMMA FreshNowhere ==
  ASSUME Typed, NEW n \in Doc, V!Fresh(n)
  PROVE  n \notin V!Created /\ n \notin live /\ n \notin Archived(records)
<1>1. n \notin V!Created
  BY DEF V!Fresh, V!Created
<1>2. QED  BY <1>1 DEF Typed, Stored, Filed, Alike, Archived

LEMMA ChoiceDocs ==
  ASSUME SeenType, NEW c, KnowsDocs(c), c.op \in Versioning  PROVE Choice(c) \subseteq Doc
<1>1. CASE c.op = "checkIn"
  BY <1>1 DEF Choice, SeenType, Whole!LatestVersions, Whole!Versions
<1>2. CASE c.op # "checkIn"
  <2>1. c.op \notin Creating
    BY DEF Versioning, Creating
  <2>2. c.doc \in Doc
    BY <2>1 DEF KnowsDocs, Own, V!Created
  <2>3. QED  BY <1>2, <2>2 DEF Choice
<1>3. QED  BY <1>1, <1>2

LEMMA ChoiceSeen ==
  ASSUME SeenType, NEW c, NEW u, RenewsGiven(u, c)
  PROVE  Choice(c) \subseteq seen.live /\ Choice(c) \subseteq Whole!Created
<1>1. Whole!LatestVersions(SeriesOf(c)) \subseteq seen.live
  BY DEF Whole!LatestVersions, Whole!Versions
<1>2. Choice(c) \subseteq seen.live
  BY <1>1 DEF Choice, RenewsGiven
<1>3. QED  BY <1>2 DEF SeenType

LEMMA JoinedCreate ==
  ASSUME NEW u, Single(u), Typed, Typed', Grows, Joined(u), Remembers, Create(u)
  PROVE  Joined(u)' /\ WholeStep
<1>1. PICK c : c = call[u]
  OBVIOUS
<1>2. c.step = "create"
  BY <1>1 DEF Create, Goes
<1>3. PICK n \in Doc : /\ V!Fresh(n)
                       /\ rev' = [rev EXCEPT ![n] = c.made]
                       /\ live' = live \cup {n} /\ attached' = attached \cup {n}
                       /\ Continues(u, [c EXCEPT !.new = n])
                       /\ UNCHANGED <<series, shelved, records>>
  BY <1>1 DEF Create
<1>4. /\ u \in User /\ c \in Call /\ KnowsDocs(c) /\ KnowsNew(c)
      /\ c.op \in DOMAIN After /\ c.step \in DOMAIN After[c.op]
      /\ c.op \in Creating \cup Versioning \cup {"checkOut"}
      /\ StepFits(c.op, "create", After[c.op]["create"])
  BY <1>1, <1>2, AtStep DEF StepFits
<1>5. PICK next : next = After[c.op]["create"]
  OBVIOUS
<1>6. /\ next = IF c.op \in {"createPwc", "checkOut"} THEN "name" ELSE "resave"
      /\ next # "end"
  BY <1>4, <1>5 DEF StepFits
<1>7. PICK y : y = [c EXCEPT !.new = n]
  OBVIOUS
<1>8. PICK x : x = [y EXCEPT !.step = next]
  OBVIOUS
<1>9. /\ y.op = c.op /\ y.step = c.step
      /\ x.op = c.op /\ x.step = next /\ x.doc = c.doc /\ x.new = n /\ x.made = c.made
      /\ x.major = c.major /\ x.former = c.former /\ x.copy = c.copy
  BY <1>4, <1>7, <1>8 DEF Call
<1>10. call' = [call EXCEPT ![u] = x]
  BY <1>2, <1>3, <1>5, <1>6, <1>7, <1>8, <1>9 DEF Continues
<1>11. seen' = seen
  BY <1>6, <1>9, <1>10, NotSeen
<1>12. SameWork(c, x)
  BY <1>4, <1>9, <1>11, SeriesSame DEF SameWork
<1>13. Story(u, c) /\ InOrder(c) /\ SeenType /\ OneEach /\ RecordsSound
       /\ (c.op = "setContentStream" => ~c.major)
  BY <1>1 DEF Joined
<1>14. n \notin V!Created /\ n \notin live /\ n \notin Archived(records)
  BY <1>3, FreshNowhere
<1>15. (OneEach /\ RecordsSound)' /\ Archived(records)' = Archived(records)
  BY <1>3, <1>13, <1>14, SoundWrites
<1>16. InOrder(x)'
  BY <1>3, <1>4, <1>6, <1>9, <1>13, <1>14, <1>15, InOrderAtRest
     DEF Deleting, Creating, Versioning
<1>17. CASE c.op \notin Versioning
  <2>1. Adds(u, c)
    BY <1>2, <1>4, <1>13, <1>17 DEF Story, Unwritten, Creating
  <2>2. /\ AddsGiven(u, c) /\ live = seen.live /\ rev = seen.rev
        /\ series = NodesOpened(c) /\ Archived(records) = seen.archive
    BY <1>2, <2>1 DEF Adds, Shows
  <2>3. AddsGiven(u, x)' /\ NodesOpened(x)' = NodesOpened(c)
    BY <1>9, <1>12, <2>2, StillGiven
  <2>4. seen.rev[n] = Absent
    BY <1>3, <2>2 DEF V!Fresh
  <2>5. x.step = "resave" => NodesNamed(u, x)' = NodesOpened(x)'
    BY <1>4, <1>6, <1>9, <1>17 DEF NodesNamed, Creating
  <2>6. /\ live' = seen'.live \cup {x.new} /\ rev' = [seen'.rev EXCEPT ![x.new] = x.made]
        /\ series' = NodesOpened(x)' /\ Archived(records)' = seen'.archive
        /\ x.new \in Doc /\ seen'.rev[x.new] = Absent
    BY <1>3, <1>9, <1>11, <1>15, <2>2, <2>3, <2>4
  <2>7. Adds(u, x)'
    BY <1>6, <1>9, <2>3, <2>5, <2>6 DEF Adds, Shows
  <2>8. Story(u, x)'
    BY <1>4, <1>6, <1>9, <1>17, <2>7 DEF Story, Unwritten, Creating, Versioning, Deleting
  <2>9. QED
    BY <1>4, <1>6, <1>9, <1>10, <1>13, <1>15, <1>16, <2>8, GoesOn
<1>18. CASE c.op \in Versioning
  <2>1. RenewsGiven(u, c) /\ Supersedes(c)
    BY <1>2, <1>13, <1>18 DEF Story, Unwritten, Creating, Versioning, Renews
  <2>2. PICK f : f = c.former
    OBVIOUS
  <2>3. /\ f \in Choice(c) /\ (c.op = "checkIn" => f # c.doc)
        /\ c.copy = V!Superseded(seen.rev[f], c.major)
        /\ c.made = V!NextVersion(seen.rev[f], c.major)
        /\ live = Kept(c) /\ rev = [seen.rev EXCEPT ![f] = c.copy]
        /\ series = Returned(c) /\ Archived(records) = seen.archive
    BY <2>1, <2>2 DEF Supersedes, Shows
  <2>4. f \in Doc
    BY <1>4, <1>13, <1>18, <2>3, ChoiceDocs
  <2>5. f \in V!Created
    BY <1>4, <2>2, <2>4, VersionThreadsAssumptions DEF KnowsDocs, Own
  <2>6. n # f
    BY <1>14, <2>5
  <2>7. seen.rev[n] = Absent
    BY <1>3, <1>13, <2>3, <2>4, <2>6 DEF V!Fresh, SeenType
  <2>8. rev' = [seen.rev EXCEPT ![n] = V!NextVersion(seen.rev[f], c.major),
                                ![f] = V!Superseded(seen.rev[f], c.major)]
    BY <1>3, <1>13, <2>3, <2>4, <2>6 DEF SeenType
  <2>9. next = "resave"
    BY <1>6, <1>18 DEF Versioning
  <2>10. RenewsGiven(u, x)' /\ Choice(x)' = Choice(c)
    BY <1>12, <2>1, StillGiven, SameSets
  <2>11. Kept(x)' = Kept(c) /\ Returned(x)' = Returned(c)
    BY <1>2, <1>9, <1>11, <1>12, <2>9, StillGiven DEF Kept, Returned, Left, Freed
  <2>12. Shows(Kept(x) \cup {n},
              [seen.rev EXCEPT ![n] = V!NextVersion(seen.rev[f], x.major),
                               ![f] = V!Superseded(seen.rev[f], x.major)],
              Returned(x), seen.archive)'
    BY <1>3, <1>9, <1>11, <1>15, <2>3, <2>8, <2>11 DEF Shows
  <2>13. Versioned(x, f, n)'
    BY <1>9, <1>11, <2>2, <2>3, <2>7, <2>10, <2>12 DEF Versioned
  <2>14. Renews(u, x)'
    BY <1>9, <2>4, <2>9, <2>10, <2>13 DEF Renews
  <2>15. Story(u, x)'
    BY <1>9, <1>18, <2>9, <2>14 DEF Story, Unwritten, Creating, Versioning, Deleting
  <2>16. QED
    BY <1>4, <1>6, <1>9, <1>10, <1>13, <1>15, <1>16, <2>15, GoesOn
<1>19. QED  BY <1>17, <1>18

LEMMA SameWrite ==
  ASSUME Typed, NEW d, NEW m, Writes(d, m), m = rev[d]
  PROVE  UNCHANGED <<live, rev, series, attached, shelved, records>> /\ failed' = failed
<1>1. d \in live /\ rev' = [rev EXCEPT ![d] = m] /\ failed' = failed
      /\ UNCHANGED <<live, series, attached, shelved, records>>
  BY DEF Writes, Fine
<1>2. rev' = rev
  BY <1>1 DEF Typed, Stored
<1>3. QED  BY <1>1, <1>2

\* What the two specifications write is the same.
LEMMA SameValues ==
  /\ V!VersioningState = Whole!VersioningState
  /\ V!CheckedIn = Whole!CheckedIn
  /\ \A p, v : V!CheckedOut(p, v) = Whole!CheckedOut(p, v)
  /\ \A s : V!Pwc(s) = Whole!Pwc(s)
  /\ \A s, state : V!FirstVersion(s, state) = Whole!FirstVersion(s, state)
  /\ \A f, m : V!NextVersion(f, m) = Whole!NextVersion(f, m)
  /\ \A f, m : V!Superseded(f, m) = Whole!Superseded(f, m)
<1>1. \A s : V!Pwc(s) = Whole!Pwc(s)
  BY DEF V!Pwc, Whole!Pwc, V!NoLabel, Whole!NoLabel
<1>2. \A s, m, l : V!Version(s, m, l) = Whole!Version(s, m, l)
  BY DEF V!Version, Whole!Version
<1>3. \A s, state : V!FirstVersion(s, state) = Whole!FirstVersion(s, state)
  BY <1>1, <1>2 DEF V!FirstVersion, Whole!FirstVersion
<1>4. \A f, m : V!NextVersion(f, m) = Whole!NextVersion(f, m)
  BY <1>2 DEF V!NextVersion, Whole!NextVersion, V!IncreasedVersionLabel,
     Whole!IncreasedVersionLabel
<1>5. \A f, m : V!Superseded(f, m) = Whole!Superseded(f, m)
  BY DEF V!Superseded, Whole!Superseded
<1>6. QED
  BY <1>1, <1>3, <1>4, <1>5 DEF V!VersioningState, Whole!VersioningState,
     V!CheckedIn, Whole!CheckedIn, V!CheckedOut, Whole!CheckedOut

LEMMA WholeCreation ==
  ASSUME NEW u \in User, NEW d \in Doc, NEW s \in Series,
         NEW state \in V!VersioningState, Whole!CreateDocument(u, d, s, state)
  PROVE  WholeStep
BY SameValues DEF WholeStep, Whole!Next, Whole!Create

LEMMA WholeCall ==
  ASSUME NEW u \in User, NEW d \in Doc, Whole!VersioningCall(u, d) \/ Whole!RemovalCall(u, d)
  PROVE  WholeStep
BY DEF WholeStep, Whole!Next

\* The new document has been written, and named if it is a PWC.
LEMMA AddsWhole ==
  ASSUME NEW u \in User, NEW c, c.op \in Creating \cup {"checkOut"}, c.step = "resave",
         Adds(u, c), SeenType, KnowsDocs(c), SeriesOf(c) \in Series, ~Guided,
         live' = live, rev' = rev, series' = series, records' = records, Told("ok")
  PROVE  WholeStep
<1>1. PICK n, s : n = c.new /\ s = SeriesOf(c)
  OBVIOUS
<1>2. /\ AddsGiven(u, c) /\ n \in Doc /\ seen.rev[n] = Absent
      /\ live = seen.live \cup {n} /\ rev = [seen.rev EXCEPT ![n] = c.made]
      /\ series = NodesNamed(u, c) /\ Archived(records) = seen.archive
  BY <1>1 DEF Adds, Shows
<1>3. /\ seen'.live = seen.live \cup {n} /\ seen'.rev = [seen.rev EXCEPT ![n] = c.made]
      /\ seen'.series = NodesNamed(u, c) /\ seen'.archive = seen.archive
      /\ seen'.outcome = "ok"
  BY <1>2 DEF Told, Archived
<1>4. CASE c.op = "checkOut"
  <2>1. /\ Given(u, c) /\ Whole!Current(u, c.doc) /\ c.made = V!Pwc(s)
        /\ seen.series[s].out => seen.rev[c.doc].pwc
    BY <1>1, <1>2, <1>4 DEF AddsGiven
  <2>2. c.doc \in Doc /\ s = seen.rev[c.doc].vs
    BY <1>1, <1>2, <1>4, <2>1 DEF Given, SeenType, Whole!Created
  <2>3. Whole!CheckOut(u, c.doc, n)
    BY <1>1, <1>2, <1>3, <1>4, <2>1, <2>2, SameValues
       DEF Whole!CheckOut, Whole!Fresh, Whole!Returns, Given, NodesNamed, NodesOpened, Nodes
  <2>4. QED  BY <1>2, <2>2, <2>3, WholeCall DEF Whole!VersioningCall
<1>5. CASE c.op \in Creating
  <2>1. seen.series[s] = Absent /\ s \in Series /\ c.op # "checkOut"
    BY <1>1, <1>2, <1>5 DEF AddsGiven, Creating
  <2>2. PICK state \in V!VersioningState :
          c.made = V!FirstVersion(s, state) /\ (c.op = "createPwc" <=> state = "CHECKEDOUT")
    BY <1>1, <1>2, <2>1 DEF AddsGiven
  <2>3. seen'.series = [seen.series EXCEPT ![s] =
                          IF state = "CHECKEDOUT" THEN V!CheckedOut(n, u) ELSE V!CheckedIn]
    BY <1>1, <1>3, <1>5, <2>1, <2>2 DEF NodesNamed, NodesOpened, Nodes, Creating
  <2>4. Whole!CreateDocument(u, n, s, state)
    BY <1>2, <1>3, <2>1, <2>2, <2>3, SameValues
       DEF Whole!CreateDocument, Whole!Fresh, Whole!Returns
  <2>5. QED  BY <1>2, <2>1, <2>4, WholeCreation
<1>6. QED  BY <1>4, <1>5

LEMMA JoinedResave ==
  ASSUME NEW u, Single(u), Typed, Typed', Grows, Joined(u), Remembers, Resave(u)
  PROVE  Joined(u)' /\ WholeStep
<1>1. PICK c : c = call[u]
  OBVIOUS
<1>2. c.step = "resave" /\ Continues(u, c)
  BY <1>1 DEF Resave, Goes
<1>3. PICK m \in {c.made, rev[c.new]} : Writes(c.new, m)
  BY <1>1 DEF Resave
<1>4. /\ u \in User /\ c \in Call /\ KnowsDocs(c) /\ KnowsNew(c)
      /\ c.op \in DOMAIN After /\ c.step \in DOMAIN After[c.op]
      /\ c.op \in Creating \cup Versioning \cup {"checkOut"}
      /\ After[c.op][c.step] = IF c.op \in Versioning THEN "resaveFormer" ELSE "end"
  BY <1>1, <1>2, AtStep DEF StepFits
<1>5. Story(u, c) /\ InOrder(c) /\ SeenType /\ OneEach /\ RecordsSound
      /\ (c.op = "setContentStream" => ~c.major)
  BY <1>1 DEF Joined
<1>6. attached = live /\ Archived(records) \cap live = {}
  BY <1>2, <1>5, InOrderAtRest
<1>7. CASE c.op \notin Versioning
  <2>1. Adds(u, c)
    BY <1>2, <1>4, <1>5, <1>7 DEF Story, Unwritten, Creating
  <2>2. c.new \in Doc /\ rev = [seen.rev EXCEPT ![c.new] = c.made]
    BY <1>2, <2>1 DEF Adds, Shows
  <2>3. rev[c.new] = c.made
    BY <1>5, <2>2 DEF SeenType
  <2>4. UNCHANGED <<live, rev, series, attached, shelved, records>> /\ failed' = failed
    BY <1>3, <2>3, SameWrite
  <2>5. (OneEach /\ RecordsSound)' /\ Archived(records)' = Archived(records)
    BY <1>5, <2>4, RecordsStay
  <2>6. call' = [call EXCEPT ![u] = Rest]
    BY <1>2, <1>4, <1>7 DEF Continues
  <2>7. Joined(u)' /\ (seen' = seen \/ Ending)
    BY <1>1, <1>2, <1>6, <2>4, <2>5, <2>6, EndsSeen
  <2>8. SeriesOf(c) \in Series
    BY <1>2, <1>4 DEF KnowsNew, V!Revision
  <2>9. CASE Ending
    <3>1. Told("ok") /\ ~Guided
      BY <2>4, <2>9 DEF Ending, Single
    <3>2. /\ c.op \in Creating \cup {"checkOut"}
          /\ live' = live /\ rev' = rev /\ series' = series /\ records' = records
      BY <1>4, <1>7, <2>4
    <3>3. u \in User /\ KnowsDocs(c) /\ SeenType /\ c.step = "resave"
      BY <1>2, <1>4, <1>5
    <3>4. QED
      BY <2>1, <2>7, <2>8, <3>1, <3>2, <3>3, AddsWhole
  <2>10. QED  BY <2>7, <2>9, SeenSame
<1>8. CASE c.op \in Versioning
  <2>1. RenewsGiven(u, c) /\ \E f, n \in Doc : Versioned(c, f, n)
    BY <1>2, <1>5, <1>8 DEF Story, Unwritten, Creating, Versioning, Renews
  <2>2. PICK f \in Doc, n \in Doc : Versioned(c, f, n)
    BY <2>1
  <2>3. /\ f \in Choice(c) /\ (c.op = "checkIn" => f # c.doc)
        /\ n = c.new /\ seen.rev[n] = Absent /\ f = c.former
        /\ c.copy = V!Superseded(seen.rev[f], c.major)
        /\ c.made = V!NextVersion(seen.rev[f], c.major)
        /\ live = Kept(c) \cup {n} /\ series = Returned(c)
        /\ Archived(records) = seen.archive
        /\ rev = [seen.rev EXCEPT ![n] = c.made, ![f] = c.copy]
    BY <1>2, <2>2 DEF Versioned, Shows
  <2>4. n # f
    BY <1>5, <2>1, <2>3, ChoiceSeen DEF Whole!Created
  <2>5. rev[c.new] = c.made
    BY <1>5, <2>3, <2>4 DEF SeenType
  <2>6. UNCHANGED <<live, rev, series, attached, shelved, records>> /\ failed' = failed
    BY <1>3, <2>5, SameWrite
  <2>7. (OneEach /\ RecordsSound)' /\ Archived(records)' = Archived(records)
    BY <1>5, <2>6, RecordsStay
  <2>8. PICK x : x = [c EXCEPT !.step = "resaveFormer"]
    OBVIOUS
  <2>9. /\ x.op = c.op /\ x.step = "resaveFormer" /\ x.doc = c.doc /\ x.new = c.new
        /\ x.made = c.made /\ x.major = c.major /\ x.former = c.former /\ x.copy = c.copy
    BY <1>4, <2>8 DEF Call
  <2>10. call' = [call EXCEPT ![u] = x]
    BY <1>2, <1>4, <1>8, <2>8 DEF Continues
  <2>11. seen' = seen
    BY <2>9, <2>10, NotSeen
  <2>12. SameWork(c, x)
    BY <1>4, <2>9, <2>11, SeriesSame DEF SameWork
  <2>13. RenewsGiven(u, x)' /\ Choice(x)' = Choice(c)
    BY <2>1, <2>12, StillGiven, SameSets
  <2>14. Kept(x)' = Kept(c) /\ Returned(x)' = Returned(c)
    BY <1>2, <2>9, <2>11, <2>12, StillGiven DEF Kept, Returned, Left, Freed
  <2>15. Versioned(x, f, n)'
    BY <2>2, <2>3, <2>6, <2>7, <2>9, <2>11, <2>13, <2>14 DEF Versioned, Shows
  <2>16. Renews(u, x)'
    BY <2>9, <2>13, <2>15 DEF Renews
  <2>17. Story(u, x)'
    BY <1>8, <2>9, <2>16 DEF Story, Unwritten, Creating, Versioning, Deleting
  <2>18. InOrder(x)'
    BY <1>6, <2>6, <2>7, <2>9, InOrderAtRest
  <2>19. QED
    BY <1>1, <1>2, <1>5, <2>7, <2>9, <2>10, <2>17, <2>18, GoesOn
<1>9. QED  BY <1>7, <1>8

-----------------------------------------------------------------------------
(***************************************************************************)
(* checkIn, setContentStream and saveAllVersions                           *)
(***************************************************************************)

\* The new version and the superseded one have been written.
LEMMA RenewsWhole ==
  ASSUME NEW u \in User, NEW c, c.op \in Versioning,
         c.step \in {"resaveFormer", "latest", "lockLatest"},
         Renews(u, c), SeenType, c.major \in BOOLEAN,
         c.op = "setContentStream" => ~c.major, ~Guided,
         live' = live, rev' = rev, series' = series, records' = records, Told("ok")
  PROVE  WholeStep
<1>1. RenewsGiven(u, c) /\ \E f, n \in Doc : Versioned(c, f, n)
  BY DEF Renews
<1>2. PICK f \in Doc, n \in Doc : Versioned(c, f, n)
  BY <1>1
<1>3. PICK d, s : d = c.doc /\ s = SeriesOf(c)
  OBVIOUS
<1>4. /\ d \in seen.live /\ seen.rev[d].vs = s /\ d \in Doc
      /\ c.op # "saveVersion" => Whole!Permitted(u, d)
      /\ c.op = "setContentStream" => Whole!Current(u, d) /\ ~seen.rev[d].pwc
      /\ c.op = "saveVersion" => seen.rev[d].latest
  BY <1>1, <1>3 DEF RenewsGiven, SeenType
<1>5. /\ f \in Choice(c) /\ (c.op = "checkIn" => f # d) /\ seen.rev[n] = Absent
      /\ seen'.live = Kept(c) \cup {n} /\ seen'.series = Returned(c)
      /\ seen'.rev = [seen.rev EXCEPT ![n] = V!NextVersion(seen.rev[f], c.major),
                                      ![f] = V!Superseded(seen.rev[f], c.major)]
      /\ seen'.archive = seen.archive /\ seen'.outcome = "ok"
  BY <1>2, <1>3 DEF Versioned, Shows, Told, Archived
<1>6. CASE c.op = "checkIn"
  <2>1. f \in Whole!LatestVersions(s) \ {d}
    BY <1>3, <1>5, <1>6 DEF Choice
  <2>2. /\ seen'.live = (seen.live \ {d}) \cup {n}
        /\ seen'.series = [seen.series EXCEPT ![s] = Whole!CheckedIn]
    BY <1>3, <1>5, <1>6, SameValues DEF Kept, Left, Returned, Freed, Nodes
  <2>3. Whole!CheckIn(u, d, n, c.major)
    BY <1>4, <1>5, <1>6, <2>1, <2>2, SameValues
       DEF Whole!CheckIn, Whole!Fresh, Whole!Returns
  <2>4. QED  BY <1>4, <2>3, WholeCall DEF Whole!VersioningCall
<1>7. CASE c.op = "setContentStream"
  <2>1. f = d /\ c.major = FALSE
    BY <1>3, <1>5, <1>7 DEF Choice
  <2>2. seen'.live = seen.live \cup {n} /\ seen'.series = seen.series
    BY <1>5, <1>7 DEF Kept, Returned
  <2>3. Whole!SetContentStream(u, d, n)
    BY <1>4, <1>5, <1>7, <2>1, <2>2, SameValues
       DEF Whole!SetContentStream, Whole!Fresh, Whole!Returns
  <2>4. QED  BY <1>4, <2>3, WholeCall DEF Whole!VersioningCall
<1>8. CASE c.op = "saveVersion"
  <2>1. f = d
    BY <1>3, <1>5, <1>8 DEF Choice
  <2>2. seen'.live = seen.live \cup {n} /\ seen'.series = seen.series
    BY <1>5, <1>8 DEF Kept, Returned
  <2>3. Whole!UpdateWithoutCheckInOut(d, n, c.major)
    BY <1>4, <1>5, <1>8, <2>1, <2>2, SameValues
       DEF Whole!UpdateWithoutCheckInOut, Whole!Fresh, Whole!Returns
  <2>4. QED  BY <1>4, <2>3, WholeCall DEF Whole!VersioningCall
<1>9. QED  BY <1>6, <1>7, <1>8 DEF Versioning

LEMMA JoinedSupersede ==
  ASSUME NEW u, Single(u), Typed, Typed', Grows, Joined(u), Remembers, Supersede(u)
  PROVE  Joined(u)' /\ WholeStep
<1>1. PICK c : c = call[u]
  OBVIOUS
<1>2. PICK f, k, m : /\ f = c.former /\ k = V!Superseded(c.copy, c.major)
                     /\ m = V!NextVersion(c.copy, c.major)
  OBVIOUS
<1>3. /\ c.step = "supersede" /\ Continues(u, [c EXCEPT !.copy = k, !.made = m])
      /\ f \in live /\ rev' = [rev EXCEPT ![f] = k]
      /\ UNCHANGED <<live, series, attached, shelved, records>>
  BY <1>1, <1>2 DEF Supersede, Goes, Writes
<1>4. /\ u \in User /\ c \in Call /\ KnowsDocs(c)
      /\ c.op \in DOMAIN After /\ c.step \in DOMAIN After[c.op]
      /\ c.op \in Versioning /\ After[c.op][c.step] = "create"
  BY <1>1, <1>3, AtStep DEF StepFits
<1>5. PICK y : y = [c EXCEPT !.copy = k, !.made = m]
  OBVIOUS
<1>6. PICK x : x = [y EXCEPT !.step = "create"]
  OBVIOUS
<1>7. /\ y.op = c.op /\ y.step = c.step /\ x.op = c.op /\ x.step = "create"
      /\ x.doc = c.doc /\ x.former = f /\ x.copy = k /\ x.made = m /\ x.major = c.major
  BY <1>2, <1>4, <1>5, <1>6 DEF Call
<1>8. call' = [call EXCEPT ![u] = x]
  BY <1>3, <1>4, <1>5, <1>6, <1>7 DEF Continues
<1>9. seen' = seen
  BY <1>7, <1>8, NotSeen
<1>10. SameWork(c, x)
  <2>1. c.doc # NoDoc
    BY <1>4 DEF KnowsDocs, Versioning, Creating
  <2>2. QED  BY <1>4, <1>7, <1>9, <2>1, SeriesSame DEF SameWork
<1>11. Story(u, c) /\ InOrder(c) /\ SeenType /\ OneEach /\ RecordsSound
       /\ (c.op = "setContentStream" => ~c.major)
  BY <1>1 DEF Joined
<1>12. RenewsGiven(u, c) /\ Chooses(c)
  BY <1>3, <1>4, <1>11 DEF Story, Unwritten, Creating, Versioning, Renews
<1>13. /\ Chosen(c) /\ live = Kept(c) /\ rev = seen.rev /\ series = Returned(c)
       /\ Archived(records) = seen.archive
  BY <1>12 DEF Chooses, Shows
<1>14. f \in Doc /\ f # NoDoc
  BY <1>3, VersionThreadsAssumptions DEF Typed, Stored, V!Created
<1>15. f \in Choice(c) /\ c.copy = seen.rev[f]
  BY <1>2, <1>13, <1>14 DEF Chosen
<1>16. c.op = "checkIn" => f # c.doc
  BY <1>3, <1>13 DEF Kept, Left
<1>17. f \notin Archived(records)
  BY <1>3, <1>11, InOrderAtRest
<1>18. (OneEach /\ RecordsSound)' /\ Archived(records)' = Archived(records)
  BY <1>3, <1>11, <1>14, <1>17, SoundWrites
<1>19. RenewsGiven(u, x)' /\ Choice(x)' = Choice(c)
  BY <1>10, <1>12, StillGiven, SameSets
<1>20. Kept(x)' = Kept(c) /\ Returned(x)' = Returned(c)
  BY <1>3, <1>7, <1>9, <1>10, StillGiven DEF Kept, Returned, Left, Freed
<1>21. Supersedes(x)'
  BY <1>2, <1>3, <1>7, <1>9, <1>13, <1>15, <1>16, <1>18, <1>19, <1>20
     DEF Supersedes, Shows
<1>22. Story(u, x)'
  BY <1>4, <1>7, <1>19, <1>21
     DEF Story, Unwritten, Creating, Versioning, Deleting, Renews
<1>23. InOrder(x)'
  BY <1>3, <1>7, <1>11, <1>18, InOrderAtRest
<1>24. QED
  BY <1>1, <1>3, <1>7, <1>8, <1>11, <1>18, <1>22, <1>23, GoesOn

\* checkIn throws: the view has no latest version, or it was the document
\* that is checked in.
LEMMA JoinedSupersedeFails ==
  ASSUME NEW u, Single(u), Typed, Typed', Grows, Joined(u), Remembers, SupersedeFails(u)
  PROVE  Joined(u)' /\ WholeStep
<1>1. PICK c, d, s : c = call[u] /\ d = c.doc /\ s = SeriesOf(c)
  OBVIOUS
<1>2. /\ c.step = "supersede" /\ c.former \notin live
      /\ call' = [call EXCEPT ![u] = Rest] /\ failed' = failed \cup {c.op}
      /\ UNCHANGED <<live, rev, series, attached, shelved, records>>
  BY <1>1 DEF SupersedeFails, Goes, Throws, Ends, stores
<1>3. u \in User /\ c.op \in Versioning /\ KnowsDocs(c)
  BY <1>1, <1>2, AtStep DEF StepFits
<1>4. Story(u, c) /\ InOrder(c) /\ SeenType /\ OneEach /\ RecordsSound
  BY <1>1 DEF Joined
<1>5. RenewsGiven(u, c) /\ Chooses(c)
  BY <1>2, <1>3, <1>4 DEF Story, Unwritten, Creating, Versioning, Renews
<1>6. /\ Chosen(c) /\ live = Kept(c) /\ rev = seen.rev /\ series = Returned(c)
      /\ Archived(records) = seen.archive
  BY <1>5 DEF Chooses, Shows
<1>7. d \in seen.live /\ d \in Doc /\ seen.rev[d].vs = s
  BY <1>1, <1>4, <1>5 DEF RenewsGiven, SeenType
<1>8. c.op = "checkIn"
  BY <1>1, <1>2, <1>6, <1>7 DEF Chosen, Choice, Kept
<1>9. Whole!LatestVersions(s) = {} \/ seen.rev[d].latest
  <2>1. CASE c.former = NoDoc
    BY <1>1, <1>6, <1>8, <2>1 DEF Chosen, Choice
  <2>2. CASE c.former # NoDoc
    <3>1. c.former \in Whole!LatestVersions(s)
      BY <1>1, <1>6, <1>8, <2>2 DEF Chosen, Choice
    <3>2. c.former \in seen.live /\ seen.rev[c.former].latest
      BY <3>1 DEF Whole!LatestVersions, Whole!Versions
    <3>3. c.former = d
      BY <1>1, <1>2, <1>6, <1>8, <3>2 DEF Kept, Left
    <3>4. QED  BY <3>2, <3>3
  <2>3. QED  BY <2>1, <2>2
<1>10. (OneEach /\ RecordsSound)' /\ Archived(records)' = Archived(records)
  BY <1>2, <1>4, RecordsStay
<1>11. attached' = live' /\ Archived(records)' \cap live' = {}
  BY <1>2, <1>4, <1>10, InOrderAtRest
<1>12. Joined(u)' /\ (seen' = seen \/ Ending)
  BY <1>1, <1>2, <1>10, <1>11, EndsSeen
<1>13. ASSUME NEW how \in {"ok", "failed"}, Told(how)  PROVE WholeStep
  <2>1. /\ seen'.live = seen.live \ {d} /\ seen'.rev = seen.rev
        /\ seen'.series = [seen.series EXCEPT ![s] = Whole!CheckedIn]
        /\ seen'.archive = seen.archive /\ seen'.outcome = how
    BY <1>1, <1>2, <1>6, <1>8, <1>10, <1>13, SameValues
       DEF Told, Kept, Left, Returned, Freed, Nodes
  <2>2. Whole!Permitted(u, d) /\ ~Guided
    BY <1>1, <1>5, <1>8 DEF RenewsGiven, Single
  <2>3. CASE how = "failed"
    <3>1. Whole!CheckInFails(u, d)
      BY <1>7, <1>9, <2>1, <2>2, <2>3 DEF Whole!CheckInFails, Whole!Returns
    <3>2. QED  BY <1>3, <1>7, <3>1, WholeCall DEF Whole!VersioningCall
  <2>4. CASE how = "ok"
    <3>1. Whole!CancelCheckOut(u, d)
      BY <1>7, <2>1, <2>2, <2>4 DEF Whole!CancelCheckOut, Whole!Returns
    <3>2. QED  BY <1>3, <1>7, <3>1, WholeCall DEF Whole!VersioningCall
  <2>5. QED  BY <2>3, <2>4
<1>14. QED  BY <1>12, <1>13, SeenSame DEF Ending

LEMMA JoinedResaveFormer ==
  ASSUME NEW u, Single(u), Typed, Typed', Grows, Joined(u), Remembers, ResaveFormer(u)
  PROVE  Joined(u)' /\ WholeStep
<1>1. PICK c : c = call[u]
  OBVIOUS
<1>2. c.step = "resaveFormer" /\ Continues(u, c) /\ Writes(c.former, c.copy)
  BY <1>1 DEF ResaveFormer, Goes
<1>3. /\ u \in User /\ c \in Call /\ KnowsDocs(c)
      /\ c.op \in DOMAIN After /\ c.step \in DOMAIN After[c.op] /\ c.op \in Versioning
      /\ After[c.op][c.step] = IF c.op = "checkIn" THEN "latest" ELSE "end"
  BY <1>1, <1>2, AtStep DEF StepFits
<1>4. Story(u, c) /\ InOrder(c) /\ SeenType /\ OneEach /\ RecordsSound
      /\ (c.op = "setContentStream" => ~c.major)
  BY <1>1 DEF Joined
<1>5. Renews(u, c)
  BY <1>2, <1>3, <1>4 DEF Story, Unwritten, Versioning
<1>6. RenewsGiven(u, c) /\ \E f, n \in Doc : Versioned(c, f, n)
  BY <1>2, <1>5 DEF Renews
<1>7. PICK f \in Doc, n \in Doc : Versioned(c, f, n)
  BY <1>6
<1>8. /\ f = c.former /\ c.copy = V!Superseded(seen.rev[f], c.major)
      /\ rev = [seen.rev EXCEPT ![n] = V!NextVersion(seen.rev[f], c.major), ![f] = c.copy]
  BY <1>2, <1>7 DEF Versioned, Shows
<1>9. rev[c.former] = c.copy
  BY <1>4, <1>8 DEF SeenType
<1>10. UNCHANGED <<live, rev, series, attached, shelved, records>> /\ failed' = failed
  BY <1>2, <1>9, SameWrite
<1>11. (OneEach /\ RecordsSound)' /\ Archived(records)' = Archived(records)
  BY <1>4, <1>10, RecordsStay
<1>12. attached = live /\ Archived(records) \cap live = {}
  BY <1>2, <1>4, InOrderAtRest
<1>13. CASE c.op # "checkIn"
  <2>1. call' = [call EXCEPT ![u] = Rest]
    BY <1>2, <1>3, <1>13 DEF Continues
  <2>2. Joined(u)' /\ (seen' = seen \/ Ending)
    BY <1>1, <1>2, <1>10, <1>11, <1>12, <2>1, EndsSeen
  <2>3. ASSUME Ending  PROVE WholeStep
    <3>1. Told("ok") /\ ~Guided
      BY <1>10, <2>3 DEF Ending, Single
    <3>2. c.major \in BOOLEAN
      BY <1>3 DEF Call
    <3>3. QED  BY <1>2, <1>3, <1>4, <1>5, <1>10, <3>1, <3>2, RenewsWhole
  <2>4. QED  BY <2>2, <2>3, SeenSame
<1>14. CASE c.op = "checkIn"
  <2>1. PICK x : x = [c EXCEPT !.step = "latest"]
    OBVIOUS
  <2>2. /\ x.op = c.op /\ x.step = "latest" /\ x.doc = c.doc /\ x.made = c.made
        /\ x.major = c.major
    BY <1>3, <2>1 DEF Call
  <2>3. call' = [call EXCEPT ![u] = x]
    BY <1>2, <1>3, <1>14, <2>1 DEF Continues
  <2>4. seen' = seen
    BY <2>2, <2>3, NotSeen
  <2>5. SameWork(c, x)
    BY <1>3, <2>2, <2>4, SeriesSame DEF SameWork
  <2>6. RenewsGiven(u, x)' /\ Choice(x)' = Choice(c)
    BY <1>6, <2>5, StillGiven, SameSets
  <2>7. Kept(x)' = Kept(c) /\ Returned(x)' = Returned(c)
    BY <1>2, <2>2, <2>4, <2>5, StillGiven DEF Kept, Returned, Left, Freed
  <2>8. Versioned(x, f, n)'
    BY <1>7, <1>10, <1>11, <2>2, <2>4, <2>6, <2>7 DEF Versioned, Shows
  <2>9. Renews(u, x)'
    BY <2>2, <2>6, <2>8 DEF Renews
  <2>10. Story(u, x)'
    BY <1>14, <2>2, <2>9 DEF Story, Unwritten, Creating, Versioning, Deleting
  <2>11. InOrder(x)'
    BY <1>10, <1>11, <1>12, <2>2, InOrderAtRest
  <2>12. QED
    BY <1>1, <1>2, <1>11, <1>14, <2>2, <2>3, <2>10, <2>11, GoesOn
<1>15. QED  BY <1>13, <1>14

-----------------------------------------------------------------------------
(***************************************************************************)
(* cancelCheckOut, and the part of it that checkIn runs                    *)
(***************************************************************************)

\* Steps that neither write a revision nor file a record.
LEMMA JoinedRemove ==
  ASSUME NEW u, Single(u), Typed, Typed', Grows, Joined(u), Remembers, Remove(u)
  PROVE  Joined(u)' /\ WholeStep
<1>1. PICK c : c = call[u]
  OBVIOUS
<1>2. PICK d : d = IF c.at = NoDoc THEN c.doc ELSE c.at
  OBVIOUS
<1>3. /\ c.step = "remove" /\ Continues(u, c)
      /\ live' = live \ {d} /\ attached' = attached \ {d}
      /\ UNCHANGED <<rev, series, shelved, records>>
  BY <1>1, <1>2 DEF Remove, Goes
<1>4. /\ u \in User /\ c \in Call /\ KnowsDocs(c) /\ KnowsPlace(c)
      /\ c.op \in DOMAIN After /\ c.step \in DOMAIN After[c.op]
      /\ c.op \in Returning \cup Deleting
      /\ StepFits(c.op, "remove", After[c.op]["remove"])
  BY <1>1, <1>3, AtStep DEF StepFits
<1>5. PICK next : next = After[c.op]["remove"]
  OBVIOUS
<1>6. /\ c.op \in Returning => next = "clear"
      /\ c.op = "deleteVersion" => next = "latest"
      /\ c.op = "deleteSeries" => next = "detach"
      /\ next # "end"
  BY <1>4, <1>5 DEF StepFits, Deleting
<1>7. PICK x : x = [c EXCEPT !.step = next]
  OBVIOUS
<1>8. /\ x.op = c.op /\ x.step = next /\ x.doc = c.doc /\ x.made = c.made /\ x.at = c.at
      /\ x.major = c.major /\ x.former = c.former /\ x.copy = c.copy /\ x.todo = c.todo
  BY <1>4, <1>7 DEF Call
<1>9. call' = [call EXCEPT ![u] = x]
  BY <1>3, <1>5, <1>6, <1>7 DEF Continues
<1>10. seen' = seen
  BY <1>6, <1>8, <1>9, NotSeen
<1>11. SameWork(c, x)
  BY <1>4, <1>8, <1>10, SeriesSame DEF SameWork
<1>12. Story(u, c) /\ InOrder(c) /\ OneEach /\ RecordsSound
       /\ (c.op = "setContentStream" => ~c.major)
  BY <1>1 DEF Joined
<1>13. (OneEach /\ RecordsSound)' /\ Archived(records)' = Archived(records)
  BY <1>3, <1>12, RecordsStay
<1>14. c.op \in Returning => d = c.doc /\ Away(c) = {} /\ Twice(c) = {}
  BY <1>2, <1>4 DEF KnowsPlace, Away, Twice, Returning, Deleting
<1>15. c.op \in Deleting => d = c.at /\ Away(c) = {d} /\ Twice(c) = {d}
  BY <1>2, <1>3, <1>4 DEF KnowsPlace, Away, Twice
<1>16. attached' = live' /\ Archived(records)' \cap live' = {}
  BY <1>3, <1>4, <1>12, <1>13, <1>14, <1>15 DEF InOrder
<1>17. InOrder(x)'
  BY <1>4, <1>6, <1>8, <1>16, InOrderAtRest DEF Deleting
<1>18. Given(u, x)' <=> Given(u, c)
  BY <1>11, StillGiven
<1>19. CASE c.op = "cancelCheckOut"
  <2>1. next = "clear" /\ d = c.doc
    BY <1>6, <1>14, <1>19 DEF Returning
  <2>2. Cancels(u, c)
    BY <1>3, <1>12, <1>19 DEF Story, Unwritten
  <2>3. Cancels(u, x)'
    BY <1>3, <1>8, <1>10, <1>13, <1>18, <2>1, <2>2 DEF Cancels, Shows, Left, Freed
  <2>4. Story(u, x)'
    BY <1>8, <1>19, <2>1, <2>3 DEF Story, Unwritten, Creating, Versioning, Deleting
  <2>5. QED
    BY <1>1, <1>3, <1>6, <1>8, <1>9, <1>12, <1>13, <1>17, <2>4, GoesOn
<1>20. CASE c.op = "checkIn"
  <2>1. next = "clear" /\ d = c.doc
    BY <1>6, <1>14, <1>20 DEF Returning
  <2>2. RenewsGiven(u, c) /\ Chooses(c)
    BY <1>3, <1>12, <1>20 DEF Story, Unwritten, Renews, Versioning
  <2>3. RenewsGiven(u, x)' /\ Choice(x)' = Choice(c)
    BY <1>11, <2>2, StillGiven, SameSets
  <2>4. Chooses(x)'
    BY <1>3, <1>8, <1>10, <1>13, <1>20, <2>1, <2>2, <2>3
       DEF Chooses, Chosen, Shows, Kept, Returned, Left, Freed
  <2>5. Story(u, x)'
    BY <1>8, <1>20, <2>1, <2>3, <2>4
       DEF Story, Unwritten, Creating, Versioning, Deleting, Renews
  <2>6. QED
    BY <1>1, <1>3, <1>6, <1>8, <1>9, <1>12, <1>13, <1>17, <2>5, GoesOn
<1>21. CASE c.op \in Deleting
  <2>1. Deletes(u, c)
    BY <1>3, <1>12, <1>21 DEF Story, Unwritten, Deleting
  <2>2. /\ Given(u, c) /\ c.todo \subseteq Targets(c)
        /\ c.op = "deleteVersion" => c.todo = {}
        /\ rev = seen.rev /\ series = seen.series
        /\ d \in Taken(c) /\ live = seen.live \ (Taken(c) \ {d})
        /\ Archived(records) = seen.archive \cup Taken(c)
    BY <1>3, <1>15, <1>21, <2>1 DEF Deletes
  <2>3. Targets(x)' = Targets(c) /\ Taken(x)' = Taken(c)
    BY <1>8, <1>11, SameSets DEF Taken
  <2>4. live' = seen.live \ Taken(c)
    BY <1>3, <2>2
  <2>5. x.step \in {"latest", "detach"} /\ (x.op = "deleteVersion" => x.step = "latest")
    BY <1>6, <1>8, <1>21 DEF Deleting
  <2>6. Deletes(u, x)'
    BY <1>3, <1>8, <1>10, <1>13, <1>18, <2>2, <2>3, <2>4, <2>5 DEF Deletes
  <2>7. Story(u, x)'
    BY <1>8, <1>21, <2>5, <2>6 DEF Story, Unwritten, Creating, Versioning, Deleting
  <2>8. QED
    BY <1>1, <1>3, <1>6, <1>8, <1>9, <1>12, <1>13, <1>17, <2>7, GoesOn
<1>22. QED  BY <1>4, <1>19, <1>20, <1>21 DEF Returning

LEMMA JoinedClear ==
  ASSUME NEW u, Single(u), Typed, Typed', Grows, Joined(u), Remembers, Clear(u)
  PROVE  Joined(u)' /\ WholeStep
<1>1. PICK c : c = call[u]
  OBVIOUS
<1>2. /\ c.step = "clear" /\ Continues(u, c)
      /\ series' = [series EXCEPT ![rev[c.doc].vs] = V!CheckedIn]
      /\ UNCHANGED <<live, rev, attached, shelved, records>>
  BY <1>1 DEF Clear, Goes
<1>3. /\ u \in User /\ c \in Call /\ KnowsDocs(c)
      /\ c.op \in DOMAIN After /\ c.step \in DOMAIN After[c.op]
      /\ c.op \in Returning
      /\ After[c.op][c.step] = IF c.op = "checkIn" THEN "supersede" ELSE "latest"
  BY <1>1, <1>2, AtStep DEF StepFits
<1>4. PICK next : next = IF c.op = "checkIn" THEN "supersede" ELSE "latest"
  OBVIOUS
<1>5. PICK x : x = [c EXCEPT !.step = next]
  OBVIOUS
<1>6. /\ x.op = c.op /\ x.step = next /\ x.doc = c.doc /\ x.made = c.made
      /\ x.major = c.major /\ x.former = c.former /\ x.copy = c.copy /\ next # "end"
  BY <1>3, <1>4, <1>5 DEF Call
<1>7. call' = [call EXCEPT ![u] = x]
  BY <1>2, <1>3, <1>4, <1>5, <1>6 DEF Continues
<1>8. seen' = seen
  BY <1>6, <1>7, NotSeen
<1>9. SameWork(c, x)
  BY <1>3, <1>6, <1>8, SeriesSame DEF SameWork
<1>10. Story(u, c) /\ InOrder(c) /\ OneEach /\ RecordsSound
       /\ (c.op = "setContentStream" => ~c.major)
  BY <1>1 DEF Joined
<1>11. (OneEach /\ RecordsSound)' /\ Archived(records)' = Archived(records)
  BY <1>2, <1>10, RecordsStay
<1>12. InOrder(x)'
  BY <1>2, <1>3, <1>4, <1>6, <1>10, <1>11, InOrderAtRest DEF Deleting, Returning
<1>13. SeriesOf(c) = rev[c.doc].vs
  BY <1>3 DEF SeriesOf, KnowsDocs, Creating, Returning
<1>14. CASE c.op = "cancelCheckOut"
  <2>1. Cancels(u, c)
    BY <1>2, <1>10, <1>14 DEF Story, Unwritten
  <2>2. series' = Nodes(c, V!CheckedIn)
    BY <1>2, <1>13, <2>1 DEF Cancels, Shows, Freed, Nodes
  <2>3. Given(u, x)' /\ Nodes(x, V!CheckedIn)' = Nodes(c, V!CheckedIn)
    BY <1>9, <2>1, StillGiven DEF Cancels
  <2>4. Freed(x)' = series' /\ Left(x)' = live'
    BY <1>2, <1>4, <1>6, <1>8, <1>14, <2>1, <2>2, <2>3 DEF Freed, Left, Cancels, Shows
  <2>5. Cancels(u, x)'
    BY <1>2, <1>8, <1>11, <2>1, <2>3, <2>4 DEF Cancels, Shows
  <2>6. Story(u, x)'
    BY <1>4, <1>6, <1>14, <2>5 DEF Story, Unwritten, Creating, Versioning, Deleting
  <2>7. QED
    BY <1>1, <1>2, <1>6, <1>7, <1>10, <1>11, <1>12, <2>6, GoesOn
<1>15. CASE c.op = "checkIn"
  <2>1. RenewsGiven(u, c) /\ Chooses(c)
    BY <1>2, <1>10, <1>15 DEF Story, Unwritten, Renews, Versioning
  <2>2. /\ Chosen(c) /\ live = seen.live \ {c.doc} /\ rev = seen.rev
        /\ series = seen.series /\ Archived(records) = seen.archive
    BY <1>2, <1>15, <2>1 DEF Chooses, Shows, Kept, Left, Returned, Freed
  <2>3. series' = Nodes(c, V!CheckedIn)
    BY <1>2, <1>13, <2>2 DEF Nodes
  <2>4. RenewsGiven(u, x)' /\ Choice(x)' = Choice(c)
        /\ Nodes(x, V!CheckedIn)' = Nodes(c, V!CheckedIn)
    BY <1>9, <2>1, StillGiven, SameSets
  <2>5. Returned(x)' = series' /\ Kept(x)' = live'
    BY <1>2, <1>4, <1>6, <1>8, <1>15, <2>2, <2>3, <2>4 DEF Freed, Left, Kept, Returned
  <2>6. Chooses(x)'
    BY <1>2, <1>6, <1>8, <1>11, <2>2, <2>4, <2>5 DEF Chooses, Chosen, Shows
  <2>7. Story(u, x)'
    BY <1>4, <1>6, <1>15, <2>4, <2>6
       DEF Story, Unwritten, Creating, Versioning, Deleting, Renews
  <2>8. QED
    BY <1>1, <1>2, <1>6, <1>7, <1>10, <1>11, <1>12, <2>7, GoesOn
<1>16. QED  BY <1>3, <1>14, <1>15 DEF Returning

\* The document is gone and the series is free.
LEMMA CancelsWhole ==
  ASSUME NEW u \in User, NEW c, c.op = "cancelCheckOut", c.step \in {"latest", "lockLatest"},
         Cancels(u, c), SeenType, ~Guided,
         live' = live, rev' = rev, series' = series, records' = records, Told("ok")
  PROVE  WholeStep
<1>1. PICK d : d = c.doc
  OBVIOUS
<1>2. /\ d \in seen.live /\ seen.rev[d].vs = SeriesOf(c) /\ Whole!Permitted(u, d)
      /\ d \in Doc
  BY <1>1 DEF Cancels, Given, SeenType
<1>3. /\ seen'.live = seen.live \ {d} /\ seen'.rev = seen.rev
      /\ seen'.series = [seen.series EXCEPT ![SeriesOf(c)] = Whole!CheckedIn]
      /\ seen'.archive = seen.archive /\ seen'.outcome = "ok"
  BY <1>1, SameValues DEF Cancels, Shows, Told, Left, Freed, Nodes, Archived
<1>4. Whole!CancelCheckOut(u, d)
  BY <1>2, <1>3 DEF Whole!CancelCheckOut, Whole!Returns
<1>5. QED  BY <1>2, <1>4, WholeCall DEF Whole!VersioningCall

LEMMA ReturnsWhole ==
  ASSUME NEW u, Single(u), u \in User, NEW c, c \in Call, c.op \in Returning,
         c.step \in {"latest", "lockLatest"}, Story(u, c), SeenType,
         live' = live, rev' = rev, series' = series, records' = records,
         failed' = failed, Ending
  PROVE  WholeStep
<1>1. Told("ok") /\ ~Guided /\ c.major \in BOOLEAN
  BY DEF Ending, Single, Call
<1>2. CASE c.op = "cancelCheckOut"
  <2>1. Cancels(u, c)
    BY <1>2 DEF Story, Unwritten
  <2>2. QED  BY <1>1, <1>2, <2>1, CancelsWhole
<1>3. CASE c.op = "checkIn"
  <2>1. Renews(u, c)
    BY <1>3 DEF Story, Unwritten, Versioning
  <2>2. QED  BY <1>1, <1>3, <2>1, RenewsWhole DEF Versioning
<1>4. QED  BY <1>2, <1>3 DEF Returning

LEMMA JoinedLockLatest ==
  ASSUME NEW u, Single(u), Typed, Typed', Grows, Joined(u), Remembers, LockLatest(u)
  PROVE  Joined(u)' /\ WholeStep
<1>1. PICK c : c = call[u]
  OBVIOUS
<1>2. /\ c.step = "lockLatest" /\ call' = [call EXCEPT ![u] = Rest]
      /\ UNCHANGED <<live, rev, series, attached, shelved, records>> /\ failed' = failed
  BY <1>1 DEF LockLatest, Goes, Ends, stores, Fine
<1>3. u \in User /\ c \in Call /\ c.op \in Returning
  BY <1>1, <1>2, AtStep DEF StepFits
<1>4. Story(u, c) /\ InOrder(c) /\ SeenType /\ OneEach /\ RecordsSound
  BY <1>1 DEF Joined
<1>5. (OneEach /\ RecordsSound)' /\ Archived(records)' = Archived(records)
  BY <1>2, <1>4, RecordsStay
<1>6. attached' = live' /\ Archived(records)' \cap live' = {}
  BY <1>2, <1>4, <1>5, InOrderAtRest
<1>7. Joined(u)' /\ (seen' = seen \/ Ending)
  BY <1>1, <1>2, <1>5, <1>6, EndsSeen
<1>8. Ending => WholeStep
  BY <1>2, <1>3, <1>4, ReturnsWhole
<1>9. QED  BY <1>7, <1>8, SeenSame

\* The version has been removed: what the view still lists is what
\* VersionSeries promotes.
LEMMA StillLatest ==
  ASSUME NEW u, NEW c, c.op = "deleteVersion", c.step \in {"latest", "promote"},
         Deletes(u, c), SeenType
  PROVE  /\ c.doc \in seen.live /\ c.doc \in Doc /\ Whole!Permitted(u, c.doc)
         /\ live = seen.live \ {c.doc} /\ Archived(records) = seen.archive \cup {c.doc}
         /\ rev = seen.rev /\ series = seen.series
         /\ SeriesOf(c) = seen.rev[c.doc].vs
         /\ V!LatestVersions(SeriesOf(c)) = Whole!LatestVersions(SeriesOf(c)) \ {c.doc}
<1>1. /\ Given(u, c) /\ c.todo = {} /\ rev = seen.rev /\ series = seen.series
      /\ live = seen.live \ Taken(c) /\ Archived(records) = seen.archive \cup Taken(c)
  BY DEF Deletes
<1>2. Taken(c) = {c.doc}
  BY <1>1 DEF Taken, Targets
<1>3. V!LatestVersions(SeriesOf(c)) = Whole!LatestVersions(SeriesOf(c)) \ {c.doc}
  BY <1>1, <1>2 DEF V!LatestVersions, V!Versions, Whole!LatestVersions, Whole!Versions
<1>4. QED  BY <1>1, <1>2, <1>3 DEF Given, SeenType

LEMMA DeletesVersionWhole ==
  ASSUME NEW u \in User, NEW c, c.op = "deleteVersion", c.step \in {"latest", "promote"},
         Deletes(u, c), SeenType, ~Guided,
         live' = live, series' = series, records' = records, Told("ok"),
         \/ V!LatestVersions(SeriesOf(c)) = {} /\ rev' = rev
         \/ \E l \in V!LatestVersions(SeriesOf(c)) : rev' = V!MovedUp(l)
  PROVE  WholeStep
<1>1. PICK d : d = c.doc
  OBVIOUS
<1>2. PICK rest : rest = Whole!LatestVersions(seen.rev[d].vs) \ {d}
  OBVIOUS
<1>3. /\ d \in seen.live /\ d \in Doc /\ Whole!Permitted(u, d)
      /\ live = seen.live \ {d} /\ Archived(records) = seen.archive \cup {d}
      /\ rev = seen.rev /\ series = seen.series
      /\ V!LatestVersions(SeriesOf(c)) = rest
  BY <1>1, <1>2, StillLatest
<1>4. /\ seen'.live = seen.live \ {d} /\ seen'.rev = rev' /\ seen'.series = seen.series
      /\ seen'.archive = seen.archive \cup {d} /\ seen'.outcome = "ok"
  BY <1>3 DEF Told, Archived
<1>5. \A l : V!MovedUp(l) = Whole!MovedUp(l)
  BY <1>3 DEF V!MovedUp, Whole!MovedUp
<1>6. \/ rest = {} /\ seen'.rev = seen.rev
      \/ \E l \in rest : seen'.rev = Whole!MovedUp(l)
  BY <1>3, <1>4, <1>5
<1>7. Whole!DeleteVersion(u, d)
  BY <1>2, <1>3, <1>4, <1>6 DEF Whole!DeleteVersion, Whole!Returns
<1>8. QED  BY <1>3, <1>7, WholeCall DEF Whole!RemovalCall

LEMMA JoinedLatest ==
  ASSUME NEW u, Single(u), Typed, Typed', Grows, Joined(u), Remembers, Latest(u)
  PROVE  Joined(u)' /\ WholeStep
<1>1. PICK c : c = call[u]
  OBVIOUS
<1>2. /\ c.step = "latest"
      /\ UNCHANGED <<live, rev, series, attached, shelved, records>> /\ failed' = failed
  BY <1>1 DEF Latest, Goes, stores, Fine
<1>3. /\ u \in User /\ c \in Call /\ KnowsDocs(c)
      /\ c.op \in DOMAIN After /\ c.step \in DOMAIN After[c.op]
      /\ c.op \in Returning \cup {"deleteVersion"}
      /\ After[c.op][c.step] = IF c.op = "deleteVersion" THEN "promote" ELSE "lockLatest"
  BY <1>1, <1>2, AtStep DEF StepFits
<1>4. SeriesOf(c) = rev[c.doc].vs
  BY <1>3 DEF SeriesOf, KnowsDocs, Creating, Returning
<1>5. \/ /\ V!LatestVersions(SeriesOf(c)) = {}
         /\ call' = [call EXCEPT ![u] = Rest]
      \/ \E l \in V!LatestVersions(SeriesOf(c)) :
           Continues(u, [c EXCEPT !.former = l, !.copy = rev[l]])
  BY <1>1, <1>4 DEF Latest, Ends
<1>6. Story(u, c) /\ InOrder(c) /\ SeenType /\ OneEach /\ RecordsSound
      /\ (c.op = "setContentStream" => ~c.major)
  BY <1>1 DEF Joined
<1>7. (OneEach /\ RecordsSound)' /\ Archived(records)' = Archived(records)
  BY <1>2, <1>6, RecordsStay
<1>8. attached' = live' /\ Archived(records)' \cap live' = {}
  BY <1>2, <1>6, <1>7, InOrderAtRest
<1>9. c.op = "deleteVersion" => Deletes(u, c)
  BY <1>2, <1>6 DEF Story, Unwritten, Deleting
<1>10. CASE V!LatestVersions(SeriesOf(c)) = {} /\ call' = [call EXCEPT ![u] = Rest]
  <2>1. Joined(u)' /\ (seen' = seen \/ Ending)
    BY <1>1, <1>2, <1>7, <1>8, <1>10, EndsSeen
  <2>2. ASSUME Ending  PROVE WholeStep
    <3>1. CASE c.op \in Returning
      BY <1>2, <1>3, <1>6, <2>2, <3>1, ReturnsWhole
    <3>2. CASE c.op = "deleteVersion"
      <4>1. Told("ok") /\ ~Guided
        BY <1>2, <2>2 DEF Ending, Single
      <4>2. QED
        BY <1>2, <1>3, <1>6, <1>9, <1>10, <3>2, <4>1, DeletesVersionWhole
    <3>3. QED  BY <1>3, <3>1, <3>2
  <2>3. QED  BY <2>1, <2>2, SeenSame
<1>11. ASSUME NEW l \in V!LatestVersions(SeriesOf(c)),
              Continues(u, [c EXCEPT !.former = l, !.copy = rev[l]])
       PROVE  Joined(u)' /\ WholeStep
  <2>1. PICK next : next = IF c.op = "deleteVersion" THEN "promote" ELSE "lockLatest"
    OBVIOUS
  <2>2. PICK k : k = rev[l]
    OBVIOUS
  <2>3. PICK y : y = [c EXCEPT !.former = l, !.copy = k]
    OBVIOUS
  <2>4. PICK x : x = [y EXCEPT !.step = next]
    OBVIOUS
  <2>5. /\ y.op = c.op /\ y.step = c.step /\ x.op = c.op /\ x.step = next
        /\ x.doc = c.doc /\ x.made = c.made /\ x.major = c.major /\ x.todo = c.todo
        /\ x.former = l /\ x.copy = k /\ next # "end" /\ x.new = c.new
    BY <1>3, <2>1, <2>3, <2>4 DEF Call
  <2>6. call' = [call EXCEPT ![u] = x]
    BY <1>2, <1>3, <1>11, <2>1, <2>2, <2>3, <2>4, <2>5 DEF Continues
  <2>7. seen' = seen
    BY <2>5, <2>6, NotSeen
  <2>8. SameWork(c, x)
    BY <1>3, <2>5, <2>7, SeriesSame DEF SameWork
  <2>9. InOrder(x)'
    BY <1>3, <1>8, <2>1, <2>5, InOrderAtRest
  <2>10. Given(u, x)' <=> Given(u, c)
    BY <2>8, StillGiven
  <2>11. CASE c.op = "cancelCheckOut"
    <3>1. Cancels(u, c)
      BY <1>2, <1>6, <2>11 DEF Story, Unwritten
    <3>2. Freed(x)' = Freed(c) /\ Left(x)' = Left(c)
      BY <1>2, <2>1, <2>5, <2>7, <2>8, <2>11, StillGiven DEF Freed, Left
    <3>3. Cancels(u, x)'
      BY <1>2, <1>7, <2>7, <2>10, <3>1, <3>2 DEF Cancels, Shows
    <3>4. Story(u, x)'
      BY <2>1, <2>5, <2>11, <3>3 DEF Story, Unwritten, Creating, Versioning, Deleting
    <3>5. QED
      BY <1>1, <1>2, <1>6, <1>7, <2>5, <2>6, <2>9, <3>4, GoesOn
  <2>12. CASE c.op = "checkIn"
    <3>1. RenewsGiven(u, c) /\ \E f, n \in Doc : Versioned(c, f, n)
      BY <1>2, <1>6, <2>12 DEF Story, Unwritten, Renews, Versioning
    <3>2. PICK f \in Doc, n \in Doc : Versioned(c, f, n)
      BY <3>1
    <3>3. RenewsGiven(u, x)' /\ Choice(x)' = Choice(c)
      BY <2>8, <3>1, StillGiven, SameSets
    <3>4. Kept(x)' = Kept(c) /\ Returned(x)' = Returned(c)
      BY <1>2, <2>1, <2>5, <2>7, <2>8, <2>12, StillGiven DEF Kept, Returned, Left, Freed
    <3>5. Versioned(x, f, n)'
      BY <1>2, <1>7, <2>1, <2>5, <2>7, <2>12, <3>2, <3>3, <3>4 DEF Versioned, Shows
    <3>6. Renews(u, x)'
      BY <2>1, <2>5, <2>12, <3>3, <3>5 DEF Renews
    <3>7. Story(u, x)'
      BY <2>1, <2>5, <2>12, <3>6 DEF Story, Unwritten, Creating, Versioning, Deleting
    <3>8. QED
      BY <1>1, <1>2, <1>6, <1>7, <2>5, <2>6, <2>9, <3>7, GoesOn
  <2>13. CASE c.op = "deleteVersion"
    <3>1. /\ Given(u, c) /\ c.todo \subseteq Targets(c) /\ c.todo = {}
          /\ rev = seen.rev /\ series = seen.series
          /\ live = seen.live \ Taken(c)
          /\ Archived(records) = seen.archive \cup Taken(c)
      BY <1>2, <1>9, <2>13 DEF Deletes
    <3>2. Targets(x)' = Targets(c) /\ Taken(x)' = Taken(c)
      BY <2>5, <2>8, SameSets DEF Taken
    <3>3. V!LatestVersions(SeriesOf(x))' = V!LatestVersions(SeriesOf(c))
      BY <1>2, <2>8 DEF SameWork, V!LatestVersions, V!Versions
    <3>4. Deletes(u, x)'
      BY <1>2, <1>7, <2>1, <2>2, <2>5, <2>7, <2>10, <2>13, <3>1, <3>2, <3>3 DEF Deletes
    <3>5. Story(u, x)'
      BY <2>1, <2>5, <2>13, <3>4 DEF Story, Unwritten, Creating, Versioning, Deleting
    <3>6. QED
      BY <1>1, <1>2, <1>6, <1>7, <2>5, <2>6, <2>9, <3>5, GoesOn
  <2>14. QED  BY <1>3, <2>11, <2>12, <2>13 DEF Returning
<1>12. QED  BY <1>5, <1>10, <1>11

LEMMA JoinedPromote ==
  ASSUME NEW u, Single(u), Typed, Typed', Grows, Joined(u), Remembers, Promote(u)
  PROVE  Joined(u)' /\ WholeStep
<1>1. PICK c, l : c = call[u] /\ l = c.former
  OBVIOUS
<1>2. /\ c.step = "promote" /\ Continues(u, c) /\ l \in live
      /\ rev' = [rev EXCEPT ![l] = [c.copy EXCEPT !.latest = TRUE,
                                                  !.latestMajor = c.copy.major]]
      /\ UNCHANGED <<live, series, attached, shelved, records>> /\ failed' = failed
  BY <1>1 DEF Promote, Goes, Writes, Fine
<1>3. /\ u \in User /\ c \in Call /\ KnowsDocs(c) /\ c.op = "deleteVersion"
      /\ After[c.op][c.step] = "end"
  BY <1>1, <1>2, AtStep DEF StepFits
<1>4. Story(u, c) /\ InOrder(c) /\ SeenType /\ OneEach /\ RecordsSound
  BY <1>1 DEF Joined
<1>5. Deletes(u, c)
  BY <1>2, <1>3, <1>4 DEF Story, Unwritten, Deleting
<1>6. l \in V!LatestVersions(SeriesOf(c)) /\ c.copy = rev[l]
  BY <1>1, <1>2, <1>5 DEF Deletes
<1>7. rev' = V!MovedUp(l)
  BY <1>2, <1>6 DEF V!MovedUp
<1>8. l \in Doc /\ l \notin Archived(records) /\ attached = live
      /\ Archived(records) \cap live = {}
  BY <1>2, <1>4, InOrderAtRest DEF Typed, Stored, V!Created
<1>9. (OneEach /\ RecordsSound)' /\ Archived(records)' = Archived(records)
  BY <1>2, <1>4, <1>8, SoundWrites
<1>10. call' = [call EXCEPT ![u] = Rest]
  BY <1>2, <1>3 DEF Continues
<1>11. attached' = live' /\ Archived(records)' \cap live' = {}
  BY <1>2, <1>8, <1>9
<1>12. Joined(u)' /\ (seen' = seen \/ Ending)
  BY <1>1, <1>2, <1>9, <1>10, <1>11, EndsSeen
<1>13. ASSUME Ending  PROVE WholeStep
  <2>1. Told("ok") /\ ~Guided
    BY <1>2, <1>13 DEF Ending, Single
  <2>2. QED
    BY <1>2, <1>3, <1>4, <1>5, <1>6, <1>7, <2>1, DeletesVersionWhole
<1>14. QED  BY <1>12, <1>13, SeenSame

-----------------------------------------------------------------------------
(***************************************************************************)
(* deleteObject                                                            *)
(***************************************************************************)

\* Everything a deletion is about was there.
LEMMA TargetsThere ==
  ASSUME NEW u, NEW c, c.op \in Deleting, Deletes(u, c)
  PROVE  Targets(c) \subseteq seen.live /\ c.todo \subseteq seen.live \ Taken(c)
<1>1. Given(u, c) /\ c.todo \subseteq Targets(c)
  BY DEF Deletes
<1>2. Targets(c) \subseteq seen.live
  BY <1>1 DEF Targets, Given, Whole!Versions
<1>3. QED  BY <1>1, <1>2 DEF Taken

LEMMA JoinedDetach ==
  ASSUME NEW u, Single(u), Typed, Typed', Grows, Joined(u), Remembers, Detach(u)
  PROVE  Joined(u)' /\ WholeStep
<1>1. PICK c : c = call[u]
  OBVIOUS
<1>2. c.step = "detach" /\ UNCHANGED <<live, rev, series, records>>
  BY <1>1 DEF Detach, Goes
<1>3. PICK d \in c.todo \cap attached :
        /\ attached' = attached \ {d} /\ shelved' = [shelved EXCEPT ![d] = @ + 1]
        /\ d \in live =>
             Continues(u, [c EXCEPT !.todo = @ \ {d}, !.at = d, !.copy = rev[d]])
  BY <1>1 DEF Detach
<1>4. /\ u \in User /\ c \in Call /\ KnowsDocs(c)
      /\ c.op \in DOMAIN After /\ c.step \in DOMAIN After[c.op]
      /\ c.op \in Deleting /\ After[c.op][c.step] = "rewrite"
  BY <1>1, <1>2, AtStep DEF StepFits
<1>5. Story(u, c) /\ InOrder(c) /\ OneEach /\ RecordsSound
  BY <1>1 DEF Joined
<1>6. Deletes(u, c)
  BY <1>2, <1>4, <1>5 DEF Story, Unwritten, Deleting
<1>7. /\ Given(u, c) /\ c.todo \subseteq Targets(c)
      /\ c.op = "deleteVersion" => c.todo = {c.doc}
      /\ rev = seen.rev /\ series = seen.series /\ live = seen.live \ Taken(c)
      /\ Archived(records) = seen.archive \cup Taken(c)
  BY <1>2, <1>6 DEF Deletes
<1>8. attached = live /\ Archived(records) \cap live = {} /\ d \in live /\ d \in Doc
  BY <1>2, <1>3, <1>5, InOrderAtRest DEF Typed, Stored, V!Created
<1>9. PICK k : k = rev[d]
  OBVIOUS
<1>10. PICK y : y = [c EXCEPT !.todo = @ \ {d}, !.at = d, !.copy = k]
  OBVIOUS
<1>11. PICK x : x = [y EXCEPT !.step = "rewrite"]
  OBVIOUS
<1>12. /\ y.op = c.op /\ y.step = c.step /\ x.op = c.op /\ x.step = "rewrite"
       /\ x.doc = c.doc /\ x.made = c.made /\ x.major = c.major
       /\ x.todo = c.todo \ {d} /\ x.at = d /\ x.copy = k
  BY <1>4, <1>10, <1>11 DEF Call
<1>13. call' = [call EXCEPT ![u] = x]
  <2>1. Continues(u, y)
    BY <1>3, <1>8, <1>9, <1>10
  <2>2. QED  BY <1>2, <1>4, <1>11, <1>12, <2>1 DEF Continues
<1>14. seen' = seen
  BY <1>12, <1>13, NotSeen
<1>15. SameWork(c, x)
  BY <1>4, <1>12, <1>14, SeriesSame DEF SameWork
<1>16. (OneEach /\ RecordsSound)' /\ Archived(records)' = Archived(records)
  <2>1. \A e \in Doc : shelved[e] > 0 => shelved'[e] > 0
    BY <1>3, <1>8 DEF Typed, Stored
  <2>2. \A r \in records : r.doc \in Doc
    BY DEF Typed, Filed, Record
  <2>3. QED  BY <1>2, <1>5, <2>1, <2>2 DEF OneEach, RecordsSound, Archived
<1>17. shelved'[d] > 0
  BY <1>3, <1>8 DEF Typed, Stored
<1>18. InOrder(x)'
  BY <1>2, <1>3, <1>4, <1>8, <1>12, <1>16, <1>17 DEF InOrder, Away, Twice
<1>19. Given(u, x)' /\ Targets(x)' = Targets(c)
  BY <1>7, <1>15, StillGiven, SameSets
<1>20. Taken(x)' = Taken(c) \cup {d} /\ d \notin Taken(c)
  BY <1>3, <1>7, <1>12, <1>19 DEF Taken
<1>21. /\ live' = seen.live \ (Taken(x)' \ {d})
       /\ Archived(records)' = seen.archive \cup (Taken(x)' \ {d})
  BY <1>2, <1>7, <1>16, <1>20
<1>22. x.todo \subseteq Targets(x)' /\ (x.op = "deleteVersion" => x.todo = {})
  BY <1>3, <1>7, <1>12, <1>19
<1>23. Deletes(u, x)'
  BY <1>2, <1>7, <1>9, <1>12, <1>14, <1>19, <1>20, <1>21, <1>22 DEF Deletes
<1>24. Story(u, x)'
  BY <1>4, <1>12, <1>23 DEF Story, Unwritten, Creating, Versioning, Deleting
<1>25. QED
  BY <1>4, <1>12, <1>13, <1>16, <1>18, <1>24, GoesOn DEF Deleting

LEMMA JoinedDetachEnds ==
  ASSUME NEW u, Single(u), Typed, Typed', Grows, Joined(u), Remembers, DetachEnds(u)
  PROVE  Joined(u)' /\ WholeStep
<1>1. PICK c, d : c = call[u] /\ d = c.doc
  OBVIOUS
<1>2. /\ c.step = "detach" /\ c.todo = {} /\ call' = [call EXCEPT ![u] = Rest]
      /\ UNCHANGED <<live, rev, series, attached, shelved, records>> /\ failed' = failed
  BY <1>1 DEF DetachEnds, Goes, Ends, stores, Fine
<1>3. u \in User /\ KnowsDocs(c) /\ c.op \in Deleting
  BY <1>1, <1>2, AtStep DEF StepFits
<1>4. Story(u, c) /\ InOrder(c) /\ SeenType /\ OneEach /\ RecordsSound
  BY <1>1 DEF Joined
<1>5. Deletes(u, c)
  BY <1>2, <1>3, <1>4 DEF Story, Unwritten, Deleting
<1>6. /\ Given(u, c) /\ c.op # "deleteVersion"
      /\ rev = seen.rev /\ series = seen.series /\ live = seen.live \ Taken(c)
      /\ Archived(records) = seen.archive \cup Taken(c)
  BY <1>2, <1>5 DEF Deletes
<1>7. Taken(c) = Whole!Versions(seen.rev[d].vs)
  BY <1>1, <1>2, <1>6 DEF Taken, Targets, Given
<1>8. (OneEach /\ RecordsSound)' /\ Archived(records)' = Archived(records)
  BY <1>2, <1>4, RecordsStay
<1>9. attached' = live' /\ Archived(records)' \cap live' = {}
  BY <1>2, <1>4, <1>8, InOrderAtRest
<1>10. Joined(u)' /\ (seen' = seen \/ Ending)
  BY <1>1, <1>2, <1>8, <1>9, EndsSeen
<1>11. ASSUME Ending  PROVE WholeStep
  <2>1. /\ seen'.live = seen.live \ Taken(c) /\ seen'.rev = seen.rev
        /\ seen'.series = seen.series /\ seen'.archive = seen.archive \cup Taken(c)
        /\ seen'.outcome = "ok"
    BY <1>2, <1>6, <1>8, <1>11 DEF Ending, Told
  <2>2. d \in seen.live /\ d \in Doc /\ Whole!Permitted(u, d) /\ ~Guided
    BY <1>1, <1>4, <1>6 DEF Given, SeenType, Single
  <2>3. Whole!DeleteAllVersions(u, d)
    BY <1>7, <2>1, <2>2 DEF Whole!DeleteAllVersions, Whole!Returns
  <2>4. QED  BY <1>3, <2>2, <2>3, WholeCall DEF Whole!RemovalCall
<1>12. QED  BY <1>10, <1>11, SeenSame

LEMMA NeverDetachFails ==
  ASSUME NEW u, Single(u), Typed, Joined(u)  PROVE ~DetachFails(u)
<1>1. SUFFICES ASSUME DetachFails(u)  PROVE FALSE
  OBVIOUS
<1>2. PICK c : c = call[u]
  OBVIOUS
<1>3. c.step = "detach" /\ c.todo \ attached # {}
  BY <1>1, <1>2 DEF DetachFails, Goes
<1>4. c.op \in Deleting
  BY <1>2, <1>3, AtStep DEF StepFits
<1>5. Story(u, c) /\ InOrder(c)
  BY <1>2 DEF Joined
<1>6. Deletes(u, c)
  BY <1>3, <1>4, <1>5 DEF Story, Unwritten, Deleting
<1>7. live = seen.live \ Taken(c)
  BY <1>3, <1>6 DEF Deletes
<1>8. c.todo \subseteq live
  BY <1>4, <1>6, <1>7, TargetsThere
<1>9. attached = live
  BY <1>3, <1>5, InOrderAtRest
<1>10. QED  BY <1>3, <1>8, <1>9

LEMMA JoinedArchive ==
  ASSUME NEW u, Single(u), Typed, Typed', Grows, Joined(u), Remembers, Archive(u)
  PROVE  Joined(u)' /\ WholeStep
<1>1. PICK c : c = call[u]
  OBVIOUS
<1>2. /\ c.step = "archive" /\ c.at \in live /\ Continues(u, c)
      /\ UNCHANGED <<live, rev, series, attached, shelved>>
  BY <1>1 DEF Archive, Goes
<1>3. /\ u \in User /\ c \in Call /\ KnowsDocs(c)
      /\ c.op \in DOMAIN After /\ c.step \in DOMAIN After[c.op]
      /\ c.op \in Deleting /\ After[c.op][c.step] = "remove"
  BY <1>1, <1>2, AtStep DEF StepFits
<1>4. PICK no \in Nat :
        records' = records \cup {[doc |-> c.at, rev |-> rev[c.at], no |-> no]}
  BY <1>1, <1>3, NewRecord DEF Typed
<1>5. PICK q : q = [doc |-> c.at, rev |-> rev[c.at], no |-> no]
  OBVIOUS
<1>6. q.doc = c.at /\ q.rev = rev[c.at] /\ records' = records \cup {q}
  BY <1>4, <1>5
<1>7. PICK x : x = [c EXCEPT !.step = "remove"]
  OBVIOUS
<1>8. /\ x.op = c.op /\ x.step = "remove" /\ x.doc = c.doc /\ x.made = c.made
      /\ x.major = c.major /\ x.todo = c.todo /\ x.at = c.at
  BY <1>3, <1>7 DEF Call
<1>9. call' = [call EXCEPT ![u] = x]
  BY <1>2, <1>3, <1>7 DEF Continues
<1>10. seen' = seen
  BY <1>8, <1>9, NotSeen
<1>11. SameWork(c, x)
  BY <1>3, <1>8, <1>10, SeriesSame DEF SameWork
<1>12. Story(u, c) /\ InOrder(c) /\ OneEach /\ RecordsSound
  BY <1>1 DEF Joined
<1>13. Deletes(u, c)
  BY <1>2, <1>3, <1>12 DEF Story, Unwritten, Deleting
<1>14. /\ Given(u, c) /\ c.todo \subseteq Targets(c)
       /\ c.op = "deleteVersion" => c.todo = {}
       /\ rev = seen.rev /\ series = seen.series
       /\ c.at \in Taken(c) /\ live = seen.live \ (Taken(c) \ {c.at})
       /\ Archived(records) = seen.archive \cup (Taken(c) \ {c.at})
  BY <1>2, <1>13 DEF Deletes
<1>15. /\ attached = live \ {c.at} /\ Archived(records) \cap live = {}
       /\ shelved[c.at] > 0
  BY <1>2, <1>3, <1>12 DEF InOrder, Away, Twice, Deleting
<1>16. \A r \in records : r.doc # c.at
  BY <1>2, <1>15 DEF Archived
<1>17. Archived(records)' = Archived(records) \cup {c.at}
  BY <1>6 DEF Archived
<1>18. (OneEach /\ RecordsSound)'
  BY <1>2, <1>6, <1>12, <1>15, <1>16 DEF OneEach, RecordsSound
<1>19. InOrder(x)'
  BY <1>2, <1>3, <1>8, <1>15, <1>17 DEF InOrder, Away, Twice
<1>20. Given(u, x)' /\ Targets(x)' = Targets(c) /\ Taken(x)' = Taken(c)
  BY <1>8, <1>11, <1>14, StillGiven, SameSets DEF Taken
<1>21. Archived(records)' = seen.archive \cup Taken(c)
  BY <1>14, <1>17
<1>22. Deletes(u, x)'
  BY <1>2, <1>8, <1>10, <1>14, <1>20, <1>21 DEF Deletes
<1>23. Story(u, x)'
  BY <1>3, <1>8, <1>22 DEF Story, Unwritten, Creating, Versioning, Deleting
<1>24. QED
  BY <1>3, <1>8, <1>9, <1>18, <1>19, <1>23, GoesOn DEF Deleting

-----------------------------------------------------------------------------
(***************************************************************************)
(* restoreArchive and destroyArchive                                       *)
(***************************************************************************)

\* The series of the archive calls, as it was when they began.
LEMMA ArchivesSeries ==
  ASSUME NEW c, c.op \in ArchiveCalls, KnowsDocs(c), rev = seen.rev, SeenType,
         c.doc \in seen.archive
  PROVE  /\ SeriesOf(c) = seen.rev[c.doc].vs /\ c.doc \in Doc
         /\ c.doc \in Archives(c) /\ Archives(c) \subseteq seen.archive
<1>1. c.doc # NoDoc
  BY DEF KnowsDocs, Creating, ArchiveCalls
<1>2. QED
  BY <1>1 DEF SeriesOf, Archives, Whole!ArchivesOfVersionSeries, SeenType

\* The restored document is rewritten for its change event, and that is all.
LEMMA RestoresWhole ==
  ASSUME NEW u \in User, NEW c, c.op = "restore", c.step = "rewrite", KnowsDocs(c),
         Restores(c), SeenType,
         live' = live, rev' = rev, series' = series, records' = records, Told("ok")
  PROVE  WholeStep
<1>1. PICK d : d = c.doc
  OBVIOUS
<1>2. /\ d \in seen.archive /\ rev = seen.rev /\ series = seen.series /\ c.todo = {}
      /\ live = seen.live \cup Done(c) /\ Archived(records) = seen.archive \ Done(c)
  BY <1>1 DEF Restores
<1>3. SeriesOf(c) = seen.rev[d].vs /\ d \in Doc
  BY <1>1, <1>2, ArchivesSeries DEF ArchiveCalls
<1>4. Done(c) = Whole!ArchivesOfVersionSeries(seen.rev[d].vs)
  BY <1>2, <1>3 DEF Done, Archives, Archived
<1>5. /\ seen'.live = seen.live \cup Done(c) /\ seen'.rev = seen.rev
      /\ seen'.series = seen.series /\ seen'.archive = seen.archive \ Done(c)
      /\ seen'.outcome = "ok"
  BY <1>2 DEF Told, Archived
<1>6. Whole!RestoreArchive(d)
  BY <1>2, <1>4, <1>5 DEF Whole!RestoreArchive, Whole!Returns
<1>7. QED  BY <1>3, <1>6, WholeCall DEF Whole!RemovalCall

LEMMA JoinedRewrite ==
  ASSUME NEW u, Single(u), Typed, Typed', Grows, Joined(u), Remembers, Rewrite(u)
  PROVE  Joined(u)' /\ WholeStep
<1>1. PICK c : c = call[u]
  OBVIOUS
<1>2. c.step = "rewrite" /\ Continues(u, c)
  BY <1>1 DEF Rewrite, Goes
<1>3. PICK m \in {c.copy, rev[c.at]} : Writes(c.at, m)
  BY <1>1 DEF Rewrite
<1>4. /\ u \in User /\ c \in Call /\ KnowsDocs(c)
      /\ c.op \in DOMAIN After /\ c.step \in DOMAIN After[c.op]
      /\ c.op \in Deleting \cup {"restore"}
      /\ After[c.op][c.step] = IF c.op = "restore" THEN "end" ELSE "archive"
  BY <1>1, <1>2, AtStep DEF StepFits
<1>5. Story(u, c) /\ InOrder(c) /\ SeenType /\ OneEach /\ RecordsSound
  BY <1>1 DEF Joined
<1>6. CASE c.op = "restore"
  <2>1. Restores(c)
    BY <1>2, <1>5, <1>6 DEF Story, Unwritten
  <2>2. c.copy = rev[c.at]
    BY <1>2, <2>1 DEF Restores
  <2>3. UNCHANGED <<live, rev, series, attached, shelved, records>> /\ failed' = failed
    BY <1>3, <2>2, SameWrite
  <2>4. (OneEach /\ RecordsSound)' /\ Archived(records)' = Archived(records)
    BY <1>5, <2>3, RecordsStay
  <2>5. attached' = live' /\ Archived(records)' \cap live' = {}
    BY <1>2, <1>5, <1>6, <2>3, <2>4 DEF InOrder, Away, Twice, Deleting
  <2>6. call' = [call EXCEPT ![u] = Rest]
    BY <1>2, <1>4, <1>6 DEF Continues
  <2>7. Joined(u)' /\ (seen' = seen \/ Ending)
    BY <1>1, <1>2, <2>3, <2>4, <2>5, <2>6, EndsSeen
  <2>8. ASSUME Ending  PROVE WholeStep
    <3>1. Told("ok")
      BY <2>3, <2>8 DEF Ending
    <3>2. QED  BY <1>2, <1>4, <1>5, <1>6, <2>1, <2>3, <3>1, RestoresWhole
  <2>9. QED  BY <2>7, <2>8, SeenSame
<1>7. CASE c.op \in Deleting
  <2>1. Deletes(u, c)
    BY <1>2, <1>5, <1>7 DEF Story, Unwritten, Deleting
  <2>2. /\ Given(u, c) /\ c.todo \subseteq Targets(c)
        /\ c.op = "deleteVersion" => c.todo = {}
        /\ rev = seen.rev /\ series = seen.series /\ c.copy = rev[c.at]
        /\ c.at \in Taken(c) /\ live = seen.live \ (Taken(c) \ {c.at})
        /\ Archived(records) = seen.archive \cup (Taken(c) \ {c.at})
    BY <1>2, <2>1 DEF Deletes
  <2>3. UNCHANGED <<live, rev, series, attached, shelved, records>>
    BY <1>3, <2>2, SameWrite
  <2>4. (OneEach /\ RecordsSound)' /\ Archived(records)' = Archived(records)
    BY <1>5, <2>3, RecordsStay
  <2>5. PICK x : x = [c EXCEPT !.step = "archive"]
    OBVIOUS
  <2>6. /\ x.op = c.op /\ x.step = "archive" /\ x.doc = c.doc /\ x.made = c.made
        /\ x.major = c.major /\ x.todo = c.todo /\ x.at = c.at
    BY <1>4, <2>5 DEF Call
  <2>7. c.op # "restore"
    BY <1>7 DEF Deleting
  <2>8. call' = [call EXCEPT ![u] = x]
    BY <1>2, <1>4, <2>5, <2>7 DEF Continues
  <2>9. seen' = seen
    BY <2>6, <2>8, NotSeen
  <2>10. SameWork(c, x)
    BY <1>4, <2>6, <2>9, SeriesSame DEF SameWork
  <2>11. Given(u, x)' /\ Targets(x)' = Targets(c) /\ Taken(x)' = Taken(c)
    BY <2>2, <2>6, <2>10, StillGiven, SameSets DEF Taken
  <2>12. Deletes(u, x)'
    BY <2>2, <2>3, <2>4, <2>6, <2>9, <2>11 DEF Deletes
  <2>13. Story(u, x)'
    BY <1>7, <2>6, <2>12 DEF Story, Unwritten, Creating, Versioning, Deleting
  <2>14. InOrder(x)'
    BY <1>2, <1>5, <1>7, <2>3, <2>4, <2>6 DEF InOrder, Away, Twice
  <2>15. QED
    BY <1>7, <2>4, <2>6, <2>8, <2>13, <2>14, GoesOn DEF Deleting
<1>8. QED  BY <1>4, <1>6, <1>7

LEMMA NeverRemovalFails ==
  ASSUME NEW u, Single(u), Typed, Joined(u)  PROVE ~RemovalFails(u)
<1>1. SUFFICES ASSUME RemovalFails(u)  PROVE FALSE
  OBVIOUS
<1>2. PICK c : c = call[u]
  OBVIOUS
<1>3. c.step \in {"rewrite", "archive"} /\ c.at \notin live
  BY <1>1, <1>2 DEF RemovalFails, Goes
<1>4. c.op \in Deleting \cup {"restore"} /\ (c.op = "restore" => c.step = "rewrite")
      /\ KnowsDocs(c)
  BY <1>2, <1>3, AtStep DEF StepFits, Deleting
<1>5. Story(u, c) /\ SeenType
  BY <1>2 DEF Joined
<1>6. CASE c.op \in Deleting
  <2>1. Deletes(u, c)
    BY <1>3, <1>5, <1>6 DEF Story, Unwritten, Deleting
  <2>2. c.at \in Taken(c) /\ live = seen.live \ (Taken(c) \ {c.at})
    BY <1>3, <2>1 DEF Deletes
  <2>3. c.at \in seen.live
    BY <1>6, <2>1, <2>2, TargetsThere DEF Taken
  <2>4. QED  BY <1>3, <2>2, <2>3
<1>7. CASE c.op = "restore"
  <2>1. Restores(c)
    BY <1>3, <1>5, <1>7 DEF Story, Unwritten
  <2>2. c.at = c.doc /\ c.todo = {} /\ rev = seen.rev /\ c.doc \in seen.archive
        /\ live = seen.live \cup Done(c)
    BY <1>3, <1>4, <1>7, <2>1 DEF Restores
  <2>3. c.doc \in Archives(c)
    BY <1>4, <1>5, <1>7, <2>2, ArchivesSeries DEF ArchiveCalls
  <2>4. QED  BY <1>3, <2>2, <2>3 DEF Done, Archived
<1>8. QED  BY <1>4, <1>6, <1>7

\* What restoring and dropping one more record does to what is done.
LEMMA OneMoreDone ==
  ASSUME OneEach, NEW c, c.todo \subseteq records, Archived(c.todo) \subseteq Archives(c),
         NEW r \in c.todo, NEW x, x.todo = c.todo \ {r}
  PROVE  /\ Archived(x.todo) = Archived(c.todo) \ {r.doc}
         /\ Archives(c) \ Archived(x.todo) = Done(c) \cup {r.doc}
         /\ r.doc \notin Done(c) /\ r.doc \in Archives(c)
         /\ Archived(x.todo) \subseteq Archives(c)
<1>1. r.doc \in Archived(c.todo)
  BY DEF Archived
<1>2. Archived(x.todo) = Archived(c.todo) \ {r.doc}
  BY DEF Archived, OneEach
<1>3. QED  BY <1>1, <1>2 DEF Done

LEMMA JoinedRevive ==
  ASSUME NEW u, Single(u), Typed, Typed', Grows, Joined(u), Remembers, Revive(u)
  PROVE  Joined(u)' /\ WholeStep
<1>1. PICK c : c = call[u]
  OBVIOUS
<1>2. c.step = "revive" /\ UNCHANGED <<series, attached, shelved, records>>
  BY <1>1 DEF Revive, Goes
<1>3. PICK r \in c.todo :
        /\ r.doc \notin live /\ live' = live \cup {r.doc}
        /\ rev' = [rev EXCEPT ![r.doc] = r.rev]
        /\ Continues(u, [c EXCEPT !.at = r.doc, !.record = r, !.todo = @ \ {r}])
  BY <1>1 DEF Revive
<1>4. /\ u \in User /\ c \in Call /\ KnowsDocs(c)
      /\ c.op \in DOMAIN After /\ c.step \in DOMAIN After[c.op]
      /\ c.op = "restore" /\ After[c.op][c.step] = "attach"
  BY <1>1, <1>2, AtStep DEF StepFits
<1>5. Story(u, c) /\ InOrder(c) /\ SeenType /\ OneEach /\ RecordsSound
  BY <1>1 DEF Joined
<1>6. Restores(c)
  BY <1>2, <1>4, <1>5 DEF Story, Unwritten
<1>7. /\ c.doc \in seen.archive
      /\ c.todo \subseteq records /\ Archived(c.todo) \subseteq Archives(c)
      /\ rev = seen.rev /\ series = seen.series /\ live = seen.live \cup Done(c)
      /\ Archived(records) = seen.archive \ Done(c)
  BY <1>2, <1>6 DEF Restores
<1>8. PICK d : d = r.doc
  OBVIOUS
<1>9. rev' = rev
  BY <1>3, <1>5, <1>7 DEF RecordsSound, Typed, Stored
<1>10. PICK y : y = [c EXCEPT !.at = d, !.record = r, !.todo = @ \ {r}]
  OBVIOUS
<1>11. PICK x : x = [y EXCEPT !.step = "attach"]
  OBVIOUS
<1>12. /\ y.op = c.op /\ y.step = c.step /\ x.op = c.op /\ x.step = "attach"
       /\ x.doc = c.doc /\ x.made = c.made /\ x.major = c.major
       /\ x.todo = c.todo \ {r} /\ x.at = d /\ x.record = r
  BY <1>4, <1>10, <1>11 DEF Call
<1>13. call' = [call EXCEPT ![u] = x]
  <2>1. Continues(u, y)
    BY <1>3, <1>8, <1>10
  <2>2. QED  BY <1>2, <1>4, <1>11, <1>12, <2>1 DEF Continues
<1>14. seen' = seen
  BY <1>12, <1>13, NotSeen
<1>15. SameWork(c, x)
  BY <1>4, <1>12, <1>14, SeriesSame DEF SameWork
<1>16. (OneEach /\ RecordsSound)' /\ Archived(records)' = Archived(records)
  BY <1>2, <1>5, <1>9, RecordsStay
<1>17. attached = live /\ Archived(records) \cap live = {}
  BY <1>2, <1>5, InOrderAtRest
<1>18. InOrder(x)'
  <2>1. /\ Away(x)' = {d} /\ Twice(x)' = {d} /\ x.op \notin Deleting
    BY <1>4, <1>12 DEF Away, Twice, Deleting
  <2>2. attached' = live' \ {d} /\ Archived(records)' \cap live' \subseteq {d}
    BY <1>2, <1>3, <1>8, <1>16, <1>17
  <2>3. QED  BY <1>12, <2>1, <2>2 DEF InOrder
<1>19. /\ Archives(c) \ Archived(x.todo) = Done(c) \cup {d} /\ d \notin Done(c)
       /\ Archived(x.todo) \subseteq Archives(c)
  <2>1. OneEach /\ c.todo \subseteq records /\ Archived(c.todo) \subseteq Archives(c)
    BY <1>5, <1>7
  <2>2. r \in c.todo /\ x.todo = c.todo \ {r}
    BY <1>3, <1>12
  <2>3. QED  BY <1>8, <2>1, <2>2, OneMoreDone
<1>20. Archives(x)' = Archives(c) /\ Done(x)' = Done(c) \cup {d}
  BY <1>15, <1>19, SameSets DEF Done, Archived
<1>21. /\ live' = seen.live \cup Done(x)'
       /\ Archived(records)' = seen.archive \ (Done(x)' \ {d})
  BY <1>3, <1>7, <1>8, <1>16, <1>19, <1>20
<1>22. x.todo \subseteq records' /\ x.record \in records' /\ x.record.doc = x.at
  BY <1>2, <1>3, <1>7, <1>8, <1>12
<1>23. Restores(x)'
  BY <1>2, <1>7, <1>9, <1>12, <1>14, <1>19, <1>20, <1>21, <1>22 DEF Restores, Archived
<1>24. Story(u, x)'
  BY <1>4, <1>12, <1>23 DEF Story, Unwritten, Creating, Versioning, Deleting
<1>25. QED
  BY <1>4, <1>12, <1>13, <1>16, <1>18, <1>24, GoesOn

LEMMA JoinedAttach ==
  ASSUME NEW u, Single(u), Typed, Typed', Grows, Joined(u), Remembers, Attach(u)
  PROVE  Joined(u)' /\ WholeStep
<1>1. PICK c : c = call[u]
  OBVIOUS
<1>2. /\ c.step = "attach" /\ attached' = attached \cup {c.at} /\ Continues(u, c)
      /\ UNCHANGED <<live, rev, series, shelved, records>>
  BY <1>1 DEF Attach, Goes
<1>3. /\ u \in User /\ c \in Call /\ KnowsDocs(c)
      /\ c.op \in DOMAIN After /\ c.step \in DOMAIN After[c.op]
      /\ c.op = "restore" /\ After[c.op][c.step] = "drop"
  BY <1>1, <1>2, AtStep DEF StepFits
<1>4. Story(u, c) /\ InOrder(c) /\ OneEach /\ RecordsSound
  BY <1>1 DEF Joined
<1>5. Restores(c)
  BY <1>2, <1>3, <1>4 DEF Story, Unwritten
<1>6. /\ c.doc \in seen.archive
      /\ c.todo \subseteq records /\ Archived(c.todo) \subseteq Archives(c)
      /\ rev = seen.rev /\ series = seen.series /\ live = seen.live \cup Done(c)
      /\ c.record \in records /\ c.record.doc = c.at /\ c.at \in Done(c)
      /\ Archived(records) = seen.archive \ (Done(c) \ {c.at})
  BY <1>2, <1>5 DEF Restores
<1>7. PICK x : x = [c EXCEPT !.step = "drop"]
  OBVIOUS
<1>8. /\ x.op = c.op /\ x.step = "drop" /\ x.doc = c.doc /\ x.made = c.made
      /\ x.major = c.major /\ x.todo = c.todo /\ x.at = c.at /\ x.record = c.record
  BY <1>3, <1>7 DEF Call
<1>9. call' = [call EXCEPT ![u] = x]
  BY <1>2, <1>3, <1>7 DEF Continues
<1>10. seen' = seen
  BY <1>8, <1>9, NotSeen
<1>11. SameWork(c, x)
  BY <1>3, <1>8, <1>10, SeriesSame DEF SameWork
<1>12. (OneEach /\ RecordsSound)' /\ Archived(records)' = Archived(records)
  BY <1>2, <1>4, RecordsStay
<1>13. attached = live \ {c.at} /\ Archived(records) \cap live \subseteq {c.at}
  BY <1>2, <1>3, <1>4 DEF InOrder, Away, Twice
<1>14. InOrder(x)'
  BY <1>2, <1>3, <1>6, <1>8, <1>12, <1>13 DEF InOrder, Away, Twice, Deleting
<1>15. Archives(x)' = Archives(c) /\ Done(x)' = Done(c)
  BY <1>8, <1>11, SameSets DEF Done, Archived
<1>16. Restores(x)'
  BY <1>2, <1>6, <1>8, <1>10, <1>12, <1>15 DEF Restores, Archived
<1>17. Story(u, x)'
  BY <1>3, <1>8, <1>16 DEF Story, Unwritten, Creating, Versioning, Deleting
<1>18. QED
  BY <1>3, <1>8, <1>9, <1>12, <1>14, <1>17, GoesOn

LEMMA JoinedDrop ==
  ASSUME NEW u, Single(u), Typed, Typed', Grows, Joined(u), Remembers, Drop(u)
  PROVE  Joined(u)' /\ WholeStep
<1>1. PICK c : c = call[u]
  OBVIOUS
<1>2. c.step = "drop" /\ UNCHANGED <<live, rev, series, attached>>
  BY <1>1 DEF Drop, Goes
<1>3. PICK r \in Droppable(c) :
        /\ records' = records \ {r} /\ shelved' = [shelved EXCEPT ![r.doc] = @ - 1]
        /\ Continues(u, [c EXCEPT !.todo = @ \ {r}])
  BY <1>1 DEF Drop
<1>4. /\ u \in User /\ c \in Call /\ KnowsDocs(c)
      /\ c.op \in DOMAIN After /\ c.step \in DOMAIN After[c.op]
      /\ c.op \in ArchiveCalls
      /\ After[c.op][c.step] = IF c.op = "restore" THEN "revive" ELSE "drop"
  BY <1>1, <1>2, AtStep DEF StepFits
<1>5. PICK next : next = IF c.op = "restore" THEN "revive" ELSE "drop"
  OBVIOUS
<1>6. PICK y : y = [c EXCEPT !.todo = @ \ {r}]
  OBVIOUS
<1>7. PICK x : x = [y EXCEPT !.step = next]
  OBVIOUS
<1>8. /\ y.op = c.op /\ y.step = c.step /\ x.op = c.op /\ x.step = next
      /\ x.doc = c.doc /\ x.made = c.made /\ x.major = c.major
      /\ x.todo = c.todo \ {r} /\ x.at = c.at /\ x.record = c.record /\ next # "end"
  BY <1>4, <1>5, <1>6, <1>7 DEF Call
<1>9. call' = [call EXCEPT ![u] = x]
  <2>1. Continues(u, y)
    BY <1>3, <1>6
  <2>2. QED  BY <1>2, <1>4, <1>5, <1>7, <1>8, <2>1 DEF Continues
<1>10. seen' = seen
  BY <1>8, <1>9, NotSeen
<1>11. SameWork(c, x)
  BY <1>4, <1>8, <1>10, SeriesSame DEF SameWork
<1>12. Story(u, c) /\ InOrder(c) /\ OneEach /\ RecordsSound
  BY <1>1 DEF Joined
<1>13. c.op = "restore" => Restores(c) /\ r = c.record
  BY <1>2, <1>3, <1>12 DEF Story, Unwritten, Droppable, Doomed
<1>14. c.op = "destroy" => Purges(c) /\ r \in c.todo
  BY <1>2, <1>3, <1>12 DEF Story, Unwritten, Droppable, Doomed
<1>15. r \in records /\ c.todo \subseteq records
  BY <1>2, <1>4, <1>13, <1>14 DEF Restores, Purges, ArchiveCalls
<1>16. PICK d : d = r.doc
  OBVIOUS
<1>17. Archived(records)' = Archived(records) \ {d}
  BY <1>3, <1>12, <1>15, <1>16 DEF Archived, OneEach
<1>18. (OneEach /\ RecordsSound)'
  <2>1. \A q \in records' : q \in records /\ q.doc # d /\ q.doc \in Doc
    BY <1>3, <1>12, <1>15, <1>16 DEF OneEach, Typed, Filed, Record
  <2>2. \A q \in records' : shelved'[q.doc] = shelved[q.doc]
    BY <1>3, <1>16, <2>1 DEF Typed, Stored
  <2>3. QED  BY <1>2, <1>12, <2>1, <2>2 DEF OneEach, RecordsSound
<1>19. Archives(x)' = Archives(c)
  BY <1>11, SameSets
<1>20. CASE c.op = "restore"
  <2>1. /\ c.doc \in seen.archive
        /\ Archived(c.todo) \subseteq Archives(c) /\ c.at = d
        /\ rev = seen.rev /\ series = seen.series /\ live = seen.live \cup Done(c)
        /\ d \in Done(c) /\ Archived(records) = seen.archive \ (Done(c) \ {d})
    BY <1>2, <1>13, <1>16, <1>20 DEF Restores
  <2>2. r \notin c.todo
    BY <1>16, <2>1 DEF Done, Archived
  <2>3. x.todo = c.todo /\ x.todo \subseteq records'
    BY <1>3, <1>8, <1>15, <2>2
  <2>4. Done(x)' = Done(c)
    BY <1>19, <2>3 DEF Done, Archived
  <2>5. Archived(records)' = seen.archive \ Done(c)
    BY <1>17, <2>1
  <2>6. Restores(x)'
    BY <1>2, <1>5, <1>8, <1>10, <1>19, <1>20, <2>1, <2>3, <2>4, <2>5
       DEF Restores, Archived
  <2>7. Story(u, x)'
    BY <1>5, <1>8, <1>20, <2>6 DEF Story, Unwritten, Creating, Versioning, Deleting
  <2>8. attached = live /\ Archived(records) \cap live \subseteq {d}
    BY <1>2, <1>12, <1>20, <2>1 DEF InOrder, Away, Twice, Deleting
  <2>9. attached' = live' /\ Archived(records)' \cap live' = {}
    BY <1>2, <1>17, <2>8
  <2>10. InOrder(x)'
    BY <1>5, <1>8, <1>20, <2>9, InOrderAtRest
  <2>11. QED
    BY <1>1, <1>2, <1>8, <1>9, <1>12, <1>18, <1>20, <2>7, <2>10, GoesOn
<1>21. CASE c.op = "destroy"
  <2>1. /\ c.doc \in seen.archive /\ Archived(c.todo) \subseteq Archives(c)
        /\ live = seen.live /\ rev = seen.rev /\ series = seen.series
        /\ Archived(records) = seen.archive \ Done(c) /\ r \in c.todo
    BY <1>14, <1>21 DEF Purges, Shows
  <2>2. /\ Archives(c) \ Archived(x.todo) = Done(c) \cup {d}
        /\ Archived(x.todo) \subseteq Archives(c)
    <3>1. OneEach /\ c.todo \subseteq records /\ Archived(c.todo) \subseteq Archives(c)
      BY <1>12, <1>15, <2>1
    <3>2. r \in c.todo /\ x.todo = c.todo \ {r}
      BY <1>8, <2>1
    <3>3. QED  BY <1>16, <3>1, <3>2, OneMoreDone
  <2>3. Done(x)' = Done(c) \cup {d}
    BY <1>19, <2>2 DEF Done, Archived
  <2>4. Archived(records)' = seen.archive \ Done(x)' /\ x.todo \subseteq records'
    BY <1>3, <1>8, <1>15, <1>17, <2>1, <2>3
  <2>5. Purges(x)'
    BY <1>2, <1>8, <1>10, <1>19, <2>1, <2>2, <2>4 DEF Purges, Shows, Archived
  <2>6. Story(u, x)'
    BY <1>5, <1>8, <1>21, <2>5 DEF Story, Unwritten, Creating, Versioning, Deleting
  <2>7. InOrder(x)'
    BY <1>2, <1>5, <1>8, <1>12, <1>17, <1>21, InOrderAtRest DEF Deleting
  <2>8. QED
    BY <1>1, <1>2, <1>8, <1>9, <1>12, <1>18, <1>21, <2>6, <2>7, GoesOn
<1>22. QED  BY <1>4, <1>20, <1>21 DEF ArchiveCalls

LEMMA NeverDropHalf ==
  ASSUME NEW u, Single(u), Typed, Joined(u)  PROVE ~DropHalf(u)
<1>1. SUFFICES ASSUME DropHalf(u)  PROVE FALSE
  OBVIOUS
<1>2. PICK c : c = call[u]
  OBVIOUS
<1>3. c.step = "drop"
  BY <1>1, <1>2 DEF DropHalf, Goes
<1>4. PICK r \in Droppable(c) : shelved[r.doc] = 0
  BY <1>1, <1>2 DEF DropHalf
<1>5. c.op \in ArchiveCalls
  BY <1>2, <1>3, AtStep DEF StepFits
<1>6. Story(u, c) /\ RecordsSound
  BY <1>2 DEF Joined
<1>7. r \in records
  BY <1>3, <1>4, <1>5, <1>6
     DEF Story, Unwritten, Droppable, Doomed, Purges, ArchiveCalls
<1>8. QED  BY <1>4, <1>6, <1>7 DEF RecordsSound

\* The loop over the records ends with the last one.
LEMMA LoopIsOver ==
  ASSUME NEW u, Single(u), Typed, Joined(u), LoopOver(u), NEW c, c = call[u]
  PROVE  /\ c.todo = {} /\ u \in User /\ c \in Call /\ KnowsDocs(c) /\ c.step # "end"
         /\ \/ c.op = "restore" /\ c.step = "revive"
            \/ c.op = "destroy" /\ c.step = "drop"
<1>1. c.step \in {"revive", "attach", "drop", "over"}
  BY DEF LoopOver, Goes
<1>2. Story(u, c) /\ InOrder(c) /\ RecordsSound /\ c.step # "over"
  BY DEF Joined, InOrder
<1>3. /\ u \in User /\ c \in Call /\ KnowsDocs(c) /\ c.op \in ArchiveCalls
      /\ c.step \in {"revive", "attach"} => c.op = "restore"
  BY <1>1, <1>2, AtStep DEF StepFits, ArchiveCalls
<1>4. c.op = "restore" => Restores(c)
  BY <1>1, <1>2 DEF Story, Unwritten
<1>5. c.op = "destroy" => Purges(c)
  BY <1>1, <1>2 DEF Story, Unwritten
<1>6. CASE c.step = "revive"
  <2>1. /\ c.todo \subseteq records /\ Archived(records) \cap live = {}
    BY <1>2, <1>3, <1>4, <1>6, InOrderAtRest DEF Restores
  <2>2. \A r \in c.todo : r.doc \notin live
    BY <2>1 DEF Archived
  <2>3. c.todo = {}
    BY <1>6, <2>2 DEF LoopOver, Goes
  <2>4. QED  BY <1>3, <1>6, <2>3
<1>7. CASE c.step = "attach"
  <2>1. c.record \in records /\ c.record.doc = c.at
    BY <1>3, <1>4, <1>7 DEF Restores
  <2>2. shelved[c.at] > 0
    BY <1>2, <2>1 DEF RecordsSound
  <2>3. shelved[c.at] = 0
    BY <1>7 DEF LoopOver, Goes
  <2>4. QED  BY <2>2, <2>3
<1>8. CASE c.step = "drop"
  <2>1. Droppable(c) = {}
    BY <1>8 DEF LoopOver, Goes
  <2>2. c.op # "restore"
    BY <1>4, <1>8, <2>1 DEF Restores, Droppable, Doomed
  <2>3. c.op = "destroy"
    BY <1>3, <2>2 DEF ArchiveCalls
  <2>4. c.todo = {}
    BY <2>1, <2>2 DEF Droppable, Doomed
  <2>5. QED  BY <1>3, <1>8, <2>3, <2>4
<1>9. QED  BY <1>1, <1>2, <1>6, <1>7, <1>8

LEMMA JoinedLoopEnds ==
  ASSUME NEW u, Single(u), Typed, Typed', Grows, Joined(u), Remembers, LoopEnds(u)
  PROVE  Joined(u)' /\ WholeStep
<1>1. PICK c, d : c = call[u] /\ d = c.doc
  OBVIOUS
<1>2. /\ c.todo = {} /\ u \in User /\ c \in Call /\ KnowsDocs(c) /\ c.step # "end"
      /\ \/ c.op = "restore" /\ c.step = "revive"
         \/ c.op = "destroy" /\ c.step = "drop"
  BY <1>1, LoopIsOver DEF LoopEnds
<1>3. UNCHANGED <<live, rev, series, attached, shelved, records>> /\ failed' = failed
  BY DEF LoopEnds, stores, Fine
<1>4. Story(u, c) /\ InOrder(c) /\ SeenType /\ OneEach /\ RecordsSound
  BY <1>1 DEF Joined
<1>5. (OneEach /\ RecordsSound)' /\ Archived(records)' = Archived(records)
  BY <1>3, <1>4, RecordsStay
<1>6. Done(c) = Archives(c)
  BY <1>2 DEF Done, Archived
<1>7. attached' = live' /\ Archived(records)' \cap live' = {}
  BY <1>2, <1>3, <1>4, <1>5, InOrderAtRest DEF Deleting
<1>8. CASE c.op = "destroy"
  <2>1. call' = [call EXCEPT ![u] = Rest]
    BY <1>1, <1>8 DEF LoopEnds, Ends
  <2>2. Joined(u)' /\ (seen' = seen \/ Ending)
    BY <1>1, <1>2, <1>3, <1>5, <1>7, <2>1, EndsSeen
  <2>3. ASSUME Ending  PROVE WholeStep
    <3>1. Purges(c)
      BY <1>2, <1>4, <1>8 DEF Story, Unwritten
    <3>2. /\ d \in seen.archive /\ live = seen.live /\ rev = seen.rev
          /\ series = seen.series /\ Archived(records) = seen.archive \ Archives(c)
      BY <1>1, <1>6, <3>1 DEF Purges, Shows
    <3>3. d \in Doc /\ Archives(c) = Whole!ArchivesOfVersionSeries(seen.rev[d].vs)
      BY <1>1, <1>2, <1>4, <1>8, <3>2, ArchivesSeries DEF ArchiveCalls, Archives
    <3>4. /\ seen'.live = seen.live /\ seen'.rev = seen.rev /\ seen'.series = seen.series
          /\ seen'.archive = seen.archive \ Archives(c) /\ seen'.outcome = "ok"
      BY <1>3, <1>5, <2>3, <3>2 DEF Ending, Told
    <3>5. Whole!DestroyArchive(d)
      BY <3>2, <3>3, <3>4 DEF Whole!DestroyArchive, Whole!Returns
    <3>6. QED  BY <1>2, <3>3, <3>5, WholeCall DEF Whole!RemovalCall
  <2>4. QED  BY <2>2, <2>3, SeenSame
<1>9. CASE c.op = "restore"
  <2>1. Restores(c)
    BY <1>2, <1>4, <1>9 DEF Story, Unwritten
  <2>2. /\ d \in seen.archive /\ rev = seen.rev /\ series = seen.series
        /\ live = seen.live \cup Done(c) /\ Archived(records) = seen.archive \ Done(c)
    BY <1>1, <1>2, <1>9, <2>1 DEF Restores
  <2>3. PICK k : k = rev[d]
    OBVIOUS
  <2>4. PICK x : x = [c EXCEPT !.step = "rewrite", !.at = d, !.copy = k]
    OBVIOUS
  <2>5. /\ x.op = c.op /\ x.step = "rewrite" /\ x.doc = d /\ x.made = c.made
        /\ x.major = c.major /\ x.todo = {} /\ x.at = d /\ x.copy = k
    BY <1>1, <1>2, <2>4 DEF Call
  <2>6. call' = [call EXCEPT ![u] = x]
    BY <1>1, <1>9, <2>3, <2>4 DEF LoopEnds
  <2>7. seen' = seen
    BY <2>5, <2>6, NotSeen
  <2>8. SameWork(c, x)
    BY <1>1, <1>2, <2>5, <2>7, SeriesSame DEF SameWork
  <2>9. Archives(x)' = Archives(c) /\ Done(x)' = Done(c)
    BY <1>2, <2>5, <2>8, SameSets DEF Done, Archived
  <2>10. Restores(x)'
    BY <1>1, <1>3, <1>5, <2>2, <2>3, <2>5, <2>7, <2>9 DEF Restores, Archived
  <2>11. Story(u, x)'
    BY <1>9, <2>5, <2>10 DEF Story, Unwritten, Creating, Versioning, Deleting
  <2>12. InOrder(x)'
    BY <1>7, <1>9, <2>5, InOrderAtRest DEF Deleting, InOrder, Away, Twice
  <2>13. QED
    BY <1>1, <1>2, <1>5, <1>9, <2>5, <2>6, <2>11, <2>12, GoesOn
<1>10. QED  BY <1>2, <1>8, <1>9

LEMMA NeverRestoreFails ==
  ASSUME NEW u, Single(u), Typed, Joined(u)  PROVE ~RestoreFails(u)
<1>1. SUFFICES ASSUME RestoreFails(u)  PROVE FALSE
  OBVIOUS
<1>2. PICK c : c = call[u]
  OBVIOUS
<1>3. LoopOver(u) /\ c.op = "restore" /\ c.doc \notin live
  BY <1>1, <1>2 DEF RestoreFails
<1>4. c.todo = {} /\ c.step = "revive" /\ KnowsDocs(c)
  BY <1>2, <1>3, LoopIsOver
<1>5. Story(u, c) /\ SeenType
  BY <1>2 DEF Joined
<1>6. Restores(c)
  BY <1>3, <1>4, <1>5 DEF Story, Unwritten
<1>7. c.doc \in seen.archive /\ rev = seen.rev /\ live = seen.live \cup Done(c)
  BY <1>6 DEF Restores
<1>8. c.doc \in Archives(c)
  BY <1>3, <1>4, <1>5, <1>7, ArchivesSeries DEF ArchiveCalls
<1>9. QED  BY <1>3, <1>4, <1>7, <1>8 DEF Done, Archived

\* What the calls of versioning rewrite is still there.
LEMMA NeverResaveFails ==
  ASSUME NEW u, Single(u), Typed, Joined(u)  PROVE ~ResaveFails(u)
<1>1. SUFFICES ASSUME ResaveFails(u)  PROVE FALSE
  OBVIOUS
<1>2. PICK c : c = call[u]
  OBVIOUS
<1>3. \/ c.step = "resave" /\ c.new \notin live
      \/ c.step = "resaveFormer" /\ c.former \notin live
  BY <1>1, <1>2 DEF ResaveFails, Goes
<1>4. /\ c.op \in Creating \cup Versioning \cup {"checkOut"}
      /\ c.step = "resaveFormer" => c.op \in Versioning
  BY <1>2, <1>3, AtStep DEF StepFits
<1>5. Story(u, c) /\ SeenType
  BY <1>2 DEF Joined
<1>6. CASE c.op \in Creating \cup {"checkOut"}
  <2>1. Adds(u, c)
    BY <1>3, <1>5, <1>6 DEF Story, Unwritten, Creating
  <2>2. c.step = "resave"
    BY <1>3, <1>4, <1>6 DEF Creating, Versioning
  <2>3. live = seen.live \cup {c.new}
    BY <2>1, <2>2 DEF Adds, Shows
  <2>4. QED  BY <1>3, <2>2, <2>3
<1>7. CASE c.op \in Versioning
  <2>1. Renews(u, c)
    BY <1>3, <1>5, <1>7 DEF Story, Unwritten, Versioning
  <2>2. PICK f, n \in Doc : Versioned(c, f, n)
    BY <1>3, <2>1 DEF Renews
  <2>3. /\ f \in Choice(c) /\ (c.op = "checkIn" => f # c.doc)
        /\ live = Kept(c) \cup {n}
        /\ c.step = "resave" => n = c.new
        /\ c.step = "resaveFormer" => f = c.former
    BY <2>2 DEF Versioned, Shows
  <2>4. f \in seen.live
    BY <1>5, <2>1, <2>3, ChoiceSeen DEF Renews
  <2>5. f \in Kept(c)
    BY <1>3, <2>3, <2>4 DEF Kept, Left
  <2>6. QED  BY <1>3, <2>3, <2>5
<1>8. QED  BY <1>4, <1>6, <1>7

LEMMA NeverPromoteFails ==
  ASSUME NEW u, Single(u), Typed, Joined(u)  PROVE ~PromoteFails(u)
<1>1. SUFFICES ASSUME PromoteFails(u)  PROVE FALSE
  OBVIOUS
<1>2. PICK c : c = call[u]
  OBVIOUS
<1>3. c.step = "promote" /\ c.former \notin live
  BY <1>1, <1>2 DEF PromoteFails, Goes
<1>4. c.op = "deleteVersion"
  BY <1>2, <1>3, AtStep DEF StepFits
<1>5. Story(u, c)
  BY <1>2 DEF Joined
<1>6. Deletes(u, c)
  BY <1>3, <1>4, <1>5 DEF Story, Unwritten, Deleting
<1>7. QED  BY <1>3, <1>6 DEF Deletes, V!LatestVersions, V!Versions

-----------------------------------------------------------------------------
(***************************************************************************)
(* Calls that have written nothing                                         *)
(***************************************************************************)

\* They end unseen ...
LEMMA EndsUnwritten ==
  ASSUME NEW u, Single(u), Typed, Typed', Joined(u), Remembers,
         call[u].step # "end", Unwritten(call[u]), Ends(u), UNCHANGED stores
  PROVE  Joined(u)' /\ WholeStep
<1>1. PICK c : c = call[u]
  OBVIOUS
<1>2. /\ call' = [call EXCEPT ![u] = Rest]
      /\ UNCHANGED <<live, rev, series, attached, shelved, records>>
  BY DEF Ends, stores
<1>3. Story(u, c) /\ InOrder(c) /\ OneEach /\ RecordsSound
  BY <1>1 DEF Joined
<1>4. Shows(seen.live, seen.rev, seen.series, seen.archive)
  BY <1>1, <1>3 DEF Story
<1>5. (OneEach /\ RecordsSound)' /\ Archived(records)' = Archived(records)
  BY <1>2, <1>3, RecordsStay
<1>6. Untold
  BY <1>2, <1>4, <1>5 DEF Untold, Shows
<1>7. c.op \notin Deleting \cup {"restore"} \/ c.step = "lock"
  BY <1>1 DEF Unwritten, Deleting
<1>8. attached' = live' /\ Archived(records)' \cap live' = {}
  BY <1>2, <1>3, <1>5, <1>7, InOrderAtRest
<1>9. Joined(u)' /\ seen' = seen
  BY <1>1, <1>2, <1>5, <1>6, <1>8, EndsSeen
<1>10. QED  BY <1>9, SeenSame

LEMMA JoinedRefuse ==
  ASSUME NEW u, Single(u), Typed, Typed', Joined(u), Remembers, Refuse(u)
  PROVE  Joined(u)' /\ WholeStep
<1>1. /\ call[u].step = "lock" /\ Ends(u) /\ UNCHANGED stores
  BY DEF Refuse, Goes
<1>2. Unwritten(call[u]) /\ call[u].step # "end"
  BY <1>1 DEF Unwritten
<1>3. QED  BY <1>1, <1>2, EndsUnwritten

LEMMA JoinedAllRead ==
  ASSUME NEW u, Single(u), Typed, Typed', Joined(u), Remembers, AllRead(u)
  PROVE  Joined(u)' /\ WholeStep
<1>1. call[u].step = "readLock" /\ Ends(u) /\ UNCHANGED stores
  BY DEF AllRead, Goes
<1>2. call[u].op = "getAllVersions"
  BY <1>1, AtStep DEF StepFits
<1>3. Unwritten(call[u]) /\ call[u].step # "end"
  BY <1>1, <1>2 DEF Unwritten
<1>4. QED  BY <1>1, <1>3, EndsUnwritten

\* ... and what goes on, or starts, with the databases as they were.
LEMMA GoesOnFrom ==
  ASSUME NEW u, Single(u), Typed, Typed', Grows, Joined(u), Remembers,
         Unwritten(call[u]), UNCHANGED stores,
         NEW x, call' = [call EXCEPT ![u] = x], x.step \notin {"end", "over"},
         x.op = "setContentStream" => ~x.major,
         \/ x.op \notin Deleting \cup {"restore"}
         \/ x.step \notin {"rewrite", "archive", "remove", "attach", "drop"},
         Shows(seen.live, seen.rev, seen.series, seen.archive)' => Story(u, x)'
  PROVE  Joined(u)' /\ WholeStep
<1>1. PICK c : c = call[u]
  OBVIOUS
<1>2. UNCHANGED <<live, rev, series, attached, shelved, records>>
  BY DEF stores
<1>3. Story(u, c) /\ InOrder(c) /\ OneEach /\ RecordsSound
  BY <1>1 DEF Joined
<1>4. Shows(seen.live, seen.rev, seen.series, seen.archive)
  BY <1>1, <1>3 DEF Story
<1>5. (OneEach /\ RecordsSound)' /\ Archived(records)' = Archived(records)
  BY <1>2, <1>3, RecordsStay
<1>6. seen' = seen
  BY NotSeen
<1>7. Shows(seen.live, seen.rev, seen.series, seen.archive)'
  BY <1>2, <1>4, <1>5, <1>6 DEF Shows
<1>8. c.op \notin Deleting \cup {"restore"} \/ c.step = "lock"
  BY <1>1 DEF Unwritten, Deleting
<1>9. attached = live /\ Archived(records) \cap live = {}
  BY <1>3, <1>8, InOrderAtRest
<1>10. InOrder(x)'
  BY <1>2, <1>5, <1>9, InOrderAtRest
<1>11. QED  BY <1>5, <1>7, <1>10, GoesOn

LEMMA JoinedReadLock ==
  ASSUME NEW u, Single(u), Typed, Typed', Grows, Joined(u), Remembers, ReadLock(u)
  PROVE  Joined(u)' /\ WholeStep
<1>1. PICK c : c = call[u]
  OBVIOUS
<1>2. c.step = "readLock" /\ UNCHANGED stores
  BY <1>1 DEF ReadLock, Goes
<1>3. PICK d \in c.todo : Continues(u, [c EXCEPT !.todo = @ \ {d}, !.reads = @ \cup {d}])
  BY <1>1 DEF ReadLock
<1>4. /\ c \in Call /\ c.op = "getAllVersions" /\ After[c.op][c.step] = "readLock"
  BY <1>1, <1>2, AtStep DEF StepFits
<1>5. PICK y : y = [c EXCEPT !.todo = @ \ {d}, !.reads = @ \cup {d}]
  OBVIOUS
<1>6. PICK x : x = [y EXCEPT !.step = "readLock"]
  OBVIOUS
<1>7. y.op = c.op /\ y.step = c.step /\ x.op = c.op /\ x.step = "readLock"
  BY <1>4, <1>5, <1>6 DEF Call
<1>8. call' = [call EXCEPT ![u] = x]
  <2>1. Continues(u, y)
    BY <1>3, <1>5
  <2>2. QED  BY <1>2, <1>4, <1>6, <1>7, <2>1 DEF Continues
<1>9. Unwritten(c) /\ Unwritten(x)
  BY <1>4, <1>7 DEF Unwritten
<1>10. Shows(seen.live, seen.rev, seen.series, seen.archive)' => Story(u, x)'
  BY <1>4, <1>7 DEF Story, Unwritten
<1>11. QED
  BY <1>1, <1>2, <1>4, <1>7, <1>8, <1>9, <1>10, GoesOnFrom DEF Deleting

-----------------------------------------------------------------------------
(***************************************************************************)
(* Calls are sent                                                          *)
(***************************************************************************)

LEMMA AtRest ==
  ASSUME NEW u, Single(u), Typed, Joined(u), call[u] = Rest
  PROVE  /\ u \in User /\ Unwritten(call[u])
         /\ Shows(seen.live, seen.rev, seen.series, seen.archive)
         /\ attached = live /\ Archived(records) \cap live = {}
<1>1. PICK c : c = call[u]
  OBVIOUS
<1>2. c.op = "none" /\ c.step = "end" /\ u \in User
  BY <1>1 DEF Rest, Single
<1>3. Unwritten(c)
  BY <1>2 DEF Unwritten
<1>4. Story(u, c) /\ InOrder(c)
  BY <1>1 DEF Joined
<1>5. Shows(seen.live, seen.rev, seen.series, seen.archive)
  BY <1>3, <1>4 DEF Story
<1>6. attached = live /\ Archived(records) \cap live = {}
  BY <1>2, <1>4, InOrderAtRest DEF Deleting
<1>7. QED  BY <1>1, <1>2, <1>3, <1>5, <1>6

LEMMA JoinedSend ==
  ASSUME NEW u, Single(u), Typed, Typed', Grows, Joined(u), Remembers,
         NEW op \in Locking, NEW d \in Doc, NEW m \in Major, Send(u, op, d, m)
  PROVE  Joined(u)' /\ WholeStep
<1>1. call[u] = Rest /\ UNCHANGED stores
  BY DEF Send, Sends
<1>2. PICK x : x = [Rest EXCEPT !.op = op, !.step = "lock", !.doc = d,
                                !.major = m /\ op = "checkIn"]
  OBVIOUS
<1>3. x.op = op /\ x.step = "lock" /\ (op = "setContentStream" => ~x.major)
  BY <1>2 DEF Rest
<1>4. call' = [call EXCEPT ![u] = x]
  BY <1>2 DEF Send, Sends
<1>5. Unwritten(call[u])
  BY <1>1, AtRest
<1>6. Shows(seen.live, seen.rev, seen.series, seen.archive)' => Story(u, x)'
  BY <1>3 DEF Story, Unwritten
<1>7. QED
  BY <1>1, <1>3, <1>4, <1>5, <1>6, GoesOnFrom

LEMMA JoinedSendGetAllVersions ==
  ASSUME NEW u, Single(u), Typed, Typed', Grows, Joined(u), Remembers,
         NEW d \in Doc, SendGetAllVersions(u, d)
  PROVE  Joined(u)' /\ WholeStep
<1>1. call[u] = Rest /\ UNCHANGED stores
  BY DEF SendGetAllVersions, Sends
<1>2. PICK x : x = [Rest EXCEPT !.op = "getAllVersions", !.step = "readLock", !.doc = d,
                                !.todo = V!Versions(rev[d].vs)]
  OBVIOUS
<1>3. x.op = "getAllVersions" /\ x.step = "readLock"
  BY <1>2 DEF Rest
<1>4. call' = [call EXCEPT ![u] = x]
  BY <1>2 DEF SendGetAllVersions, Sends
<1>5. Unwritten(call[u])
  BY <1>1, AtRest
<1>6. Shows(seen.live, seen.rev, seen.series, seen.archive)' => Story(u, x)'
  BY <1>3 DEF Story, Unwritten
<1>7. QED
  BY <1>1, <1>3, <1>4, <1>5, <1>6, GoesOnFrom

LEMMA JoinedSendSaveVersion ==
  ASSUME NEW u, Single(u), Typed, Typed', Grows, Joined(u), Remembers,
         NEW d \in Doc, NEW m \in Major, SendSaveVersion(u, d, m)
  PROVE  Joined(u)' /\ WholeStep
<1>1. call[u] = Rest /\ UNCHANGED stores /\ d \in live /\ rev[d].latest
  BY DEF SendSaveVersion, Sends
<1>2. PICK k : k = rev[d]
  OBVIOUS
<1>3. PICK x : x = [Rest EXCEPT !.op = "saveVersion", !.step = "supersede", !.doc = d,
                                !.major = m, !.former = d, !.copy = k]
  OBVIOUS
<1>4. /\ x.op = "saveVersion" /\ x.step = "supersede" /\ x.doc = d
      /\ x.former = d /\ x.copy = k
  BY <1>3 DEF Rest
<1>5. call' = [call EXCEPT ![u] = x]
  BY <1>2, <1>3 DEF SendSaveVersion, Sends
<1>6. Unwritten(call[u]) /\ Shows(seen.live, seen.rev, seen.series, seen.archive)
  BY <1>1, AtRest
<1>7. seen' = seen /\ rev' = rev
  BY <1>1, <1>4, <1>5, NotSeen DEF stores
<1>8. d \in seen.live /\ seen.rev[d] = k /\ k.latest
  BY <1>1, <1>2, <1>6 DEF Shows
<1>9. d # NoDoc
  BY VersionThreadsAssumptions
<1>10. SeriesOf(x)' = k.vs
  BY <1>2, <1>4, <1>7, <1>9 DEF SeriesOf
<1>11. ASSUME Shows(seen.live, seen.rev, seen.series, seen.archive)'  PROVE Story(u, x)'
  <2>1. RenewsGiven(u, x)'
    BY <1>4, <1>7, <1>8, <1>10 DEF RenewsGiven
  <2>2. Chosen(x)'
    BY <1>4, <1>7, <1>8, <1>9 DEF Chosen, Choice
  <2>3. Kept(x)' = seen'.live /\ Returned(x)' = seen'.series
    BY <1>4 DEF Kept, Returned
  <2>4. Chooses(x)'
    BY <1>11, <2>2, <2>3 DEF Chooses, Shows
  <2>5. Renews(u, x)'
    BY <1>4, <2>1, <2>4 DEF Renews
  <2>6. QED  BY <1>4, <2>5 DEF Story, Unwritten, Creating, Deleting
<1>12. QED
  BY <1>1, <1>4, <1>5, <1>6, <1>11, GoesOnFrom DEF Deleting

LEMMA JoinedSendArchiveCall ==
  ASSUME NEW u, Single(u), Typed, Typed', Grows, Joined(u), Remembers,
         NEW op \in ArchiveCalls, NEW d \in Doc, SendArchiveCall(u, op, d)
  PROVE  Joined(u)' /\ WholeStep
<1>1. call[u] = Rest /\ UNCHANGED stores /\ d \in Archived(records)
  BY DEF SendArchiveCall, Sends, Archived
<1>2. PICK s, t : s = rev[d].vs /\ t = RecordsOf(s)
  OBVIOUS
<1>3. PICK x : x = [Rest EXCEPT !.op = op, !.doc = d, !.todo = t,
                                !.step = IF op = "restore" THEN "revive" ELSE "drop"]
  OBVIOUS
<1>4. /\ x.op = op /\ x.step = (IF op = "restore" THEN "revive" ELSE "drop")
      /\ x.doc = d /\ x.todo = t
  BY <1>3 DEF Rest
<1>5. call' = [call EXCEPT ![u] = x]
  BY <1>2, <1>3 DEF SendArchiveCall, Sends
<1>6. Unwritten(call[u]) /\ Shows(seen.live, seen.rev, seen.series, seen.archive)
  BY <1>1, AtRest
<1>7. seen' = seen /\ rev' = rev /\ records' = records
  BY <1>1, <1>4, <1>5, NotSeen DEF stores
<1>8. d # NoDoc
  BY VersionThreadsAssumptions
<1>9. SeriesOf(x)' = s
  BY <1>2, <1>4, <1>7, <1>8 DEF SeriesOf
<1>10. d \in seen.archive /\ Archived(records) = seen.archive /\ rev = seen.rev
  BY <1>1, <1>6 DEF Shows
<1>11. Archives(x)' = {e \in seen.archive : seen.rev[e].vs = s}
  BY <1>7, <1>9 DEF Archives, Whole!ArchivesOfVersionSeries
<1>12. t \subseteq records' /\ Archived(t) = Archives(x)'
  <2>1. t = {r \in records : rev[r.doc].vs = s}
    BY <1>2 DEF RecordsOf
  <2>2. Archived(t) = {e \in Archived(records) : rev[e].vs = s}
    BY <2>1 DEF Archived
  <2>3. QED  BY <1>7, <1>10, <1>11, <2>1, <2>2
<1>13. Done(x)' = {}
  BY <1>4, <1>12 DEF Done, Archived
<1>14. ASSUME Shows(seen.live, seen.rev, seen.series, seen.archive)'  PROVE Story(u, x)'
  <2>1. /\ live' = seen'.live /\ rev' = seen'.rev /\ series' = seen'.series
        /\ Archived(records)' = seen'.archive
    BY <1>14 DEF Shows
  <2>2. Archived(x.todo)' = Archived(t) /\ x.todo \subseteq records'
    BY <1>4, <1>12 DEF Archived
  <2>3. x.doc \in seen'.archive
    BY <1>4, <1>7, <1>10
  <2>4. CASE op = "restore"
    <3>1. x.step = "revive"
      BY <1>4, <2>4
    <3>2. Restores(x)'
      BY <1>12, <1>13, <2>1, <2>2, <2>3, <3>1 DEF Restores
    <3>3. QED  BY <1>4, <2>4, <3>2 DEF Story, Unwritten, Creating, Versioning, Deleting
  <2>5. CASE op = "destroy"
    <3>1. Purges(x)'
      BY <1>12, <1>13, <2>1, <2>2, <2>3 DEF Purges, Shows
    <3>2. QED  BY <1>4, <2>5, <3>1 DEF Story, Unwritten, Creating, Versioning, Deleting
  <2>6. QED  BY <2>4, <2>5 DEF ArchiveCalls
<1>15. /\ x.step \notin {"end", "over"} /\ x.op # "setContentStream"
       /\ \/ x.op \notin Deleting \cup {"restore"}
          \/ x.step \notin {"rewrite", "archive", "remove", "attach", "drop"}
  BY <1>4 DEF ArchiveCalls, Deleting
<1>16. QED
  BY <1>1, <1>5, <1>6, <1>14, <1>15, GoesOnFrom

LEMMA JoinedSendCreate ==
  ASSUME NEW u, Single(u), Typed, Typed', Grows, Joined(u), Remembers,
         NEW s \in Series, NEW state \in V!VersioningState, SendCreate(u, s, state)
  PROVE  Joined(u)' /\ WholeStep
<1>1. /\ call[u] = Rest /\ series[s] = Absent
      /\ series' = [series EXCEPT ![s] = V!CheckedIn]
      /\ UNCHANGED <<live, rev, attached, shelved, records>>
  BY DEF SendCreate, Sends
<1>2. PICK op, m : /\ op = (IF state = "CHECKEDOUT" THEN "createPwc" ELSE "createDocument")
                   /\ m = V!FirstVersion(s, state)
  OBVIOUS
<1>3. PICK x : x = [Rest EXCEPT !.op = op, !.step = "create", !.made = m]
  OBVIOUS
<1>4. x.op = op /\ x.step = "create" /\ x.doc = NoDoc /\ x.made = m
  BY <1>3 DEF Rest
<1>5. call' = [call EXCEPT ![u] = x]
  BY <1>2, <1>3 DEF SendCreate, Sends
<1>6. /\ Shows(seen.live, seen.rev, seen.series, seen.archive)
      /\ attached = live /\ Archived(records) \cap live = {}
  BY <1>1, AtRest
<1>7. seen' = seen
  BY <1>4, <1>5, NotSeen
<1>8. OneEach /\ RecordsSound
  BY DEF Joined
<1>9. (OneEach /\ RecordsSound)' /\ Archived(records)' = Archived(records)
  BY <1>1, <1>8, RecordsStay
<1>10. m.vs = s
  BY <1>2 DEF V!FirstVersion, V!Pwc, V!Version
<1>11. SeriesOf(x)' = s
  BY <1>4, <1>10 DEF SeriesOf
<1>12. op \in Creating /\ (op = "createPwc" <=> state = "CHECKEDOUT")
  BY <1>2 DEF Creating
<1>13. seen.series[s] = Absent /\ series = seen.series
  BY <1>1, <1>6 DEF Shows
<1>14. AddsGiven(u, x)'
  <2>1. m = V!FirstVersion(s, state)'
    BY <1>2 DEF V!FirstVersion, V!Pwc, V!Version
  <2>2. x.op # "checkOut" /\ x.made = V!FirstVersion(SeriesOf(x), state)'
    BY <1>4, <1>11, <1>12, <2>1 DEF Creating
  <2>3. QED  BY <1>4, <1>7, <1>11, <1>12, <1>13, <2>2 DEF AddsGiven, V!VersioningState
<1>15. NodesOpened(x)' = [seen.series EXCEPT ![s] = V!CheckedIn]
  BY <1>4, <1>7, <1>11, <1>12 DEF NodesOpened, Nodes, Creating, V!CheckedIn
<1>16. Adds(u, x)'
  BY <1>1, <1>4, <1>6, <1>7, <1>9, <1>13, <1>14, <1>15 DEF Adds, Shows
<1>17. Story(u, x)'
  BY <1>4, <1>12, <1>16 DEF Story, Unwritten, Creating, Versioning, Deleting
<1>18. InOrder(x)'
  BY <1>1, <1>4, <1>6, <1>9, InOrderAtRest
<1>19. QED
  BY <1>4, <1>5, <1>9, <1>12, <1>17, <1>18, GoesOn DEF Creating

-----------------------------------------------------------------------------
(***************************************************************************)
(* A call is admitted                                                      *)
(***************************************************************************)

\* What it has read, exactly.
Reads(c, f, k, m, t) ==
  LET latest == V!LatestVersions(rev[c.doc].vs) IN
  /\ c.op = "checkIn" =>
       IF f = NoDoc THEN latest = {} ELSE f \in latest /\ k = rev[f]
  /\ c.op = "setContentStream" => f = c.doc /\ k = rev[f]
  /\ c.op = "checkOut" => m = V!Pwc(rev[c.doc].vs)
  /\ c.op = "deleteVersion" => t = {c.doc}
  /\ c.op = "deleteSeries" => t = V!Versions(rev[c.doc].vs)

LEMMA AdmitReads ==
  ASSUME NEW u, NEW c, c = call[u], Admit(u), c \in Call, c.doc # NoDoc, NoDoc \notin live,
         c.op \in Returning \cup Deleting \cup {"setContentStream", "checkOut"}
  PROVE  \E f, k, m, t : Reads(c, f, k, m, t) /\ Continues(u, Admitted(c, f, k, m, t))
<1>1. PICK s : s = rev[c.doc].vs
  OBVIOUS
<1> DEFINE y(f, k) == [c EXCEPT !.writes = {c.doc}, !.former = f, !.copy = k]
<1>2. \A f, k : y(f, k) = Admitted(c, f, k, c.made, c.todo)
  BY DEF Call, Admitted
<1>3. CASE c.op = "checkIn"
  <2>1. PICK latest : latest = V!LatestVersions(s)
    OBVIOUS
  <2>2. \A l \in latest : l # NoDoc
    BY <2>1 DEF V!LatestVersions, V!Versions
  <2>3. CASE latest = {}
    <3>1. Continues(u, y(NoDoc, Absent))
      BY <1>1, <1>3, <2>1, <2>3 DEF Admit
    <3>2. Continues(u, Admitted(c, NoDoc, Absent, c.made, c.todo))
      BY <1>2, <3>1
    <3>3. Reads(c, NoDoc, Absent, c.made, c.todo)
      BY <1>1, <1>3, <2>1, <2>3 DEF Reads
    <3>4. QED  BY <3>2, <3>3
  <2>4. CASE latest # {}
    <3>1. PICK f \in latest :
            Continues(u, [c EXCEPT !.writes = {c.doc}, !.former = f,
                                   !.copy = IF f = NoDoc THEN Absent ELSE rev[f]])
      BY <1>1, <1>3, <2>1, <2>4 DEF Admit
    <3>2. f # NoDoc
      BY <2>2, <3>1
    <3>3. Continues(u, y(f, rev[f]))
      BY <3>1, <3>2
    <3>4. Continues(u, Admitted(c, f, rev[f], c.made, c.todo))
      BY <1>2, <3>3
    <3>5. Reads(c, f, rev[f], c.made, c.todo)
      BY <1>1, <1>3, <2>1, <3>1, <3>2 DEF Reads
    <3>6. QED  BY <3>4, <3>5
  <2>5. QED  BY <2>3, <2>4
<1>4. CASE c.op = "setContentStream"
  <2>1. Continues(u, y(c.doc, rev[c.doc]))
    BY <1>4 DEF Admit
  <2>2. Continues(u, Admitted(c, c.doc, rev[c.doc], c.made, c.todo))
    BY <1>2, <2>1
  <2>3. Reads(c, c.doc, rev[c.doc], c.made, c.todo)
    BY <1>4 DEF Reads
  <2>4. QED  BY <2>2, <2>3
<1>5. CASE c.op = "checkOut"
  <2>1. Continues(u, [y(NoDoc, Absent) EXCEPT !.made = V!Pwc(rev[c.doc].vs)])
    BY <1>5 DEF Admit
  <2>2. Continues(u, Admitted(c, NoDoc, Absent, V!Pwc(rev[c.doc].vs), c.todo))
    <3>1. [y(NoDoc, Absent) EXCEPT !.made = V!Pwc(rev[c.doc].vs)]
            = Admitted(c, NoDoc, Absent, V!Pwc(rev[c.doc].vs), c.todo)
      BY DEF Call, Admitted
    <3>2. QED  BY <2>1, <3>1
  <2>3. Reads(c, NoDoc, Absent, V!Pwc(rev[c.doc].vs), c.todo)
    BY <1>5 DEF Reads
  <2>4. QED  BY <2>2, <2>3
<1>6. CASE c.op = "cancelCheckOut"
  <2>1. Continues(u, y(NoDoc, Absent))
    BY <1>6 DEF Admit
  <2>2. Continues(u, Admitted(c, NoDoc, Absent, c.made, c.todo))
    BY <1>2, <2>1
  <2>3. Reads(c, NoDoc, Absent, c.made, c.todo)
    BY <1>6 DEF Reads
  <2>4. QED  BY <2>2, <2>3
<1>7. CASE c.op = "deleteVersion"
  <2>1. Continues(u, [y(NoDoc, Absent) EXCEPT !.todo = {c.doc}])
    BY <1>7 DEF Admit
  <2>2. Continues(u, Admitted(c, NoDoc, Absent, c.made, {c.doc}))
    <3>1. [y(NoDoc, Absent) EXCEPT !.todo = {c.doc}]
            = Admitted(c, NoDoc, Absent, c.made, {c.doc})
      BY DEF Call, Admitted
    <3>2. QED  BY <2>1, <3>1
  <2>3. Reads(c, NoDoc, Absent, c.made, {c.doc})
    BY <1>7 DEF Reads
  <2>4. QED  BY <2>2, <2>3
<1>8. CASE c.op = "deleteSeries"
  <2>1. Continues(u, [y(NoDoc, Absent) EXCEPT !.todo = V!Versions(s)])
    BY <1>1, <1>8 DEF Admit
  <2>2. Continues(u, Admitted(c, NoDoc, Absent, c.made, V!Versions(s)))
    <3>1. [y(NoDoc, Absent) EXCEPT !.todo = V!Versions(s)]
            = Admitted(c, NoDoc, Absent, c.made, V!Versions(s))
      BY DEF Call, Admitted
    <3>2. QED  BY <2>1, <3>1
  <2>3. Reads(c, NoDoc, Absent, c.made, V!Versions(s))
    BY <1>1, <1>8 DEF Reads
  <2>4. QED  BY <2>2, <2>3
<1>9. QED  BY <1>3, <1>4, <1>5, <1>6, <1>7, <1>8 DEF Returning, Deleting

LEMMA JoinedAdmit ==
  ASSUME NEW u, Single(u), Typed, Typed', Grows, Joined(u), Remembers, Admit(u)
  PROVE  Joined(u)' /\ WholeStep
<1>1. PICK c : c = call[u]
  OBVIOUS
<1>2. /\ c.step = "lock" /\ Accepted(u, c.op, c.doc) /\ UNCHANGED stores
  BY <1>1 DEF Admit, Goes
<1>3. PICK next : next = After[c.op][c.step]
  OBVIOUS
<1>4. /\ u \in User /\ c \in Call /\ KnowsDocs(c)
      /\ c.op \in DOMAIN After /\ c.step \in DOMAIN After[c.op]
      /\ StepFits(c.op, "lock", next)
  BY <1>1, <1>2, <1>3, AtStep
<1>5. /\ c.op \in Returning \cup Deleting \cup {"setContentStream", "checkOut"}
      /\ c.op \in Returning => next = "remove"
      /\ c.op = "setContentStream" => next = "supersede"
      /\ c.op = "checkOut" => next = "create"
      /\ c.op \in Deleting => next = "detach"
      /\ next \in {"remove", "supersede", "create", "detach"}
  BY <1>4 DEF StepFits
<1>6. c.doc # NoDoc /\ SeriesOf(c) = rev[c.doc].vs
  BY <1>4, <1>5 DEF KnowsDocs, Creating, Returning, Deleting, SeriesOf
<1>7. NoDoc \notin live
  BY VersionThreadsAssumptions DEF Typed, Stored, V!Created
<1>8. PICK f, k, m, t : Reads(c, f, k, m, t) /\ Continues(u, Admitted(c, f, k, m, t))
  BY <1>1, <1>4, <1>5, <1>6, <1>7, AdmitReads
<1>9. PICK y : y = Admitted(c, f, k, m, t)
  OBVIOUS
<1>10. PICK x : x = [y EXCEPT !.step = next]
  OBVIOUS
<1>11. /\ y.op = c.op /\ y.step = c.step
       /\ x.op = c.op /\ x.step = next /\ x.doc = c.doc /\ x.major = c.major
       /\ x.former = f /\ x.copy = k /\ x.made = m /\ x.todo = t
  BY <1>4, <1>9, <1>10 DEF Call, Admitted
<1>12. call' = [call EXCEPT ![u] = x]
  BY <1>3, <1>5, <1>8, <1>9, <1>10, <1>11 DEF Continues
<1>13. /\ x.step \notin {"end", "over"}
       /\ \/ x.op \notin Deleting \cup {"restore"}
          \/ x.step \notin {"rewrite", "archive", "remove", "attach", "drop"}
  BY <1>5, <1>11 DEF Returning, Deleting
<1>14. x.op = "setContentStream" => ~x.major
  BY <1>1, <1>11 DEF Joined
<1>15. seen' = seen
  BY <1>12, <1>13, NotSeen
<1>16. SameWork(c, x)
  BY <1>4, <1>6, <1>11, <1>15, SeriesSame DEF SameWork
<1>17. Unwritten(c) /\ Shows(seen.live, seen.rev, seen.series, seen.archive)
  BY <1>1, <1>2 DEF Unwritten, Joined, Story
<1>18. live = seen.live /\ rev = seen.rev /\ series = seen.series
  BY <1>17 DEF Shows
<1>19. /\ c.doc \in live /\ V!Permitted(u, c.doc)
       /\ c.op = "checkOut" => (series[rev[c.doc].vs].out => rev[c.doc].pwc)
       /\ c.op \in {"checkOut", "setContentStream"} => V!Current(u, c.doc)
  BY <1>2 DEF Accepted
<1>20. Given(u, c)
  BY <1>6, <1>18, <1>19 DEF Given, V!Permitted, Whole!Permitted
<1>21. c.op \in {"checkOut", "setContentStream"} => Whole!Current(u, c.doc)
  BY <1>18, <1>19 DEF V!Current, Whole!Current
<1>22. Given(u, x)'
  BY <1>16, <1>20, StillGiven
<1>23. V!LatestVersions(SeriesOf(c)) = Whole!LatestVersions(SeriesOf(c))
       /\ V!Versions(SeriesOf(c)) = Whole!Versions(SeriesOf(c))
  BY <1>18 DEF V!LatestVersions, V!Versions, Whole!LatestVersions, Whole!Versions
<1>24. Choice(x)' = Choice(c) /\ Targets(x)' = Targets(c)
  BY <1>16, SameSets
<1>25. ASSUME Shows(seen.live, seen.rev, seen.series, seen.archive)',
              c.op \in {"checkIn", "setContentStream"}
       PROVE  Story(u, x)'
  <2>1. RenewsGiven(u, c)
    <3>1. c.op = "setContentStream" => ~rev[c.doc].pwc
      BY <1>1, <1>2, AtStep DEF KnowsLocks
    <3>2. QED  BY <1>18, <1>20, <1>21, <1>25, <3>1 DEF RenewsGiven, Given
  <2>2. RenewsGiven(u, x)'
    BY <1>16, <2>1, StillGiven
  <2>3. Chosen(x)'
    <3>1. CASE c.op = "checkIn"
      <4>1. Choice(c) = V!LatestVersions(rev[c.doc].vs)
        BY <1>6, <1>23, <3>1 DEF Choice
      <4>2. IF f = NoDoc THEN Choice(c) = {} ELSE f \in Choice(c) /\ k = seen.rev[f]
        BY <1>8, <1>18, <3>1, <4>1 DEF Reads
      <4>3. QED  BY <1>11, <1>15, <1>24, <3>1, <4>2 DEF Chosen
    <3>2. CASE c.op = "setContentStream"
      <4>1. f = c.doc /\ k = seen.rev[f] /\ Choice(c) = {c.doc}
        BY <1>8, <1>18, <3>2 DEF Reads, Choice
      <4>2. QED  BY <1>6, <1>11, <1>15, <1>24, <3>2, <4>1 DEF Chosen
    <3>3. QED  BY <1>25, <3>1, <3>2
  <2>4. x.step \in {"remove", "supersede"} /\ (x.op = "checkIn" => x.step = "remove")
    BY <1>5, <1>11, <1>25 DEF Returning
  <2>5. Kept(x)' = seen'.live /\ Returned(x)' = seen'.series
    BY <2>4 DEF Kept, Returned, Left, Freed
  <2>6. Chooses(x)'
    BY <1>25, <2>3, <2>5 DEF Chooses, Shows
  <2>7. Renews(u, x)'
    BY <2>2, <2>4, <2>6 DEF Renews
  <2>8. QED  BY <1>11, <1>25, <2>7 DEF Story, Unwritten, Creating, Deleting
<1>26. ASSUME Shows(seen.live, seen.rev, seen.series, seen.archive)', c.op = "cancelCheckOut"
       PROVE  Story(u, x)'
  <2>1. x.step = "remove"
    BY <1>5, <1>11, <1>26 DEF Returning
  <2>2. Left(x)' = seen'.live /\ Freed(x)' = seen'.series
    BY <2>1 DEF Left, Freed
  <2>3. Cancels(u, x)'
    BY <1>22, <1>26, <2>2 DEF Cancels, Shows
  <2>4. QED  BY <1>11, <1>26, <2>3 DEF Story, Unwritten, Creating, Versioning, Deleting
<1>27. ASSUME Shows(seen.live, seen.rev, seen.series, seen.archive)', c.op = "checkOut"
       PROVE  Story(u, x)'
  <2>1. m = V!Pwc(SeriesOf(c))
    BY <1>6, <1>8, <1>27 DEF Reads
  <2>2. V!Pwc(SeriesOf(x))' = V!Pwc(SeriesOf(c))
    BY <1>16 DEF SameWork, V!Pwc, V!NoLabel
  <2>3. Whole!Current(u, x.doc)'
    BY <1>11, <1>15, <1>21, <1>27 DEF Whole!Current
  <2>4. seen'.series[SeriesOf(x)'].out => seen'.rev[x.doc].pwc
    BY <1>6, <1>11, <1>15, <1>16, <1>18, <1>19, <1>27 DEF SameWork
  <2>5. AddsGiven(u, x)'
    BY <1>11, <1>22, <1>27, <2>1, <2>2, <2>3, <2>4 DEF AddsGiven
  <2>6. x.step = "create" /\ NodesOpened(x)' = seen'.series
    BY <1>5, <1>11, <1>27 DEF NodesOpened
  <2>7. Adds(u, x)'
    BY <1>27, <2>5, <2>6 DEF Adds, Shows
  <2>8. QED  BY <1>11, <1>27, <2>6, <2>7 DEF Story, Unwritten, Creating, Versioning, Deleting
<1>28. ASSUME Shows(seen.live, seen.rev, seen.series, seen.archive)', c.op \in Deleting
       PROVE  Story(u, x)'
  <2>1. t = Targets(c)
    BY <1>6, <1>8, <1>23, <1>28 DEF Reads, Targets, Deleting
  <2>2. x.step = "detach"
    BY <1>5, <1>11, <1>28
  <2>3. x.todo = Targets(x)' /\ Taken(x)' = {}
    BY <1>11, <1>24, <2>1 DEF Taken
  <2>4. c.op = "deleteVersion" => x.todo = {x.doc}
    BY <1>11, <2>1 DEF Targets
  <2>5. Deletes(u, x)'
    BY <1>11, <1>22, <1>28, <2>2, <2>3, <2>4 DEF Deletes, Shows
  <2>6. QED  BY <1>11, <1>28, <2>2, <2>5 DEF Story, Unwritten, Creating, Versioning, Deleting
<1>29. Shows(seen.live, seen.rev, seen.series, seen.archive)' => Story(u, x)'
  BY <1>5, <1>25, <1>26, <1>27, <1>28 DEF Returning
<1>30. QED
  BY <1>1, <1>2, <1>12, <1>13, <1>14, <1>17, <1>29, GoesOnFrom

-----------------------------------------------------------------------------
(***************************************************************************)
(* Every step is a whole call, or none                                     *)
(***************************************************************************)

LEMMA JoinedSendsAny ==
  ASSUME NEW u, Single(u), Typed, Typed', Grows, Joined(u), Remembers, SendsAny(u)
  PROVE  Joined(u)' /\ WholeStep
BY JoinedSend, JoinedSendCreate, JoinedSendSaveVersion, JoinedSendArchiveCall,
   JoinedSendGetAllVersions DEF SendsAny

LEMMA JoinedAdvancesVersion ==
  ASSUME NEW u, Single(u), Typed, Typed', Grows, Joined(u), Remembers, AdvancesVersion(u)
  PROVE  Joined(u)' /\ WholeStep
BY JoinedSupersede, JoinedSupersedeFails, JoinedCreate, JoinedName, JoinedResave,
   JoinedResaveFormer, NeverResaveFails, JoinedRemove, JoinedClear, JoinedLatest,
   JoinedLockLatest DEF AdvancesVersion

LEMMA JoinedAdvancesRemoval ==
  ASSUME NEW u, Single(u), Typed, Typed', Grows, Joined(u), Remembers, AdvancesRemoval(u)
  PROVE  Joined(u)' /\ WholeStep
BY JoinedDetach, JoinedDetachEnds, NeverDetachFails, JoinedRewrite, JoinedArchive,
   NeverRemovalFails, JoinedPromote, NeverPromoteFails, JoinedRevive, JoinedAttach,
   JoinedDrop, NeverDropHalf, JoinedLoopEnds, NeverRestoreFails DEF AdvancesRemoval

LEMMA JoinedNext ==
  ASSUME NEW u, Single(u), Typed, Typed', Grows, Joined(u), SeenNext
  PROVE  Joined(u)' /\ WholeStep
<1>1. PICK v \in User : SendsAny(v) \/ Advances(v) \/ Fail(v)
  BY DEF SeenNext, Next
<1>2. v = u /\ ~Fail(v) /\ Remembers
  BY <1>1 DEF Single, Fail, SeenNext
<1>3. CASE SendsAny(u)
  BY <1>2, <1>3, JoinedSendsAny
<1>4. CASE Advances(u)
  BY <1>2, <1>4, JoinedRefuse, JoinedAdmit, JoinedAdvancesVersion, JoinedAdvancesRemoval,
     JoinedReadLock, JoinedAllRead DEF Advances
<1>5. QED  BY <1>1, <1>2, <1>3, <1>4

LEMMA JoinedStutters ==
  ASSUME NEW u, Joined(u), UNCHANGED <<vars, seen>>  PROVE Joined(u)' /\ WholeStep
<1>1. PICK c : c = call[u]
  OBVIOUS
<1>2. /\ UNCHANGED <<live, rev, series, attached, shelved, records, call, seen>>
      /\ call'[u] = c
  BY <1>1 DEF vars
<1>3. /\ SeenType /\ OneEach /\ RecordsSound /\ Story(u, c) /\ InOrder(c)
      /\ c.op = "setContentStream" => ~c.major
  BY <1>1 DEF Joined
<1>4. SeenType' /\ (OneEach /\ RecordsSound)' /\ Archived(records)' = Archived(records)
  BY <1>2, <1>3, RecordsStay DEF SeenType, Whole!Created
<1>5. SeriesOf(c)' = SeriesOf(c)
  BY <1>2 DEF SeriesOf
<1>6. SameWork(c, c)
  BY <1>2, <1>5 DEF SameWork
<1>7. InOrder(c)'
  BY <1>2, <1>3, <1>4 DEF InOrder, Away, Twice
<1>8. /\ \A l, r, s, a : Shows(l, r, s, a)' <=> Shows(l, r, s, a)
      /\ Archived(c.todo)' = Archived(c.todo)
  BY <1>2, <1>4 DEF Shows, Archived
<1>9. /\ Adds(u, c)' <=> Adds(u, c)
      /\ Cancels(u, c)' <=> Cancels(u, c)
  BY <1>2, <1>6, <1>8, StillGiven
     DEF Adds, Cancels, Left, Freed, V!CheckedIn
<1>10. Renews(u, c)' <=> Renews(u, c)
  <2>1. Chosen(c)' <=> Chosen(c)
    BY <1>2, <1>6, SameSets DEF Chosen
  <2>2. Kept(c)' = Kept(c) /\ Returned(c)' = Returned(c)
    BY <1>2, <1>6, StillGiven DEF Kept, Returned, Left, Freed, V!CheckedIn
  <2>3. Chooses(c)' <=> Chooses(c)
    BY <1>2, <1>8, <2>1, <2>2 DEF Chooses
  <2>4. /\ \A f : V!NextVersion(seen.rev[f], c.major)' = V!NextVersion(seen.rev[f], c.major)
        /\ \A f : V!Superseded(seen.rev[f], c.major)' = V!Superseded(seen.rev[f], c.major)
    BY <1>2 DEF V!NextVersion, V!Version, V!IncreasedVersionLabel, V!Superseded
  <2>5. Supersedes(c)' <=> Supersedes(c)
    BY <1>2, <1>6, <1>8, <2>2, <2>4, SameSets DEF Supersedes
  <2>6. \A f, n : Versioned(c, f, n)' <=> Versioned(c, f, n)
    BY <1>2, <1>6, <1>8, <2>2, <2>4, SameSets DEF Versioned
  <2>7. QED  BY <1>6, <2>3, <2>5, <2>6, StillGiven DEF Renews
<1>11. Deletes(u, c)' <=> Deletes(u, c)
  <2>1. V!LatestVersions(SeriesOf(c))' = V!LatestVersions(SeriesOf(c))
    BY <1>2, <1>5 DEF V!LatestVersions, V!Versions
  <2>2. Taken(c)' = Taken(c)
    BY <1>6, SameSets DEF Taken
  <2>3. QED  BY <1>2, <1>4, <1>6, <2>1, <2>2, StillGiven, SameSets DEF Deletes
<1>12. /\ Restores(c)' <=> Restores(c)
       /\ Purges(c)' <=> Purges(c)
  <2>1. Done(c)' = Done(c)
    BY <1>6, <1>8, SameSets DEF Done
  <2>2. QED  BY <1>2, <1>4, <1>6, <1>8, <2>1, SameSets DEF Restores, Purges
<1>13. Story(u, c)'
  BY <1>2, <1>3, <1>8, <1>9, <1>10, <1>11, <1>12 DEF Story
<1>14. QED  BY <1>2, <1>3, <1>4, <1>7, <1>13, SeenSame DEF Joined

LEMMA JoinedInit ==
  ASSUME NEW u, Single(u), SeenInit  PROVE Joined(u) /\ Whole!Init
<1>1. /\ live = {} /\ rev = [d \in Doc |-> Absent] /\ series = [s \in Series |-> Absent]
      /\ attached = {} /\ records = {} /\ call[u] = Rest
  BY DEF SeenInit, Init, Single
<1>2. Archived(records) = {}
  BY <1>1 DEF Archived
<1>3. /\ seen = [live |-> live, rev |-> rev, series |-> series,
                 archive |-> Archived(records), outcome |-> "ok"]
      /\ Shows(seen.live, seen.rev, seen.series, seen.archive)
  BY DEF SeenInit, Shows
<1>4. SeenType
  <2>1. /\ seen.live = {} /\ seen.archive = {} /\ seen.outcome = "ok"
        /\ seen.rev \in [Doc -> V!Revision \cup {Absent}]
        /\ seen.series \in [Series -> V!SeriesNode \cup {Absent}]
    BY <1>1, <1>2, <1>3
  <2>2. QED  BY <1>3, <2>1 DEF SeenType
<1>5. OneEach /\ RecordsSound
  BY <1>1 DEF OneEach, RecordsSound
<1>6. /\ Unwritten(Rest) /\ Rest.op = "none" /\ Rest.step = "end"
  BY DEF Unwritten, Rest
<1>7. Story(u, Rest)
  BY <1>3, <1>6 DEF Story
<1>8. InOrder(Rest)
  BY <1>1, <1>2, <1>6, InOrderAtRest DEF Deleting
<1>9. Whole!Init
  BY <1>1, <1>2, <1>3 DEF Whole!Init
<1>10. QED  BY <1>1, <1>4, <1>5, <1>6, <1>7, <1>8, <1>9 DEF Joined

\* RefinesWholeCalls: with a single caller that is not guided, and without
\* failures, what there is between two calls changes as VersionSeries says:
\* the database steps of a call, one by one, add up to all that it writes, to
\* nothing, or to what is left when it throws half-way (checkIn, when there is
\* no version to supersede).
THEOREM CallsAreWhole ==
  ASSUME NEW u, Single(u)  PROVE SeenSpec => RefinesWholeCalls
<1>1. SeenInit => Init /\ Joined(u) /\ Whole!Init
  BY JoinedInit DEF SeenInit
<1>2. [SeenNext]_<<vars, seen>> => [Next]_vars
  BY DEF SeenNext
<1>3. Typed /\ Typed' /\ Joined(u) /\ [SeenNext]_<<vars, seen>>
        => Joined(u)' /\ [Whole!Next]_(Whole!vars)
  <2>1. SUFFICES ASSUME Typed, Typed', Joined(u), [SeenNext]_<<vars, seen>>
                 PROVE  Joined(u)' /\ WholeStep
    BY DEF WholeStep
  <2>2. CASE SeenNext
    <3>1. Grows
      BY <2>1, <2>2, TypedNextStep DEF SeenNext
    <3>2. QED  BY <2>1, <2>2, <3>1, JoinedNext
  <2>3. CASE UNCHANGED <<vars, seen>>
    BY <2>1, <2>3, JoinedStutters
  <2>4. QED  BY <2>1, <2>2, <2>3
<1>4. SeenSpec => Spec
  BY <1>1, <1>2, PTL DEF SeenSpec, Spec
<1>5. QED
  BY <1>1, <1>3, <1>4, TypedAlways, PTL DEF SeenSpec, RefinesWholeCalls, Whole!Spec
================================================================================
